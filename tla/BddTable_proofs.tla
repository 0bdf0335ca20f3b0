--------------------------- MODULE BddTable_proofs ---------------------------
(***************************************************************************)
(* The table of nodes keeps one node for each function, on the chain of    *)
(* its key, and a collection keeps what is reachable.                      *)
(*                                                                         *)
(* The invariant knows what the code does not write down: which nodes are  *)
(* on chains (live), which are in the free list (fr), and a rank that      *)
(* grows along each link, so that lists end.  Between collections          *)
(* (AtRest), the nodes in use are closed under their links and have one    *)
(* key each (Reduced); during one (Collecting), this holds of the flagged  *)
(* nodes, and chains and free list hold just the nodes of the pools        *)
(* already swept.                                                          *)
(***************************************************************************)
EXTENDS BddTable, SequenceTheorems, FiniteSetTheorems, WellFoundedInduction, TLAPS

Hash  == 0..Buckets - 1
Nodes == [Address -> Node]
Ranks == [Address -> Nat]

Table == [node : Nodes, bddmemory : Seq(Pool), curBDDPos : 0..PoolSize,
          hash_memory : [Hash -> Address \cup {NULL}],
          free : Address \cup {NULL}, free_count : Nat]

(* What is linked from start on is S: rank grows along the links, each node*)
(* of S but the first has exactly one node of S before it, the first none. *)
IsList(node, start, S, rank) ==
  /\ start \in S \cup {NULL}
  /\ \A n \in S :
       /\ node[n].next \in S \cup {NULL}
       /\ node[n].next # NULL => rank[n] < rank[node[n].next] /\ node[n].next # start
       /\ n = start \/ \E m \in S : node[m].next = n
  /\ \A m, n \in S : node[m].next = node[n].next /\ node[m].next # NULL => m = n

Handed(t) == UNION {Used(t, i) : i \in DOMAIN t.bddmemory}

OfHash(t, S, h) == {n \in S : HashOf(t, n) = h}

(* The nodes of live are on the chains of their keys, those of fr in the   *)
(* free list.                                                              *)
Linkage(t, live, fr, rank) ==
  /\ t \in Table
  /\ IsInjective(t.bddmemory)
  /\ live \subseteq Handed(t) /\ fr \subseteq Handed(t) /\ live \cap fr = {}
  /\ rank \in Ranks
  /\ \A h \in Hash : IsList(t.node, t.hash_memory[h], OfHash(t, live, h), rank)
  /\ IsList(t.node, t.free, fr, rank)
  /\ t.free_count = Cardinality(fr)
  /\ \A n \in fr : t.node[n].variable = 0

Negated(node, n, not) ==
  /\ node[not].variable = node[n].variable
  /\ node[not].thenCase = node[node[n].thenCase].notCase
  /\ node[not].elseCase = node[node[n].elseCase].notCase
  /\ node[not].notCase = n

Inner(node, A, n) ==
  /\ node[n].variable \in B!Var
  /\ {node[n].thenCase, node[n].elseCase, node[n].notCase} \subseteq A
  /\ node[n].thenCase # node[n].elseCase
  /\ node[node[n].thenCase].variable < node[n].variable
  /\ node[node[n].elseCase].variable < node[n].variable
  /\ Negated(node, n, node[n].notCase)

SameKey(node, m, n) ==
  /\ node[m].variable = node[n].variable
  /\ node[m].thenCase = node[n].thenCase /\ node[m].elseCase = node[n].elseCase

(* A is a set of nodes closed under the links between them, with one node  *)
(* for each key.                                                           *)
Reduced(node, A) ==
  /\ Constants \subseteq A /\ A \subseteq Address
  /\ \A c \in Constants : /\ node[c].variable = -1 /\ node[c].notCase \in Constants \ {c}
                          /\ node[c].thenCase = c /\ node[c].elseCase = c
  /\ \A n \in A \ Constants : Inner(node, A, n)
  /\ \A m, n \in A \ Constants : SameKey(node, m, n) => m = n

MeaningOf(node) ==
  LET means[n \in Address] ==
        LET v == node[n].variable
            Below(m) == m # NULL /\ node[m].variable < v
            r == node[n].thenCase
            e == node[n].elseCase
        IN  IF n = true_ptr THEN B!true_ptr
            ELSE IF n = false_ptr \/ ~Below(r) \/ ~Below(e) THEN B!false_ptr
            ELSE {m \in B!Assignment : m \in IF m[v] = B!BOOL_TRUE THEN means[r]
                                                                    ELSE means[e]}
  IN  means

ResultsOf(node, A, results) ==
  \A c \in results :
    /\ {c.x, c.y, c.cached_ite} \subseteq A
    /\ MeaningOf(node)[c.cached_ite] = Result(MeaningOf(node)[c.x], MeaningOf(node)[c.y])

(* Between collections *)
AtRest(t, fs, results, live, fr, rank) ==
  LET A == Handed(t) \ fr
  IN  /\ Linkage(t, live, fr, rank)
      /\ live \subseteq A /\ A \ Constants \subseteq live
      /\ \A c \in Constants \ live : t.node[c].next = NULL
      /\ Reduced(t.node, A)
      /\ fs \subseteq A
      /\ ResultsOf(t.node, A, results)

(* The nodes of the pools before pool i *)
Before(t, i) == UNION {Used(t, j) : j \in 1..i - 1}

EndsAt(node, fr, chain_free) ==
  IF fr = {} THEN chain_free = NULL ELSE chain_free \in fr /\ node[chain_free].next = NULL

(* During a collection *)
Collecting(t, fs, sw, rank) ==
  /\ sw.i \in 1..Len(t.bddmemory) + 1
  /\ Linkage(t, sw.flagged \cap Before(t, sw.i), Before(t, sw.i) \ sw.flagged, rank)
  /\ EndsAt(t.node, Before(t, sw.i) \ sw.flagged, sw.chain_free)
  /\ sw.flagged \subseteq Handed(t)
  /\ Reduced(t.node, sw.flagged)
  /\ fs \subseteq sw.flagged

-----------------------------------------------------------------------------
(* Numbers and recursive functions *)

(* A nonempty set of numbers has a least one. *)
LEMMA LeastNumber ==
  ASSUME NEW T, T \subseteq Nat, T # {}
  PROVE  \E k \in T : \A j \in T : k <= j
<1>1. PICK k \in T : \A j \in T : ~(<<j, k>> \in OpToRel(<, Nat))
  BY NatLessThanWellFounded, WFMin
<1>2. ASSUME NEW j \in T PROVE k <= j
  <2>1. ~(j < k)
    BY <1>1 DEF OpToRel
  <2> QED
    BY <2>1
<1> QED
  BY <1>2

(* f starts with b, and g gives the value of f at i from the one before.   *)
StepOf(N, S) == [(1..N) \X S -> S]

Iterates(f, N, S, b, g) ==
  f \in [0..N -> S] /\ f[0] = b /\ \A i \in 1..N : f[i] = g[<<i, f[i - 1]>>]

(* A function on 0..N may be given by its first value and by what follows  *)
(* a value.                                                                *)
LEMMA StepFunction ==
  ASSUME NEW N \in Nat, NEW S, NEW b \in S, NEW g \in StepOf(N, S)
  PROVE  \E f : Iterates(f, N, S, b, g)
<1> USE DEF StepOf, Iterates
<1> DEFINE Good(k) == \E f \in [0..k -> S] :
                        f[0] = b /\ \A i \in 1..k : f[i] = g[<<i, f[i - 1]>>]
           Bad == {k \in 0..N : ~Good(k)}
<1> SUFFICES ASSUME Bad # {} PROVE FALSE
  <2>1. N \in 0..N
    OBVIOUS
  <2> QED
    BY <2>1
<1>1. PICK k \in Bad : \A j \in Bad : k <= j
  <2>1. Bad \subseteq Nat
    OBVIOUS
  <2> HIDE DEF Bad
  <2> QED
    BY <2>1, LeastNumber
<1>2. k # 0
  <2> DEFINE f == [i \in 0..0 |-> b]
  <2>1. f \in [0..0 -> S] /\ f[0] = b /\ \A i \in 1..0 : f[i] = g[<<i, f[i - 1]>>]
    OBVIOUS
  <2>2. Good(0)
    BY <2>1
  <2> QED
    BY <2>2
<1>3. k - 1 \in 0..N /\ k - 1 \notin Bad
  BY <1>1, <1>2
<1>4. PICK f \in [0..k - 1 -> S] : f[0] = b /\ \A i \in 1..k - 1 : f[i] = g[<<i, f[i - 1]>>]
  BY <1>3
<1> DEFINE h == [i \in 0..k |-> IF i = k THEN g[<<k, f[k - 1]>>] ELSE f[i]]
<1>5. g[<<k, f[k - 1]>>] \in S
  BY <1>2
<1>6. h \in [0..k -> S]
  BY <1>5
<1>7. h[0] = b
  BY <1>2, <1>4
<1>8. ASSUME NEW i \in 1..k PROVE h[i] = g[<<i, h[i - 1]>>]
  <2>1. i - 1 \in 0..k /\ i - 1 # k /\ h[i - 1] = f[i - 1]
    OBVIOUS
  <2>2. CASE i = k
    BY <2>1, <2>2
  <2>3. CASE i # k
    <3>1. i \in 1..k - 1 /\ h[i] = f[i]
      BY <2>3
    <3> QED
      BY <2>1, <3>1, <1>4
  <2> QED
    BY <2>2, <2>3
<1>9. Good(k)
  BY <1>6, <1>7, <1>8
<1> QED
  BY <1>9

-----------------------------------------------------------------------------
(* Lists *)

(* The memory is finite, and NULL is not in it. *)
LEMMA AddressFinite ==
  /\ IsFiniteSet(Address) /\ Cardinality(Address) \in Nat \ {0}
  /\ Address \subseteq Nat /\ NULL \notin Address /\ Constants \subseteq Address
<1>1. MaxPools * PoolSize \in Nat /\ MaxPools * PoolSize > 2
  <2>1. PICK k \in Nat : MaxPools = k + 1
    <3>1. MaxPools - 1 \in Nat /\ MaxPools = (MaxPools - 1) + 1
      BY BddTableAssumption
    <3> QED
      BY <3>1
  <2>2. PoolSize \in Nat /\ PoolSize > 2
    BY BddTableAssumption
  <2>3. k * PoolSize \in Nat
    BY <2>2
  <2>4. (k + 1) * PoolSize = k * PoolSize + PoolSize
    BY <2>2
  <2> QED
    BY <2>1, <2>2, <2>3, <2>4
<1> DEFINE n == MaxPools * PoolSize
<1>2. IsFiniteSet(1..n) /\ Cardinality(1..n) = n
  <2>1. n \in Int /\ ~(1 > n)
    BY <1>1
  <2> HIDE DEF n
  <2> QED
    BY <2>1, FS_Interval
<1> QED
  BY <1>1, <1>2 DEF Address, NULL, Constants, false_ptr, true_ptr

(* What follows the links from start, position by position *)
Follows(node, start, at) ==
  /\ at \in [0..Cardinality(Address) -> Address \cup {NULL}]
  /\ at[0] = start
  /\ \A i \in 1..Cardinality(Address) :
       at[i] = IF at[i - 1] = NULL THEN NULL ELSE node[at[i - 1]].next

(* The recursive function Links exists and follows the links. *)
LEMMA LinksFollow ==
  ASSUME NEW t, t.node \in Nodes, NEW start \in Address \cup {NULL}
  PROVE  Follows(t.node, start, Links(t, start))
<1> DEFINE N == Cardinality(Address)
           S == Address \cup {NULL}
           next(m) == IF m = NULL THEN NULL ELSE t.node[m].next
           g == [p \in (1..N) \X S |-> next(p[2])]
<1>1. \A m \in S : next(m) \in S
  BY DEF Node, Nodes
<1>2. g \in StepOf(N, S)
  BY <1>1 DEF StepOf
<1>3. N \in Nat
  BY AddressFinite
<1>4. PICK f \in [0..N -> S] : f[0] = start /\ \A i \in 1..N : f[i] = g[<<i, f[i - 1]>>]
  <2>1. start \in S
    OBVIOUS
  <2> HIDE DEF N, S, g
  <2>2. PICK f : Iterates(f, N, S, start, g)
    BY <1>2, <1>3, <2>1, StepFunction
  <2> QED
    BY <2>2 DEF Iterates
<1>5. ASSUME NEW i \in 1..N PROVE f[i] = next(f[i - 1])
  <2>1. f[i - 1] \in S
    BY <1>3, <1>4
  <2>2. <<i, f[i - 1]>> \in (1..N) \X S
    BY <2>1
  <2> QED
    BY <1>4, <2>2
<1> DEFINE Body(at) == [i \in 0..N |-> IF i = 0 THEN start ELSE next(at[i - 1])]
<1>6. f = Body(f)
  <2>1. \A i \in 0..N : f[i] = Body(f)[i]
    BY <1>3, <1>4, <1>5
  <2> QED
    BY <2>1, <1>4
<1>7. Links(t, start) = CHOOSE at : at = Body(at)
  BY DEF Links
<1> DEFINE at == Links(t, start)
<1>8. at = Body(at)
  <2> HIDE DEF Body
  <2> QED
    BY <1>6, <1>7
<1>9. DOMAIN at = 0..N /\ at[0] = start /\ \A i \in 1..N : at[i] = next(at[i - 1])
  <2> HIDE DEF at
  <2>1. DOMAIN at = 0..N
    BY <1>8
  <2>2. at[0] = start
    BY <1>3, <1>8
  <2>3. ASSUME NEW i \in 1..N PROVE at[i] = next(at[i - 1])
    <3>1. i \in 0..N /\ i # 0
      BY <1>3
    <3> QED
      BY <3>1, <1>8
  <2> QED
    BY <2>1, <2>2, <2>3
<1>10. \A i \in 0..N : at[i] \in S
  <2> SUFFICES ASSUME {i \in 0..N : at[i] \notin S} # {} PROVE FALSE
    OBVIOUS
  <2>1. PICK k \in {i \in 0..N : at[i] \notin S} :
             \A j \in {i \in 0..N : at[i] \notin S} : k <= j
    <3>1. {i \in 0..N : at[i] \notin S} \subseteq Nat
      OBVIOUS
    <3> QED
      BY <3>1, LeastNumber
  <2>2. k # 0
    BY <2>1, <1>9
  <2>3. k - 1 \in 0..N /\ at[k - 1] \in S
    BY <1>3, <2>1, <2>2
  <2> QED
    BY <1>1, <1>9, <2>1, <2>2, <2>3
<1> HIDE DEF at
<1>11. at = [i \in 0..N |-> at[i]]
  BY <1>8, <1>9
<1>12. at \in [0..N -> S]
  BY <1>10, <1>11
<1> QED
  BY <1>9, <1>12 DEF Follows, at

(* at goes through S, along growing ranks, and ends. *)
Visits(at, S, rank) ==
  /\ \A i \in 0..Cardinality(Address) : at[i] \in S \cup {NULL}
  /\ \A i, j \in 0..Cardinality(Address) : i < j /\ at[j] # NULL =>
       at[i] # NULL /\ rank[at[i]] < rank[at[j]]
  /\ at[Cardinality(Address)] = NULL
  /\ \A n \in S : \E i \in 0..Cardinality(Address) : at[i] = n

(* What follows the links of a list goes through all of it, and only it. *)
LEMMA FollowsList ==
  ASSUME NEW node \in Nodes, NEW start, NEW S, S \subseteq Address,
         NEW rank \in Ranks, IsList(node, start, S, rank),
         NEW at, Follows(node, start, at)
  PROVE  Visits(at, S, rank)
<1> USE DEF Nodes, Ranks
<1> DEFINE N == Cardinality(Address)
<1>1. N \in Nat \ {0} /\ NULL \notin S
  BY AddressFinite
<1>2. /\ at[0] = start
      /\ \A i \in 1..N : at[i] = IF at[i - 1] = NULL THEN NULL ELSE node[at[i - 1]].next
  BY DEF Follows
<1> HIDE DEF N
<1>3. \A i \in 0..N : at[i] \in S \cup {NULL}
  <2> SUFFICES ASSUME {i \in 0..N : at[i] \notin S \cup {NULL}} # {} PROVE FALSE
    OBVIOUS
  <2> DEFINE T == {i \in 0..N : at[i] \notin S \cup {NULL}}
  <2>1. PICK k \in T : \A j \in T : k <= j
    <3>1. T \subseteq Nat
      OBVIOUS
    <3> HIDE DEF T
    <3> QED
      BY <3>1, LeastNumber DEF T
  <2>2. k # 0
    BY <2>1, <1>2 DEF IsList
  <2>3. k - 1 \in 0..N /\ at[k - 1] \in S \cup {NULL}
    BY <1>1, <2>1, <2>2
  <2> QED
    BY <1>2, <2>1, <2>2, <2>3 DEF IsList
<1>4. ASSUME NEW i \in 1..N, at[i] # NULL
      PROVE  at[i - 1] \in S /\ at[i] \in S /\ rank[at[i - 1]] < rank[at[i]]
  <2>1. i - 1 \in 0..N /\ i \in 0..N
    BY <1>1
  <2> QED
    BY <1>2, <1>3, <1>4, <2>1 DEF IsList
<1>5. ASSUME NEW i \in 0..N, NEW j \in 0..N, i < j, at[j] # NULL
      PROVE  at[i] # NULL /\ rank[at[i]] < rank[at[j]]
  <2> DEFINE T == {d \in Nat : \E k \in 0..N : /\ i < k /\ d = k - i /\ at[k] # NULL
                                               /\ ~(at[i] # NULL /\ rank[at[i]] < rank[at[k]])}
  <2> SUFFICES ASSUME T # {} PROVE FALSE
    <3>1. j - i \in Nat
      BY <1>5
    <3> QED
      BY <3>1, <1>5
  <2>1. PICK d \in T : \A x \in T : d <= x
    <3>1. T \subseteq Nat
      OBVIOUS
    <3> HIDE DEF T
    <3> QED
      BY <3>1, LeastNumber
  <2>2. PICK k \in 0..N : /\ i < k /\ d = k - i /\ at[k] # NULL
                          /\ ~(at[i] # NULL /\ rank[at[i]] < rank[at[k]])
    BY <2>1
  <2>3. k \in 1..N
    BY <2>2
  <2>4. at[k - 1] \in S /\ rank[at[k - 1]] < rank[at[k]] /\ at[k] \in S
    BY <1>4, <2>2, <2>3
  <2>5. CASE k - 1 = i
    BY <2>2, <2>4, <2>5, <1>1
  <2>6. CASE k - 1 # i
    <3>1. i < k - 1 /\ k - 1 \in 0..N /\ (k - 1) - i \in Nat /\ ~(d <= (k - 1) - i)
      BY <2>2, <2>3, <2>6, <1>1
    <3>2. (k - 1) - i \notin T
      BY <2>1, <3>1
    <3>3. at[k - 1] # NULL
      BY <2>4, <1>1
    <3>4. at[i] # NULL /\ rank[at[i]] < rank[at[k - 1]]
      BY <3>1, <3>2, <3>3
    <3>5. at[i] \in S
      BY <3>4, <1>3
    <3>6. rank[at[i]] \in Nat /\ rank[at[k - 1]] \in Nat /\ rank[at[k]] \in Nat
      BY <3>5, <2>4
    <3> QED
      BY <2>2, <2>4, <3>4, <3>6
  <2> QED
    BY <2>5, <2>6
<1>6. at[N] = NULL
  <2> SUFFICES ASSUME at[N] # NULL PROVE FALSE
    OBVIOUS
  <2>1. \A i \in 0..N : at[i] \in Address /\ at[i] # NULL
    BY <1>1, <1>3, <1>5
  <2>2. \A i, j \in 0..N : i < j => at[i] # at[j]
    <3> TAKE i, j \in 0..N
    <3>1. rank[at[i]] \in Nat /\ rank[at[j]] \in Nat
      BY <2>1
    <3> QED
      BY <3>1, <2>1, <1>5
  <2>3. \A i, j \in 0..N : i # j => at[i] # at[j]
    <3> TAKE i, j \in 0..N
    <3>1. i < j \/ j < i \/ i = j
      OBVIOUS
    <3> QED
      BY <3>1, <2>2
  <2> DEFINE f == [i \in 0..N |-> at[i]]
  <2>4. PICK S0 : S0 = 0..N
    OBVIOUS
  <2>5. f \in [S0 -> Address]
    BY <2>4, <2>1
  <2>6. IsFiniteSet(0..N) /\ Cardinality(0..N) = N + 1
    BY <1>1, FS_Interval
  <2>7. Cardinality(Address) < Cardinality(0..N)
    BY <2>6, <1>1 DEF N
  <2>8. PICK x, y \in 0..N : x # y /\ f[x] = f[y]
    <3>1. IsFiniteSet(S0) /\ Cardinality(Address) < Cardinality(S0)
      BY <2>4, <2>6, <2>7
    <3> HIDE DEF f
    <3>2. \E x, y \in S0 : x # y /\ f[x] = f[y]
      BY ONLY <2>5, <3>1, AddressFinite, FS_PigeonHole
    <3> QED
      BY <2>4, <3>2
  <2> QED
    BY <2>3, <2>8
<1>7. ASSUME NEW n \in S PROVE \E i \in 0..N : at[i] = n
  <2> DEFINE T == {d \in Nat : \E m \in S : d = rank[m] /\ ~\E i \in 0..N : at[i] = m}
  <2> SUFFICES ASSUME T # {} PROVE FALSE
    <3>1. rank[n] \in Nat
      OBVIOUS
    <3> QED
      BY <3>1
  <2>1. PICK d \in T : \A x \in T : d <= x
    <3>1. T \subseteq Nat
      OBVIOUS
    <3> HIDE DEF T
    <3> QED
      BY <3>1, LeastNumber
  <2>2. PICK m \in S : d = rank[m] /\ ~\E i \in 0..N : at[i] = m
    BY <2>1
  <2>3. m # start
    BY <2>2, <1>1, <1>2
  <2>4. PICK b \in S : node[b].next = m
    BY <2>3 DEF IsList
  <2>5. m # NULL /\ rank[b] < rank[m] /\ rank[b] \in Nat /\ rank[m] \in Nat
    BY <2>4, <1>1 DEF IsList
  <2>6. PICK i \in 0..N : at[i] = b
    <3>1. rank[b] \notin T
      BY <2>1, <2>2, <2>5
    <3> QED
      BY <3>1, <2>5
  <2>7. i # N
    BY <2>6, <1>6, <1>1
  <2>8. i + 1 \in 1..N /\ i + 1 \in 0..N /\ (i + 1) - 1 = i
    BY <2>7, <1>1
  <2>9. at[i + 1] = m
    BY <2>8, <2>6, <2>4, <1>2, <1>1
  <2> QED
    BY <2>2, <2>8, <2>9
<1> QED
  BY <1>3, <1>5, <1>6, <1>7 DEF N, Visits

(* The links from the first node of a list reach just its nodes, each once,*)
(* and end.                                                                *)
LEMMA ListLinks ==
  ASSUME NEW t, t.node \in Nodes, NEW start, NEW S, S \subseteq Address,
         NEW rank \in Ranks, IsList(t.node, start, S, rank)
  PROVE  /\ Linked(t, start) = S
         /\ Links(t, start)[Cardinality(Address)] = NULL
         /\ \A i, j \in DOMAIN Links(t, start) :
              Links(t, start)[i] = Links(t, start)[j] => i = j \/ Links(t, start)[i] = NULL
<1> DEFINE N == Cardinality(Address)
<1>1. PICK at : at = Links(t, start)
  OBVIOUS
<1>2. Follows(t.node, start, at)
  BY <1>1, LinksFollow DEF IsList
<1>3. N \in Nat \ {0} /\ NULL \notin S /\ DOMAIN at = 0..N
  BY <1>2, AddressFinite DEF Follows
<1>4. /\ \A i \in 0..N : at[i] \in S \cup {NULL}
      /\ \A i, j \in 0..N : i < j /\ at[j] # NULL => at[i] # NULL /\ rank[at[i]] < rank[at[j]]
      /\ at[N] = NULL
      /\ \A n \in S : \E i \in 0..N : at[i] = n
  <2>1. PICK node \in Nodes : node = t.node
    OBVIOUS
  <2>2. Visits(at, S, rank)
    BY <1>2, <2>1, FollowsList
  <2> QED
    BY <2>2 DEF Visits
<1> HIDE DEF N
<1>5. Range(at) \ {NULL} = S
  BY <1>3, <1>4 DEF Range
<1>6. \A i, j \in 0..N : i < j /\ at[i] # NULL => at[i] # at[j]
  <2> SUFFICES ASSUME NEW i \in 0..N, NEW j \in 0..N, i < j, at[i] # NULL, at[i] = at[j]
               PROVE FALSE
    OBVIOUS
  <2>1. at[i] \in S /\ rank[at[i]] < rank[at[j]]
    BY <1>4
  <2>2. rank[at[i]] \in Nat
    BY <2>1 DEF Ranks
  <2> QED
    BY <2>1, <2>2
<1>7. \A i, j \in 0..N : at[i] = at[j] => i = j \/ at[i] = NULL
  <2> TAKE i, j \in 0..N
  <2>1. i < j \/ j < i \/ i = j
    OBVIOUS
  <2> QED
    BY <2>1, <1>6
<1> QED
  BY <1>1, <1>3, <1>4, <1>5, <1>7 DEF Linked, N

(* A list is empty when it starts with NULL, and has an end otherwise. *)
LEMMA ListEnds ==
  ASSUME NEW node \in Nodes, NEW start, NEW S, S \subseteq Address,
         NEW rank \in Ranks, IsList(node, start, S, rank)
  PROVE  /\ start = NULL <=> S = {}
         /\ S # {} => start \in S /\ \E m \in S : node[m].next = NULL
<1>1. NULL \notin S
  BY AddressFinite
<1> DEFINE t == [node |-> node]
           N == Cardinality(Address)
<1>2. PICK at : at = Links(t, start)
  OBVIOUS
<1>3. t.node = node
  OBVIOUS
<1>4. Follows(node, start, at)
  <2>1. Follows(t.node, start, Links(t, start))
    <3> HIDE DEF t
    <3> QED
      BY <1>3, LinksFollow DEF IsList
  <2> QED
    BY <2>1, <1>2, <1>3
<1>5. /\ \A i \in 0..N : at[i] \in S \cup {NULL}
      /\ \A i, j \in 0..N : i < j /\ at[j] # NULL => at[i] # NULL /\ rank[at[i]] < rank[at[j]]
      /\ at[N] = NULL
      /\ \A n \in S : \E i \in 0..N : at[i] = n
  <2>1. Visits(at, S, rank)
    BY <1>4, FollowsList
  <2> QED
    BY <2>1 DEF Visits
<1>6. N \in Nat \ {0} /\ at[0] = start
  BY <1>4, AddressFinite DEF Follows
<1>7. \A i \in 1..N : at[i] = IF at[i - 1] = NULL THEN NULL ELSE node[at[i - 1]].next
  BY <1>4 DEF Follows
<1> HIDE DEF N
<1>8. ASSUME start = NULL, S # {} PROVE FALSE
  <2>1. PICK n \in S : TRUE
    BY <1>8
  <2>2. PICK i \in 0..N : at[i] = n
    BY <1>5
  <2> QED
    BY <2>2, <1>1, <1>5, <1>6, <1>8
<1>9. ASSUME S # {} PROVE \E m \in S : node[m].next = NULL
  <2> DEFINE T == {i \in 0..N : at[i] = NULL}
  <2>1. PICK k \in T : \A j \in T : k <= j
    <3>1. T \subseteq Nat /\ T # {}
      BY <1>5, <1>6
    <3> HIDE DEF T
    <3> QED
      BY <3>1, LeastNumber
  <2>2. k # 0 /\ k \in 1..N
    BY <1>6, <1>8, <1>9, <2>1
  <2>3. k - 1 \in 0..N /\ k - 1 \notin T
    BY <1>6, <2>1, <2>2
  <2>4. at[k - 1] \in S /\ at[k - 1] # NULL
    BY <2>3, <1>5
  <2> QED
    BY <2>1, <2>2, <2>4, <1>7
<1> QED
  BY <1>1, <1>8, <1>9 DEF IsList

(* A list has one end. *)
LEMMA OneEnd ==
  ASSUME NEW node \in Nodes, NEW start, NEW S, S \subseteq Address,
         NEW rank \in Ranks, IsList(node, start, S, rank),
         NEW m \in S, NEW n \in S, node[m].next = NULL, node[n].next = NULL
  PROVE  m = n
<1>1. NULL \notin S
  BY AddressFinite
<1> DEFINE t == [node |-> node]
           N == Cardinality(Address)
<1>2. PICK at : at = Links(t, start)
  OBVIOUS
<1>3. Follows(node, start, at)
  <2>1. Follows(t.node, start, Links(t, start))
    <3>1. t.node = node
      OBVIOUS
    <3> HIDE DEF t
    <3> QED
      BY <3>1, LinksFollow DEF IsList
  <2> QED
    BY <2>1, <1>2
<1>4. Visits(at, S, rank)
  BY <1>3, FollowsList
<1>5. N \in Nat \ {0}
  BY AddressFinite
<1>6. \A i \in 1..N : at[i] = IF at[i - 1] = NULL THEN NULL ELSE node[at[i - 1]].next
  BY <1>3 DEF Follows
<1> HIDE DEF N
<1>7. ASSUME NEW i \in 0..N, NEW j \in 0..N, at[i] \in S, at[j] \in S, node[at[i]].next = NULL
      PROVE  ~(i < j)
  <2> SUFFICES ASSUME i < j PROVE FALSE
    OBVIOUS
  <2>1. i + 1 \in 1..N /\ i + 1 \in 0..N /\ (i + 1) - 1 = i
    BY <1>5
  <2>2. at[i + 1] = NULL
    BY <1>6, <1>7, <2>1
  <2>3. i + 1 < j \/ i + 1 = j
    OBVIOUS
  <2> QED
    BY <1>1, <1>4, <1>7, <2>1, <2>2, <2>3 DEF Visits, N
<1>8. PICK i \in 0..N, j \in 0..N : at[i] = m /\ at[j] = n
  BY <1>4 DEF Visits, N
<1>9. ~(i < j) /\ ~(j < i)
  BY <1>7, <1>8
<1> QED
  BY <1>8, <1>9

(* What was a list stays one when its links and the order stay. *)
LEMMA SameList ==
  ASSUME NEW node, NEW start, NEW S, S \subseteq Address, NEW rank,
         IsList(node, start, S, rank), NEW node2, NEW rank2,
         \A n \in S : node2[n].next = node[n].next,
         \A m, n \in S : rank[m] < rank[n] => rank2[m] < rank2[n]
  PROVE  IsList(node2, start, S, rank2)
<1>1. NULL \notin S
  BY AddressFinite
<1> QED
  BY <1>1 DEF IsList

(* A node is put before a list. *)
LEMMA PutFirst ==
  ASSUME NEW node, NEW start, NEW S, S \subseteq Address, NEW rank,
         IsList(node, start, S, rank), NEW node2, NEW rank2,
         NEW n \in Address, n \notin S,
         \A m \in S : node2[m].next = node[m].next,
         node2[n].next = start,
         \A l, m \in S : rank[l] < rank[m] => rank2[l] < rank2[m],
         \A m \in S : rank2[n] < rank2[m]
  PROVE  IsList(node2, n, S \cup {n}, rank2)
<1>1. NULL \notin S /\ n # NULL
  BY AddressFinite
<1>2. ASSUME NEW k \in S \cup {n}
      PROVE  /\ node2[k].next \in S \cup {n} \cup {NULL}
             /\ node2[k].next # NULL => rank2[k] < rank2[node2[k].next] /\ node2[k].next # n
             /\ k = n \/ \E m \in S \cup {n} : node2[m].next = k
  BY <1>1 DEF IsList
<1>3. ASSUME NEW k \in S \cup {n}, NEW m \in S \cup {n},
             node2[m].next = node2[k].next, node2[m].next # NULL
      PROVE  m = k
  BY <1>1, <1>3 DEF IsList
<1> QED
  BY <1>2, <1>3 DEF IsList

(* A node is put behind a list. *)
LEMMA PutLast ==
  ASSUME NEW node \in Nodes, NEW start, NEW S, S \subseteq Address, NEW rank \in Ranks,
         IsList(node, start, S, rank), NEW node2, NEW rank2,
         NEW n \in Address, n \notin S, NEW end \in S, node[end].next = NULL,
         \A m \in S \ {end} : node2[m].next = node[m].next,
         node2[end].next = n, node2[n].next = NULL,
         \A l, m \in S : rank[l] < rank[m] => rank2[l] < rank2[m],
         rank2[end] < rank2[n]
  PROVE  IsList(node2, start, S \cup {n}, rank2)
<1>1. NULL \notin S /\ n # NULL
  BY AddressFinite
<1>2. ASSUME NEW m \in S, node[m].next = NULL PROVE m = end
  BY <1>2, OneEnd
<1>3. start \in S
  BY ListEnds
<1>4. ASSUME NEW k \in S \cup {n}
      PROVE  /\ node2[k].next \in S \cup {n} \cup {NULL}
             /\ node2[k].next # NULL => rank2[k] < rank2[node2[k].next] /\ node2[k].next # start
             /\ k = start \/ \E m \in S \cup {n} : node2[m].next = k
  <2>1. CASE k = n
    BY <2>1
  <2>2. CASE k \in S /\ k # end
    <3>1. node2[k].next = node[k].next /\ node[k].next # NULL
      BY <2>2, <1>2
    <3>2. k = start \/ \E m \in S \ {end} : node[m].next = k
      BY <2>2, <1>1 DEF IsList
    <3> QED
      BY <2>2, <3>1, <3>2 DEF IsList
  <2>3. CASE k = end
    <3>1. k = start \/ \E m \in S \ {end} : node[m].next = k
      BY <2>3, <1>1 DEF IsList
    <3> QED
      BY <2>3, <3>1, <1>3
  <2> QED
    BY <2>1, <2>2, <2>3
<1>5. ASSUME NEW k \in S \cup {n}, NEW m \in S \cup {n},
             node2[m].next = node2[k].next, node2[m].next # NULL
      PROVE  m = k
  <2>1. \A l \in S \ {end} : node2[l].next # n
    BY <1>1 DEF IsList
  <2> QED
    BY <1>1, <1>5, <2>1 DEF IsList
<1> QED
  BY <1>3, <1>4, <1>5 DEF IsList

(* The first node is taken from a list. *)
LEMMA TakeFirst ==
  ASSUME NEW node, NEW start, NEW S, S \subseteq Address, NEW rank,
         IsList(node, start, S, rank), start # NULL
  PROVE  start \in S /\ IsList(node, node[start].next, S \ {start}, rank)
<1>1. NULL \notin S /\ start \in S
  BY AddressFinite DEF IsList
<1>2. \A m \in S : node[m].next # start
  BY <1>1 DEF IsList
<1>3. ASSUME NEW k \in S \ {start}
      PROVE  /\ node[k].next \in (S \ {start}) \cup {NULL}
             /\ node[k].next # NULL => rank[k] < rank[node[k].next]
                                       /\ node[k].next # node[start].next
             /\ k = node[start].next \/ \E m \in S \ {start} : node[m].next = k
  BY <1>1, <1>2 DEF IsList
<1> QED
  BY <1>1, <1>2, <1>3 DEF IsList

(* NULL is the start of no node. *)
LEMMA NoList ==
  ASSUME NEW node, NEW rank
  PROVE  IsList(node, NULL, {}, rank)
BY DEF IsList

(* A node changes places with the one before it. *)
LEMMA SwapTwo ==
  ASSUME NEW node, NEW start, NEW S, S \subseteq Address, NEW rank \in Ranks,
         IsList(node, start, S, rank), NEW node2, NEW rank2,
         NEW n \in S, NEW before \in S, node[before].next = n,
         node2[n].next = before, node2[before].next = node[n].next,
         \A m \in S \ {n, before} :
           node2[m].next = IF node[m].next = before THEN n ELSE node[m].next,
         rank2[n] = rank[before], rank2[before] = rank[n],
         \A m \in S \ {n, before} : rank2[m] = rank[m]
  PROVE  IsList(node2, IF start = before THEN n ELSE start, S, rank2)
<1>1. NULL \notin S
  BY AddressFinite
<1>2. \A m \in S : rank[m] \in Nat
  BY DEF Ranks
<1>3. n # before /\ rank[before] < rank[n] /\ n # start
  BY <1>1, <1>2 DEF IsList
<1>4. \A l, m \in S : node[l].next = node[m].next /\ node[l].next # NULL => l = m
  BY DEF IsList
<1>5. \A m \in S : node[m].next = n => m = before
  BY <1>1 DEF IsList
<1>6. node[n].next # before
  <2> SUFFICES ASSUME node[n].next = before PROVE FALSE
    OBVIOUS
  <2>1. rank[n] < rank[before]
    BY <1>1 DEF IsList
  <2> QED
    BY <1>2, <1>3, <2>1
<1>7. node[n].next # n
  <2> SUFFICES ASSUME node[n].next = n PROVE FALSE
    OBVIOUS
  <2>1. rank[n] < rank[n]
    BY <1>1 DEF IsList
  <2> QED
    BY <1>2, <2>1
<1> DEFINE start2 == IF start = before THEN n ELSE start
<1>8. ASSUME NEW k \in S
      PROVE  /\ node2[k].next \in S \cup {NULL}
             /\ node2[k].next # NULL => rank2[k] < rank2[node2[k].next]
             /\ node2[k].next # NULL => node2[k].next # start2
             /\ k = start2 \/ \E m \in S : node2[m].next = k
  <2>1. CASE k = n
    <3>1. k = start2 \/ \E m \in S : node2[m].next = k
      <4> SUFFICES ASSUME start # before PROVE \E m \in S : node2[m].next = n
        BY <2>1
      <4>1. PICK m \in S : node[m].next = before
        BY DEF IsList
      <4>2. m # before
        BY <4>1, <1>3
      <4>3. m # n
        BY <4>1, <1>6
      <4> QED
        BY <4>1, <4>2, <4>3
    <3>2. before # start2
      BY <1>3
    <3> QED
      BY <2>1, <3>1, <3>2, <1>3
  <2>2. CASE k = before
    <3>1. node2[k].next \in S \cup {NULL}
      BY <2>2 DEF IsList
    <3>2. ASSUME node[n].next # NULL
          PROVE  /\ rank2[before] < rank2[node[n].next]
                 /\ node[n].next # start2
      <4>1. node[n].next \in S \ {n, before} /\ rank[n] < rank[node[n].next]
            /\ node[n].next # start
        BY <3>2, <1>6, <1>7 DEF IsList
      <4> QED
        BY <4>1
    <3> QED
      BY <2>2, <3>1, <3>2
  <2>3. CASE k \in S \ {n, before}
    <3>1. node[k].next # n
      BY <2>3, <1>5
    <3>2. CASE node[k].next = before
      <4>1. start # before /\ rank[k] < rank[before]
        BY <3>2, <1>1 DEF IsList
      <4> QED
        BY <4>1, <3>2, <2>3, <1>3, <1>2, SMT DEF IsList
    <3>3. CASE node[k].next # before
      <4>1. node2[k].next = node[k].next
        BY <2>3, <3>3
      <4>2. node[k].next # NULL => node[k].next \in S \ {n, before}
        BY <2>3, <3>1, <3>3 DEF IsList
      <4>3. node[k].next # NULL => rank2[k] < rank2[node[k].next] /\ node[k].next # start2
        BY <2>3, <4>2, <3>1 DEF IsList
      <4>4. k = start2 \/ \E m \in S : node2[m].next = k
        <5>1. CASE k = start
          BY <2>3, <5>1
        <5>2. CASE k # start
          <6>1. PICK m \in S : node[m].next = k
            BY <5>2 DEF IsList
          <6>2. CASE m = n
            BY <6>1, <6>2
          <6>3. CASE m # n
            <7>1. m # before
              BY <6>1, <2>3
            <7> QED
              BY <6>1, <6>3, <7>1, <2>3
          <6> QED
            BY <6>2, <6>3
        <5> QED
          BY <5>1, <5>2
      <4> QED
        BY <4>1, <4>2, <4>3, <4>4
    <3> QED
      BY <3>2, <3>3
  <2> QED
    BY <2>1, <2>2, <2>3
<1>9. ASSUME NEW k \in S, NEW m \in S,
             node2[m].next = node2[k].next, node2[m].next # NULL
      PROVE  m = k
  <2>1. \A l \in S \ {n} : l # before =>
          node[l].next \in S \cup {NULL} /\ node[l].next # n
    BY <1>5 DEF IsList
  <2>2. \A l \in S \ {n, before} : node2[l].next # before
    BY <2>1, <1>3
  <2>3. node2[before].next # before /\ node2[before].next # n
    BY <1>6, <1>7
  <2>4. CASE m = n \/ k = n
    BY <2>2, <2>3, <2>4, <1>9, <1>3
  <2>5. CASE m = before /\ k \in S \ {n, before}
    <3>1. node2[k].next = node[n].next
      BY <2>5, <1>9
    <3>2. node2[k].next = node[k].next
      BY <2>5, <2>3, <3>1
    <3>3. node[n].next # NULL /\ k # n
      BY <2>5, <1>9
    <3> QED
      BY <1>4, <2>5, <3>1, <3>2, <3>3
  <2>6. CASE k = before /\ m \in S \ {n, before}
    <3>1. node2[m].next = node[n].next
      BY <2>6, <1>9
    <3>2. node2[m].next = node[m].next
      BY <2>6, <2>3, <3>1
    <3>3. node[n].next # NULL /\ m # n
      BY <2>6, <1>9, <3>1
    <3> QED
      BY <1>4, <2>6, <3>1, <3>2, <3>3
  <2>7. CASE k \in S \ {n, before} /\ m \in S \ {n, before}
    <3>1. node[m].next = node[k].next
      BY <2>7, <2>1, <1>9
    <3>2. node[m].next # NULL
      BY <2>7, <1>9, <1>1
    <3> QED
      BY <1>4, <3>1, <3>2
  <2> QED
    BY <2>4, <2>5, <2>6, <2>7
<1>10. start2 \in S \cup {NULL}
  BY DEF IsList
<1> QED
  BY <1>8, <1>9, <1>10 DEF IsList

-----------------------------------------------------------------------------
(* Pools *)

Cell(p, j) == (p - 1) * PoolSize + j

(* The nodes of a pool are in the memory. *)
LEMMA CellAddress ==
  ASSUME NEW p \in Pool, NEW j \in 1..PoolSize
  PROVE  Cell(p, j) \in Address
<1>1. PoolSize \in Nat /\ MaxPools \in Nat /\ p \in 1..MaxPools
  BY BddTableAssumption DEF Pool
<1>2. PICK d \in Nat : MaxPools = p + d
  <2>1. MaxPools - p \in Nat /\ MaxPools = p + (MaxPools - p)
    BY <1>1
  <2> QED
    BY <2>1
<1>3. PICK k \in Nat : p = k + 1
  <2>1. p - 1 \in Nat /\ p = (p - 1) + 1
    BY <1>1
  <2> QED
    BY <2>1
<1>4. k * PoolSize \in Nat /\ d * PoolSize \in Nat
  BY <1>1
<1>5. MaxPools * PoolSize = k * PoolSize + PoolSize + d * PoolSize
  <2>1. MaxPools = k + 1 + d
    BY <1>2, <1>3
  <2>2. (k + 1 + d) * PoolSize = k * PoolSize + PoolSize + d * PoolSize
    BY <1>1
  <2> QED
    BY <2>1, <2>2
<1>6. (p - 1) * PoolSize = k * PoolSize
  <2>1. p - 1 = k
    BY <1>3
  <2> QED
    BY <2>1
<1> DEFINE K == k * PoolSize
           D == d * PoolSize
<1> HIDE DEF K, D
<1>7. K + j \in 1..K + PoolSize + D
  BY <1>1, <1>4 DEF K, D
<1> QED
  BY <1>5, <1>6, <1>7 DEF Cell, Address, K, D

(* The nodes of a pool come before those of a higher one. *)
LEMMA CellApart ==
  ASSUME NEW p \in Pool, NEW q \in Pool, NEW i \in 1..PoolSize, NEW j \in 1..PoolSize, p < q
  PROVE  Cell(p, i) < Cell(q, j)
<1>1. PoolSize \in Nat /\ p \in Nat /\ q \in Nat
  BY BddTableAssumption DEF Pool
<1>2. PICK d \in Nat : q = p + d + 1
  <2>1. q - p - 1 \in Nat /\ q = p + (q - p - 1) + 1
    BY <1>1
  <2> QED
    BY <2>1
<1>3. (q - 1) * PoolSize = (p - 1) * PoolSize + PoolSize + d * PoolSize
  <2>1. q - 1 = (p - 1) + 1 + d
    BY <1>1, <1>2
  <2>2. ((p - 1) + 1 + d) * PoolSize = (p - 1) * PoolSize + PoolSize + d * PoolSize
    BY <1>1
  <2> QED
    BY <2>1, <2>2
<1>4. d * PoolSize \in Nat /\ (p - 1) * PoolSize \in Int
  BY <1>1
<1> DEFINE D == d * PoolSize
           P == (p - 1) * PoolSize
           Q == (q - 1) * PoolSize
<1> HIDE DEF D, P, Q
<1>5. P + i < P + PoolSize + D + j
  BY <1>1, <1>4 DEF D, P
<1>6. Q = P + PoolSize + D
  BY <1>3 DEF D, P, Q
<1> QED
  BY <1>5, <1>6 DEF Cell, P, Q

(* Pools do not overlap. *)
LEMMA CellOnce ==
  ASSUME NEW p \in Pool, NEW q \in Pool, NEW i \in 1..PoolSize, NEW j \in 1..PoolSize,
         Cell(p, i) = Cell(q, j)
  PROVE  p = q /\ i = j
<1>1. Cell(p, i) \in Nat /\ p \in Nat /\ q \in Nat
  <2>1. Cell(p, i) \in Address
    BY CellAddress
  <2>2. p \in Nat /\ q \in Nat
    BY DEF Pool
  <2> QED
    BY <2>1, <2>2, AddressFinite
<1>2. ~(p < q) /\ ~(q < p)
  <2>1. p < q => Cell(p, i) < Cell(q, j)
    BY CellApart
  <2>2. q < p => Cell(q, j) < Cell(p, i)
    BY CellApart
  <2> QED
    BY <2>1, <2>2, <1>1
<1>3. p = q
  BY <1>1, <1>2
<1>4. (p - 1) * PoolSize \in Int
  BY <1>1, BddTableAssumption
<1> DEFINE P == (p - 1) * PoolSize
<1>5. P + i = P + j
  BY <1>3 DEF Cell
<1> HIDE DEF P
<1>6. i = j
  BY <1>4, <1>5 DEF P
<1> QED
  BY <1>3, <1>6

UsedLength(t, i) == IF i = Len(t.bddmemory) THEN t.curBDDPos ELSE PoolSize

(* The nodes of a pool, in order *)
LEMMA MemoryIs ==
  ASSUME NEW p \in Pool
  PROVE  /\ Memory(p) \in Seq(Address) /\ Len(Memory(p)) = PoolSize
         /\ \A j \in 1..PoolSize : Memory(p)[j] = Cell(p, j)
         /\ Range(Memory(p)) = {Cell(p, j) : j \in 1..PoolSize}
<1>1. PoolSize \in Nat
  BY BddTableAssumption
<1>2. \A j \in 1..PoolSize : Memory(p)[j] = Cell(p, j)
  BY DEF Memory, Cell
<1>3. DOMAIN Memory(p) = 1..PoolSize
  BY DEF Memory
<1>4. Memory(p) = [j \in 1..PoolSize |-> Cell(p, j)]
  BY DEF Memory, Cell
<1>5. Memory(p) \in [1..PoolSize -> Address]
  BY <1>4, CellAddress
<1>6. Memory(p) \in Seq(Address) /\ Len(Memory(p)) = PoolSize
  BY <1>1, <1>3, <1>5
<1> QED
  BY <1>2, <1>3, <1>6 DEF Range

(* The nodes of the pool at i that were handed out, in order *)
LEMMA UsedIs ==
  ASSUME NEW t \in Table, NEW i \in DOMAIN t.bddmemory
  PROVE  /\ t.bddmemory[i] \in Pool /\ UsedLength(t, i) \in 0..PoolSize
         /\ LET s == SubSeq(Memory(t.bddmemory[i]), 1, UsedLength(t, i))
            IN  /\ s \in Seq(Address) /\ Len(s) = UsedLength(t, i)
                /\ \A j \in 1..UsedLength(t, i) : s[j] = Cell(t.bddmemory[i], j)
         /\ Used(t, i) = {Cell(t.bddmemory[i], j) : j \in 1..UsedLength(t, i)}
         /\ Used(t, i) \subseteq Address
<1>1. t.bddmemory \in Seq(Pool) /\ t.curBDDPos \in 0..PoolSize
  BY DEF Table
<1>2. PICK p : p = t.bddmemory[i]
  OBVIOUS
<1>3. p \in Pool
  BY <1>1, <1>2
<1>4. PICK k : k = UsedLength(t, i)
  OBVIOUS
<1>5. k \in 0..PoolSize /\ PoolSize \in Nat
  BY <1>1, <1>4, BddTableAssumption DEF UsedLength
<1>6. PICK m : m = Memory(p)
  OBVIOUS
<1>7. m \in Seq(Address) /\ Len(m) = PoolSize /\ \A j \in 1..PoolSize : m[j] = Cell(p, j)
  BY <1>3, <1>6, MemoryIs
<1>8. PICK s : s = SubSeq(m, 1, k)
  OBVIOUS
<1>9. s \in Seq(Address) /\ Len(s) = k /\ \A j \in 1..k : s[j] = m[j]
  BY <1>5, <1>7, <1>8
<1>10. \A j \in 1..k : s[j] = Cell(p, j) /\ Cell(p, j) \in Address
  <2>1. \A j \in 1..k : j \in 1..PoolSize
    BY <1>5
  <2> QED
    BY <2>1, <1>3, <1>7, <1>9, CellAddress
<1>11. Range(s) = {Cell(p, j) : j \in 1..k}
  <2>1. DOMAIN s = 1..k
    BY <1>9
  <2> QED
    BY <2>1, <1>10 DEF Range
<1>12. Used(t, i) = Range(s)
  BY <1>2, <1>4, <1>6, <1>8 DEF Used, UsedLength
<1>13. Used(t, i) = {Cell(p, j) : j \in 1..k} /\ Used(t, i) \subseteq Address
  BY <1>10, <1>11, <1>12
<1> QED
  BY <1>2, <1>3, <1>4, <1>5, <1>6, <1>8, <1>9, <1>10, <1>13

(* The nodes that were handed out *)
LEMMA HandedIs ==
  ASSUME NEW t \in Table
  PROVE  /\ Handed(t) \subseteq Address
         /\ \A n : n \in Handed(t) <=>
              \E i \in DOMAIN t.bddmemory : \E j \in 1..UsedLength(t, i) :
                n = Cell(t.bddmemory[i], j)
<1>1. \A i \in DOMAIN t.bddmemory :
        /\ Used(t, i) = {Cell(t.bddmemory[i], j) : j \in 1..UsedLength(t, i)}
        /\ Used(t, i) \subseteq Address
  BY UsedIs
<1> QED
  BY <1>1 DEF Handed

(* A node more of the last pool is handed out. *)
LEMMA HandNext ==
  ASSUME NEW t \in Table, IsInjective(t.bddmemory), t.bddmemory # <<>>,
         t.curBDDPos < PoolSize, NEW t2 \in Table,
         t2.bddmemory = t.bddmemory, t2.curBDDPos = t.curBDDPos + 1,
         NEW n, n = Cell(t.bddmemory[Len(t.bddmemory)], t2.curBDDPos)
  PROVE  n \in Address /\ n \notin Handed(t) /\ Handed(t2) = Handed(t) \cup {n}
<1>1. t.bddmemory \in Seq(Pool) /\ t.curBDDPos \in 0..PoolSize /\ t2.curBDDPos \in 1..PoolSize
  BY DEF Table
<1>2. PICK l \in Nat \ {0} : l = Len(t.bddmemory) /\ DOMAIN t.bddmemory = 1..l
  BY <1>1
<1>3. l \in 1..l /\ t.bddmemory[l] \in Pool
  BY <1>1, <1>2
<1>4. n \in Address
  BY <1>1, <1>2, <1>3, CellAddress
<1>5. \A i \in 1..l : UsedLength(t2, i) = IF i = l THEN t.curBDDPos + 1 ELSE UsedLength(t, i)
  BY <1>2 DEF UsedLength
<1>6. UsedLength(t, l) = t.curBDDPos
  BY <1>2 DEF UsedLength
<1>7. \A i \in 1..l : UsedLength(t, i) \in 0..PoolSize /\ t.bddmemory[i] \in Pool
  BY <1>2, UsedIs
<1>8. n \notin Handed(t)
  <2> SUFFICES ASSUME n \in Handed(t) PROVE FALSE
    OBVIOUS
  <2>1. PICK i \in 1..l : \E j \in 1..UsedLength(t, i) : n = Cell(t.bddmemory[i], j)
    BY HandedIs, <1>2
  <2>2. PICK j \in 1..UsedLength(t, i) : n = Cell(t.bddmemory[i], j)
    BY <2>1
  <2>3. j \in 1..PoolSize /\ PoolSize \in Nat
    BY <1>7, BddTableAssumption
  <2>4. t.bddmemory[i] = t.bddmemory[l] /\ j = t2.curBDDPos
    BY <1>1, <1>2, <1>3, <1>7, <2>2, <2>3, CellOnce
  <2>5. i = l
    BY <2>4, <1>2, <1>3 DEF IsInjective
  <2> QED
    BY <2>4, <2>5, <1>1, <1>6
<1>9. ASSUME NEW m PROVE m \in Handed(t2) <=> m \in Handed(t) \cup {n}
  <2>1. m \in Handed(t2) <=> \E i \in 1..l : \E j \in 1..UsedLength(t2, i) : m = Cell(t.bddmemory[i], j)
    BY HandedIs, <1>2
  <2>2. m \in Handed(t) <=> \E i \in 1..l : \E j \in 1..UsedLength(t, i) : m = Cell(t.bddmemory[i], j)
    BY HandedIs, <1>2
  <2>3. ASSUME m \in Handed(t2) PROVE m \in Handed(t) \cup {n}
    <3>1. PICK i \in 1..l : \E j \in 1..UsedLength(t2, i) : m = Cell(t.bddmemory[i], j)
      BY <2>1, <2>3
    <3>2. PICK j \in 1..UsedLength(t2, i) : m = Cell(t.bddmemory[i], j)
      BY <3>1
    <3>3. CASE i = l /\ j = t.curBDDPos + 1
      BY <3>2, <3>3, <1>2
    <3>4. CASE ~(i = l /\ j = t.curBDDPos + 1)
      <4>1. j \in 1..UsedLength(t, i)
        BY <3>4, <1>1, <1>5, <1>6
      <4> QED
        BY <3>2, <4>1, <2>2
    <3> QED
      BY <3>3, <3>4
  <2>4. ASSUME m \in Handed(t) PROVE m \in Handed(t2)
    <3>1. PICK i \in 1..l : \E j \in 1..UsedLength(t, i) : m = Cell(t.bddmemory[i], j)
      BY <2>2, <2>4
    <3>2. PICK j \in 1..UsedLength(t, i) : m = Cell(t.bddmemory[i], j)
      BY <3>1
    <3>3. j \in 1..UsedLength(t2, i)
      BY <1>1, <1>5, <1>6
    <3> QED
      BY <3>2, <3>3, <2>1
  <2>5. n \in Handed(t2)
    <3>1. t2.curBDDPos \in 1..UsedLength(t2, l)
      BY <1>1, <1>3, <1>5
    <3>2. n = Cell(t.bddmemory[l], t2.curBDDPos)
      BY <1>2
    <3>3. n \in Handed(t2) <=> \E i \in 1..l : \E j \in 1..UsedLength(t2, i) : n = Cell(t.bddmemory[i], j)
      BY HandedIs, <1>2
    <3> QED
      BY <3>1, <3>2, <3>3, <1>3
  <2> QED
    BY <2>3, <2>4, <2>5
<1> QED
  BY <1>4, <1>8, <1>9

(* The first node of a new pool is handed out. *)
LEMMA HandNew ==
  ASSUME NEW t \in Table, IsInjective(t.bddmemory), t.curBDDPos = PoolSize,
         NEW p \in Pool, p \notin Range(t.bddmemory), NEW t2 \in Table,
         t2.bddmemory = Append(t.bddmemory, p), t2.curBDDPos = 1,
         NEW n, n = Cell(p, 1)
  PROVE  /\ n \in Address /\ n \notin Handed(t) /\ Handed(t2) = Handed(t) \cup {n}
         /\ IsInjective(t2.bddmemory)
<1>1. t.bddmemory \in Seq(Pool) /\ PoolSize \in Nat /\ PoolSize > 2
  BY BddTableAssumption DEF Table
<1>2. PICK l \in Nat : l = Len(t.bddmemory) /\ DOMAIN t.bddmemory = 1..l
  BY <1>1
<1>3. /\ Len(t2.bddmemory) = l + 1 /\ DOMAIN t2.bddmemory = 1..l + 1
      /\ \A i \in 1..l : t2.bddmemory[i] = t.bddmemory[i]
      /\ t2.bddmemory[l + 1] = p
  BY <1>1, <1>2
<1>4. 1 \in 1..PoolSize /\ n \in Address
  BY <1>1, CellAddress
<1>5. \A i \in 1..l : /\ UsedLength(t, i) = PoolSize /\ UsedLength(t2, i) = PoolSize
                      /\ t.bddmemory[i] \in Pool
  BY <1>1, <1>2, <1>3 DEF UsedLength
<1>6. UsedLength(t2, l + 1) = 1
  BY <1>3 DEF UsedLength
<1>7. n \notin Handed(t)
  <2> SUFFICES ASSUME n \in Handed(t) PROVE FALSE
    OBVIOUS
  <2>1. PICK i \in 1..l : \E j \in 1..PoolSize : n = Cell(t.bddmemory[i], j)
    BY HandedIs, <1>2, <1>5
  <2>2. t.bddmemory[i] = p
    BY <2>1, <1>4, <1>5, CellOnce
  <2> QED
    BY <2>2, <1>2 DEF Range
<1>8. ASSUME NEW m PROVE m \in Handed(t2) <=> m \in Handed(t) \cup {n}
  <2>1. m \in Handed(t2) <=>
          \E i \in 1..l + 1 : \E j \in 1..UsedLength(t2, i) : m = Cell(t2.bddmemory[i], j)
    BY HandedIs, <1>3
  <2>2. m \in Handed(t) <=> \E i \in 1..l : \E j \in 1..PoolSize : m = Cell(t.bddmemory[i], j)
    BY HandedIs, <1>2, <1>5
  <2>3. (\E j \in 1..UsedLength(t2, l + 1) : m = Cell(t2.bddmemory[l + 1], j)) <=> m = n
    BY <1>3, <1>6
  <2>4. \A i \in 1..l + 1 : i \in 1..l \/ i = l + 1
    OBVIOUS
  <2>5. \A i \in 1..l : i \in 1..l + 1
    OBVIOUS
  <2>6. l + 1 \in 1..l + 1
    OBVIOUS
  <2> QED
    BY <2>1, <2>2, <2>3, <2>4, <2>5, <2>6, <1>3, <1>5
<1>9. IsInjective(t2.bddmemory)
  <2> SUFFICES ASSUME NEW a \in 1..l + 1, NEW b \in 1..l + 1,
                      t2.bddmemory[a] = t2.bddmemory[b]
               PROVE  a = b
    BY <1>3 DEF IsInjective
  <2>1. \A i \in 1..l : t.bddmemory[i] # p
    BY <1>2 DEF Range
  <2>2. (a \in 1..l \/ a = l + 1) /\ (b \in 1..l \/ b = l + 1)
    OBVIOUS
  <2> QED
    BY <2>1, <2>2, <1>2, <1>3 DEF IsInjective
<1> QED
  BY <1>4, <1>7, <1>8, <1>9

(* A node that was handed out has one place. *)
LEMMA CellOf ==
  ASSUME NEW t \in Table, IsInjective(t.bddmemory),
         NEW i \in DOMAIN t.bddmemory, NEW k \in DOMAIN t.bddmemory,
         NEW j \in 1..PoolSize, NEW l \in 1..PoolSize,
         Cell(t.bddmemory[i], j) = Cell(t.bddmemory[k], l)
  PROVE  i = k /\ j = l
<1>1. t.bddmemory[i] \in Pool /\ t.bddmemory[k] \in Pool
  BY UsedIs
<1>2. t.bddmemory[i] = t.bddmemory[k] /\ j = l
  BY <1>1, CellOnce
<1> QED
  BY <1>2 DEF IsInjective

(* The nodes of the pools already swept, with those of the next *)
LEMMA BeforeIs ==
  ASSUME NEW t \in Table, IsInjective(t.bddmemory), NEW i \in 1..Len(t.bddmemory) + 1
  PROVE  /\ Before(t, i) \subseteq Handed(t)
         /\ i = Len(t.bddmemory) + 1 => Before(t, i) = Handed(t)
         /\ i <= Len(t.bddmemory) =>
              /\ i \in DOMAIN t.bddmemory
              /\ Before(t, i + 1) = Before(t, i) \cup Used(t, i)
              /\ Before(t, i) \cap Used(t, i) = {}
<1>1. t.bddmemory \in Seq(Pool)
  BY DEF Table
<1>2. PICK l \in Nat : l = Len(t.bddmemory) /\ DOMAIN t.bddmemory = 1..l
  BY <1>1
<1>3. i \in 1..l + 1
  BY <1>2
<1>4. Before(t, i) \subseteq Handed(t)
  <2>1. \A j \in 1..i - 1 : j \in 1..l
    BY <1>3
  <2> QED
    BY <2>1, <1>2 DEF Before, Handed
<1>5. ASSUME i = l + 1 PROVE Before(t, i) = Handed(t)
  <2>1. 1..i - 1 = 1..l
    BY <1>5
  <2> QED
    BY <2>1, <1>2 DEF Before, Handed
<1>6. ASSUME i <= l
      PROVE  /\ i \in 1..l
             /\ Before(t, i + 1) = Before(t, i) \cup Used(t, i)
             /\ Before(t, i) \cap Used(t, i) = {}
  <2>1. i \in 1..l
    BY <1>3, <1>6
  <2>2. \A j : j \in 1..(i + 1) - 1 <=> j \in 1..i - 1 \/ j = i
    BY <2>1
  <2>3. Before(t, i + 1) = Before(t, i) \cup Used(t, i)
    BY <2>2 DEF Before
  <2>4. ASSUME NEW n \in Before(t, i), n \in Used(t, i) PROVE FALSE
    <3>1. PICK k \in 1..i - 1 : n \in Used(t, k)
      BY <2>4 DEF Before
    <3>2. k \in 1..l /\ k # i
      BY <2>1
    <3>3. PICK j \in 1..UsedLength(t, k) : n = Cell(t.bddmemory[k], j)
      BY <3>1, <3>2, <1>2, UsedIs
    <3>4. PICK m \in 1..UsedLength(t, i) : n = Cell(t.bddmemory[i], m)
      BY <2>4, <2>1, <1>2, UsedIs
    <3>5. UsedLength(t, k) \in 0..PoolSize /\ UsedLength(t, i) \in 0..PoolSize
      BY <2>1, <3>2, <1>2, UsedIs
    <3>6. j \in 1..PoolSize /\ m \in 1..PoolSize
      BY <3>5, BddTableAssumption
    <3> QED
      BY <2>1, <3>2, <3>3, <3>4, <3>6, <1>2, CellOf
  <2> QED
    BY <2>1, <2>3, <2>4
<1> QED
  BY <1>2, <1>4, <1>5, <1>6

(* A pool is given back. *)
LEMMA PoolGone ==
  ASSUME NEW t \in Table, IsInjective(t.bddmemory), NEW t2 \in Table,
         NEW i \in 1..Len(t.bddmemory), i # Len(t.bddmemory),
         t2.bddmemory = RemoveAt(t.bddmemory, i), t2.curBDDPos = t.curBDDPos
  PROVE  /\ IsInjective(t2.bddmemory) /\ Len(t2.bddmemory) = Len(t.bddmemory) - 1
         /\ Used(t, i) = Range(Memory(t.bddmemory[i]))
         /\ Handed(t2) = Handed(t) \ Used(t, i)
         /\ Before(t2, i) = Before(t, i)
<1>1. t.bddmemory \in Seq(Pool) /\ t2.bddmemory \in Seq(Pool)
  BY DEF Table
<1>2. PICK l \in Nat : l = Len(t.bddmemory) /\ DOMAIN t.bddmemory = 1..l
  BY <1>1
<1>3. PICK s : s = t.bddmemory
  OBVIOUS
<1>4. PICK s2 : s2 = t2.bddmemory
  OBVIOUS
<1>5. i \in 1..l /\ i # l /\ s \in Seq(Pool) /\ Len(s) = l /\ DOMAIN s = 1..l
  BY <1>1, <1>2, <1>3
<1>6. s2 = SubSeq(s, 1, i - 1) \o SubSeq(s, i + 1, l)
  BY <1>3, <1>4, <1>5 DEF RemoveAt
<1>7. /\ Len(s2) = l - 1 /\ DOMAIN s2 = 1..l - 1
      /\ \A k \in 1..l - 1 : s2[k] = IF k < i THEN s[k] ELSE s[k + 1]
  <2>1. PICK a : a = SubSeq(s, 1, i - 1)
    OBVIOUS
  <2>2. PICK b : b = SubSeq(s, i + 1, l)
    OBVIOUS
  <2>3. a \in Seq(Pool) /\ Len(a) = i - 1 /\ \A k \in 1..i - 1 : a[k] = s[k]
    BY <1>5, <2>1
  <2>4. b \in Seq(Pool) /\ Len(b) = l - i /\ \A k \in 1..l - i : b[k] = s[i + k]
    BY <1>5, <2>2
  <2>5. s2 = a \o b
    BY <1>6, <2>1, <2>2
  <2>6. s2 \in Seq(Pool) /\ Len(s2) = l - 1 /\ DOMAIN s2 = 1..l - 1
    <3>1. s2 \in Seq(Pool)
      BY <1>1, <1>4
    <3>2. Len(s2) = Len(a) + Len(b)
      <4>1. a \in Seq(Pool) /\ b \in Seq(Pool)
        BY <2>3, <2>4
      <4> QED
        BY ONLY <4>1, <2>5, ConcatProperties
    <3>3. Len(s2) = l - 1
      BY <1>5, <2>3, <2>4, <3>2
    <3> QED
      BY <3>1, <3>3
  <2>7. ASSUME NEW k \in 1..l - 1 PROVE s2[k] = IF k < i THEN s[k] ELSE s[k + 1]
    <3>1. CASE k < i
      <4>1. k \in 1..i - 1
        BY <3>1
      <4>2. s2[k] = a[k]
        BY <2>3, <2>4, <2>5, <4>1
      <4> QED
        BY <2>3, <3>1, <4>1, <4>2
    <3>2. CASE ~(k < i)
      <4>1. k - (i - 1) \in 1..l - i /\ i + (k - (i - 1)) = k + 1
        BY <1>5, <3>2
      <4>2. s2[k] = b[k - (i - 1)]
        BY <2>3, <2>4, <2>5, <2>6, <3>2, <1>5
      <4> QED
        BY <2>4, <3>2, <4>1, <4>2
    <3> QED
      BY <3>1, <3>2
  <2> QED
    BY <2>6, <2>7
<1> DEFINE old(k) == IF k < i THEN k ELSE k + 1
<1>8. \A k \in 1..l - 1 : old(k) \in 1..l /\ old(k) # i /\ s2[k] = s[old(k)]
  BY <1>5, <1>7
<1>9. \A j, k \in 1..l - 1 : old(j) = old(k) => j = k
  BY <1>5
<1>10. IsInjective(t2.bddmemory)
  <2> SUFFICES ASSUME NEW j \in 1..l - 1, NEW k \in 1..l - 1, s2[j] = s2[k] PROVE j = k
    BY <1>4, <1>7 DEF IsInjective
  <2>1. PICK m \in 1..l : m = old(j)
    BY <1>8
  <2>2. PICK o \in 1..l : o = old(k)
    BY <1>8
  <2>3. s[m] = s[o]
    BY <2>1, <2>2, <1>8
  <2>4. m = o
    BY <2>3, <1>3, <1>5 DEF IsInjective
  <2> QED
    BY <2>1, <2>2, <2>4, <1>9
<1>11. \A k \in 1..l - 1 : UsedLength(t2, k) = UsedLength(t, old(k))
  BY <1>3, <1>4, <1>5, <1>7, <1>8 DEF UsedLength
<1>12. \A k \in 1..l - 1 : Used(t2, k) = Used(t, old(k))
  <2> SUFFICES ASSUME NEW k \in 1..l - 1 PROVE Used(t2, k) = Used(t, old(k))
    OBVIOUS
  <2>1. PICK m \in 1..l : m = old(k)
    BY <1>8
  <2>2. Used(t, m) = {Cell(t.bddmemory[m], j) : j \in 1..UsedLength(t, m)}
    BY <1>2, UsedIs
  <2>3. Used(t2, k) = {Cell(t2.bddmemory[k], j) : j \in 1..UsedLength(t2, k)}
    BY <1>4, <1>7, UsedIs
  <2> QED
    BY <2>1, <2>2, <2>3, <1>3, <1>4, <1>8, <1>11
<1>13. UsedLength(t, i) = PoolSize /\ Used(t, i) = Range(Memory(t.bddmemory[i]))
  <2>1. UsedLength(t, i) = PoolSize
    BY <1>2 DEF UsedLength
  <2>2. Used(t, i) = {Cell(t.bddmemory[i], j) : j \in 1..PoolSize} /\ t.bddmemory[i] \in Pool
    BY <2>1, <1>2, UsedIs
  <2> QED
    BY <2>1, <2>2, MemoryIs
<1>14. \A k \in 1..l : k # i => \E j \in 1..l - 1 : old(j) = k
  <2> TAKE k \in 1..l
  <2>1. CASE k < i
    <3>1. k \in 1..l - 1 /\ old(k) = k
      BY <2>1, <1>5
    <3> QED
      BY <3>1
  <2>2. CASE k > i
    <3>1. k - 1 \in 1..l - 1 /\ old(k - 1) = k
      BY <2>2, <1>5
    <3> QED
      BY <3>1
  <2> QED
    BY <2>1, <2>2
<1>15. \A k \in 1..l : k # i => Used(t, k) \cap Used(t, i) = {}
  <2> SUFFICES ASSUME NEW k \in 1..l, k # i, NEW n \in Used(t, k), n \in Used(t, i)
               PROVE  FALSE
    OBVIOUS
  <2>1. PICK j \in 1..UsedLength(t, k) : n = Cell(t.bddmemory[k], j)
    BY <1>2, UsedIs
  <2>2. PICK m \in 1..UsedLength(t, i) : n = Cell(t.bddmemory[i], m)
    BY <1>2, UsedIs
  <2>3. UsedLength(t, k) \in 0..PoolSize /\ UsedLength(t, i) \in 0..PoolSize
    BY <1>2, UsedIs
  <2>4. j \in 1..PoolSize /\ m \in 1..PoolSize
    BY <2>3, BddTableAssumption
  <2> QED
    <3>1. k \in DOMAIN t.bddmemory /\ i \in DOMAIN t.bddmemory
      BY <1>2, <1>5
    <3>2. Cell(t.bddmemory[k], j) = Cell(t.bddmemory[i], m)
      BY <2>1, <2>2
    <3>3. k = i
      BY <2>4, <3>1, <3>2, CellOf
    <3> QED
      BY <3>3
<1>16. Handed(t2) = Handed(t) \ Used(t, i)
  <2>1. Handed(t) = UNION {Used(t, k) : k \in 1..l}
    BY <1>2 DEF Handed
  <2>2. Handed(t2) = UNION {Used(t2, k) : k \in 1..l - 1}
    BY <1>4, <1>7 DEF Handed
  <2>3. ASSUME NEW n \in Handed(t2) PROVE n \in Handed(t) \ Used(t, i)
    <3>1. PICK k \in 1..l - 1 : n \in Used(t2, k)
      BY <2>2
    <3>2. PICK m \in 1..l : m = old(k) /\ m # i
      BY <1>8
    <3>3. n \in Used(t, m)
      BY <3>1, <3>2, <1>12
    <3> QED
      BY <3>2, <3>3, <2>1, <1>15
  <2>4. ASSUME NEW n \in Handed(t), n \notin Used(t, i) PROVE n \in Handed(t2)
    <3>1. PICK m \in 1..l : n \in Used(t, m) /\ m # i
      BY <2>1, <2>4
    <3>2. PICK k \in 1..l - 1 : old(k) = m
      BY <3>1, <1>14
    <3>3. n \in Used(t2, k)
      BY <3>1, <3>2, <1>12
    <3> QED
      BY <3>3, <2>2
  <2> QED
    BY <2>3, <2>4
<1>17. Before(t2, i) = Before(t, i)
  <2>1. \A k \in 1..i - 1 : k \in 1..l - 1 /\ old(k) = k
    BY <1>5
  <2>2. \A k \in 1..i - 1 : Used(t2, k) = Used(t, k)
    BY <2>1, <1>12
  <2> QED
    BY <2>2 DEF Before
<1> QED
  BY <1>2, <1>4, <1>7, <1>10, <1>13, <1>16, <1>17

-----------------------------------------------------------------------------
(* Links and chains of the table *)

(* A key has a chain. *)
LEMMA HashIs ==
  ASSUME NEW t \in Table, NEW n \in Address
  PROVE  HashOf(t, n) \in Hash
<1>1. PICK o \in Node : o = t.node[n]
  BY DEF Table, Nodes
<1>2. o.variable \in Int /\ o.thenCase \in Int /\ o.elseCase \in Int
  <2>1. -1..NumVars \subseteq Int /\ Address \cup {NULL} \subseteq Int
    BY AddressFinite, BddTableAssumption DEF NULL
  <2> QED
    BY <2>1 DEF Node
<1>3. PICK k \in Int : k = o.variable + o.thenCase + o.elseCase
  BY <1>2
<1>4. Buckets \in Nat \ {0}
  BY BddTableAssumption
<1>5. k % Buckets \in 0..Buckets - 1
  BY <1>3, <1>4
<1> QED
  BY <1>1, <1>3, <1>5 DEF HashOf, hash_fn, Hash

(* Only where n is linked to changes. *)
SameFields(node, node2, n) ==
  /\ node2[n].variable = node[n].variable /\ node2[n].notCase = node[n].notCase
  /\ node2[n].thenCase = node[n].thenCase /\ node2[n].elseCase = node[n].elseCase

(* A node that keeps its fields keeps its chain. *)
LEMMA SameHash ==
  ASSUME NEW t, NEW t2, NEW n, SameFields(t.node, t2.node, n)
  PROVE  HashOf(t2, n) = HashOf(t, n)
BY DEF SameFields, HashOf

(* What putting a node at the head of its chain does to the table *)
LEMMA AtHeadIs ==
  ASSUME NEW t \in Table, NEW n \in Address
  PROVE  LET t2 == AtHead(t, n)
             h  == HashOf(t, n)
         IN  /\ t2 \in Table /\ h \in Hash
             /\ \A m \in Address : SameFields(t.node, t2.node, m)
             /\ \A m \in Address \ {n} : t2.node[m] = t.node[m]
             /\ t2.node[n].next = t.hash_memory[h]
             /\ t2.hash_memory = [t.hash_memory EXCEPT ![h] = n]
             /\ t2.bddmemory = t.bddmemory /\ t2.curBDDPos = t.curBDDPos
             /\ t2.free = t.free /\ t2.free_count = t.free_count
<1>1. PICK h \in Hash : h = HashOf(t, n)
  BY HashIs
<1>2. PICK t2 : t2 = AtHead(t, n)
  OBVIOUS
<1>3. t2 = [t EXCEPT !.node[n].next = t.hash_memory[h], !.hash_memory[h] = n]
  BY <1>1, <1>2 DEF AtHead
<1>4. /\ t.node \in Nodes /\ t.hash_memory \in [Hash -> Address \cup {NULL}]
      /\ t = [node |-> t.node, bddmemory |-> t.bddmemory, curBDDPos |-> t.curBDDPos,
              hash_memory |-> t.hash_memory, free |-> t.free, free_count |-> t.free_count]
  BY DEF Table
<1>5. /\ t2.node = [t.node EXCEPT ![n].next = t.hash_memory[h]]
      /\ t2.hash_memory = [t.hash_memory EXCEPT ![h] = n]
      /\ t2.bddmemory = t.bddmemory /\ t2.curBDDPos = t.curBDDPos
      /\ t2.free = t.free /\ t2.free_count = t.free_count
  BY <1>3, <1>4
<1>6. t2.node \in Nodes
  BY <1>4, <1>5 DEF Nodes, Node
<1>7. t2.hash_memory \in [Hash -> Address \cup {NULL}]
  BY <1>4, <1>5
<1>8. t2 \in Table
  BY <1>3, <1>4, <1>5, <1>6, <1>7 DEF Table
<1>9. /\ \A m \in Address \ {n} : t2.node[m] = t.node[m]
      /\ t2.node[n] = [t.node[n] EXCEPT !.next = t.hash_memory[h]]
  BY <1>4, <1>5 DEF Nodes
<1>10. t.node[n] \in Node
  BY <1>4 DEF Nodes
<1>11. t2.node[n].next = t.hash_memory[h] /\ SameFields(t.node, t2.node, n)
  BY <1>9, <1>10 DEF SameFields, Node
<1>12. \A m \in Address : SameFields(t.node, t2.node, m)
  BY <1>9, <1>11 DEF SameFields
<1> QED
  BY <1>1, <1>2, <1>5, <1>8, <1>9, <1>11, <1>12

(* What was handed out depends on the pools only. *)
LEMMA SameHanded ==
  ASSUME NEW t, NEW t2, t2.bddmemory = t.bddmemory, t2.curBDDPos = t.curBDDPos
  PROVE  /\ Handed(t2) = Handed(t)
         /\ \A i \in DOMAIN t.bddmemory : Used(t2, i) = Used(t, i)
         /\ \A i \in 1..Len(t.bddmemory) + 1 : Before(t2, i) = Before(t, i)
<1>1. \A i \in DOMAIN t.bddmemory : Used(t2, i) = Used(t, i)
  BY DEF Used
<1>2. \A i : Used(t2, i) = Used(t, i)
  BY DEF Used
<1> QED
  BY <1>1, <1>2 DEF Handed, Before

(* A node that is on no list is put in front of the chain of its key. *)
LEMMA HeadLinked ==
  ASSUME NEW t, NEW live, NEW fr, NEW rank, Linkage(t, live, fr, rank),
         NEW n \in Handed(t), n \notin live, n \notin fr
  PROVE  \E rank2 : Linkage(AtHead(t, n), live \cup {n}, fr, rank2)
<1>1. t \in Table /\ live \subseteq Handed(t) /\ fr \subseteq Handed(t) /\ rank \in Ranks
  BY DEF Linkage
<1>2. n \in Address /\ Handed(t) \subseteq Address
  BY <1>1, HandedIs
<1>3. PICK t2 : t2 = AtHead(t, n)
  OBVIOUS
<1>4. PICK k \in Hash : k = HashOf(t, n)
  BY <1>1, <1>2, HashIs
<1>5. /\ t2 \in Table
      /\ \A m \in Address : SameFields(t.node, t2.node, m)
      /\ \A m \in Address \ {n} : t2.node[m] = t.node[m]
      /\ t2.node[n].next = t.hash_memory[k]
      /\ t2.hash_memory = [t.hash_memory EXCEPT ![k] = n]
      /\ t2.bddmemory = t.bddmemory /\ t2.curBDDPos = t.curBDDPos
      /\ t2.free = t.free /\ t2.free_count = t.free_count
  BY <1>1, <1>2, <1>3, <1>4, AtHeadIs
<1> DEFINE rank2 == [m \in Address |-> IF m = n THEN 0 ELSE rank[m] + 1]
<1>6. rank2 \in Ranks
  BY <1>1 DEF Ranks
<1>7. \A l, m \in Address \ {n} : rank[l] < rank[m] => rank2[l] < rank2[m]
  BY <1>1 DEF Ranks
<1>8. \A m \in Address \ {n} : rank2[n] < rank2[m]
  BY <1>1, <1>2 DEF Ranks
<1>9. Handed(t2) = Handed(t)
  BY <1>5, SameHanded
<1>10. \A m \in Address : HashOf(t2, m) = HashOf(t, m)
  BY <1>5, SameHash
<1> HIDE DEF rank2
<1>11. ASSUME NEW h \in Hash
       PROVE  IsList(t2.node, t2.hash_memory[h], OfHash(t2, live \cup {n}, h), rank2)
  <2>1. PICK S : S = OfHash(t, live, h)
    OBVIOUS
  <2>2. S \subseteq Address \ {n} /\ S \subseteq Address /\ n \notin S
    BY <1>1, <1>2, <2>1 DEF OfHash
  <2>3. IsList(t.node, t.hash_memory[h], S, rank)
    BY <2>1 DEF Linkage
  <2>4. PICK node2 : node2 = t2.node
    OBVIOUS
  <2>5. PICK node : node = t.node
    OBVIOUS
  <2>6. \A m \in S : node2[m].next = node[m].next
    BY <1>5, <2>2, <2>4, <2>5
  <2>7. \A l, m \in S : rank[l] < rank[m] => rank2[l] < rank2[m]
    BY <1>7, <2>2
  <2>8. \A m \in S : rank2[n] < rank2[m]
    BY <1>8, <2>2
  <2>9. PICK start : start = t.hash_memory[h]
    OBVIOUS
  <2>10. t.hash_memory \in [Hash -> Address \cup {NULL}]
    BY <1>1 DEF Table
  <2>11. CASE h = k
    <3>1. OfHash(t2, live \cup {n}, h) = S \cup {n}
      BY <1>1, <1>2, <1>4, <1>10, <2>1, <2>11 DEF OfHash
    <3>2. node2[n].next = start /\ t2.hash_memory[h] = n
      BY <1>5, <2>4, <2>9, <2>10, <2>11
    <3>3. IsList(node2, n, S \cup {n}, rank2)
      BY <1>2, <2>2, <2>3, <2>5, <2>6, <2>7, <2>8, <2>9, <3>2, PutFirst
    <3> QED
      BY <2>4, <3>1, <3>2, <3>3
  <2>12. CASE h # k
    <3>1. OfHash(t2, live \cup {n}, h) = S
      BY <1>1, <1>2, <1>4, <1>10, <2>1, <2>12 DEF OfHash
    <3>2. t2.hash_memory[h] = start
      BY <1>5, <2>9, <2>10, <2>12
    <3>3. IsList(node2, start, S, rank2)
      BY <2>2, <2>3, <2>5, <2>6, <2>7, <2>9, SameList
    <3> QED
      BY <2>4, <3>1, <3>2, <3>3
  <2> QED
    BY <2>11, <2>12
<1>12. IsList(t2.node, t2.free, fr, rank2)
  <2>1. IsList(t.node, t.free, fr, rank)
    BY DEF Linkage
  <2>2. fr \subseteq Address \ {n} /\ fr \subseteq Address
    BY <1>1, <1>2
  <2>3. PICK node2 : node2 = t2.node
    OBVIOUS
  <2>4. PICK node : node = t.node
    OBVIOUS
  <2>5. \A m \in fr : node2[m].next = node[m].next
    BY <1>5, <2>2, <2>3, <2>4
  <2>6. \A l, m \in fr : rank[l] < rank[m] => rank2[l] < rank2[m]
    BY <1>7, <2>2
  <2>7. PICK start : start = t.free
    OBVIOUS
  <2>8. IsList(node2, start, fr, rank2)
    BY <2>1, <2>2, <2>4, <2>5, <2>6, <2>7, SameList
  <2> QED
    BY <1>5, <2>3, <2>7, <2>8
<1>13. \A m \in fr : t2.node[m].variable = 0
  BY <1>1, <1>2, <1>5 DEF Linkage
<1>14. Linkage(t2, live \cup {n}, fr, rank2)
  BY <1>5, <1>6, <1>9, <1>11, <1>12, <1>13 DEF Linkage
<1> QED
  BY <1>3, <1>14

(* Handing out or linking a node leaves the rest of the table. *)
SameMemory(t, t2) ==
  /\ t2.bddmemory = t.bddmemory /\ t2.curBDDPos = t.curBDDPos
  /\ t2.free = t.free /\ t2.free_count = t.free_count

(* n is linked, and nothing but links changes. *)
Ends(t, t2, live, fr, n) ==
  /\ \E rank2 : Linkage(t2, live \cup {n}, fr, rank2)
  /\ SameMemory(t, t2)
  /\ \A m \in Address : SameFields(t.node, t2.node, m)
  /\ \A m \in Address \ live : t2.node[m] = t.node[m]

(* A node that is on no list is put behind the chain of its key. *)
LEMMA EndLinked ==
  ASSUME NEW t, NEW live, NEW fr, NEW rank, Linkage(t, live, fr, rank),
         NEW n \in Handed(t), n \notin live, n \notin fr, t.node[n].next = NULL
  PROVE  Ends(t, AtEnd(t, n), live, fr, n)
<1>1. t \in Table /\ live \subseteq Handed(t) /\ fr \subseteq Handed(t) /\ rank \in Ranks
      /\ live \cap fr = {}
  BY DEF Linkage
<1>2. n \in Address /\ Handed(t) \subseteq Address
  BY <1>1, HandedIs
<1>3. PICK t2 : t2 = AtEnd(t, n)
  OBVIOUS
<1>4. PICK k \in Hash : k = HashOf(t, n)
  BY <1>1, <1>2, HashIs
<1>5. PICK start : start = t.hash_memory[k]
  OBVIOUS
<1>6. PICK S : S = OfHash(t, live, k)
  OBVIOUS
<1>7. IsList(t.node, start, S, rank) /\ S \subseteq live /\ S \subseteq Address /\ n \notin S
  BY <1>1, <1>2, <1>5, <1>6 DEF Linkage, OfHash
<1>8. PICK node \in Nodes : node = t.node
  BY <1>1 DEF Table
<1>9. start \in Address \cup {NULL} /\ t.hash_memory \in [Hash -> Address \cup {NULL}]
  BY <1>1, <1>5 DEF Table
<1>10. Linked(t, start) = S
  BY <1>1, <1>7, <1>8, <1>9, ListLinks
<1>11. t = [node |-> t.node, bddmemory |-> t.bddmemory, curBDDPos |-> t.curBDDPos,
            hash_memory |-> t.hash_memory, free |-> t.free, free_count |-> t.free_count]
  BY <1>1 DEF Table
<1>12. n \in Address /\ NULL \notin Address
  BY <1>2, AddressFinite
<1> DEFINE tail == {m \in S : node[m].next = NULL}
<1>13. t2 = IF tail = {} THEN [t EXCEPT !.hash_memory[k] = n]
            ELSE [t EXCEPT !.node = [m \in Address |->
                                 IF m \in tail THEN [@[m] EXCEPT !.next = n] ELSE @[m]]]
  BY <1>3, <1>4, <1>5, <1>8, <1>10 DEF AtEnd
<1>14. CASE S = {}
  <2>1. start = NULL /\ tail = {}
    BY <1>7, <1>14 DEF IsList
  <2>2. t2 = [t EXCEPT !.hash_memory[k] = n]
    BY <2>1, <1>13
  <2>3. /\ t2.node = t.node /\ t2.hash_memory = [t.hash_memory EXCEPT ![k] = n]
        /\ SameMemory(t, t2)
    BY <2>2, <1>11 DEF SameMemory
  <2>4. t2.hash_memory \in [Hash -> Address \cup {NULL}]
    BY <2>3, <1>9, <1>12
  <2>5. t2 \in Table
    BY <1>1, <1>11, <2>2, <2>3, <2>4 DEF Table, SameMemory
  <2>6. \A m \in Address : HashOf(t2, m) = HashOf(t, m)
    BY <2>3 DEF HashOf
  <2>7. ASSUME NEW h \in Hash
        PROVE  IsList(t2.node, t2.hash_memory[h], OfHash(t2, live \cup {n}, h), rank)
    <3>1. CASE h = k
      <4>1. OfHash(t2, live \cup {n}, h) = {n} /\ t2.hash_memory[h] = n
        BY <1>1, <1>2, <1>4, <1>6, <1>9, <1>14, <2>3, <2>6, <3>1 DEF OfHash
      <4>2. IsList(node, n, {n}, rank)
        BY <1>8, <1>12 DEF IsList
      <4> QED
        BY <1>8, <2>3, <4>1, <4>2
    <3>2. CASE h # k
      <4>1. OfHash(t2, live \cup {n}, h) = OfHash(t, live, h)
            /\ t2.hash_memory[h] = t.hash_memory[h]
        BY <1>1, <1>2, <1>4, <1>9, <2>3, <2>6, <3>2 DEF OfHash
      <4> QED
        BY <2>3, <4>1 DEF Linkage
    <3> QED
      BY <3>1, <3>2
  <2>8. Handed(t2) = Handed(t)
    BY <2>3, SameHanded DEF SameMemory
  <2>9. Linkage(t2, live \cup {n}, fr, rank)
    BY <1>1, <2>3, <2>5, <2>7, <2>8 DEF Linkage, SameMemory
  <2> QED
    BY <1>3, <2>3, <2>9 DEF SameFields, Ends
<1>15. CASE S # {}
  <2>1. IsList(node, start, S, rank)
    BY <1>7, <1>8
  <2>2. PICK end \in S : node[end].next = NULL
    BY <1>1, <1>7, <1>15, <2>1, ListEnds
  <2>3. \A m \in S : node[m].next = NULL => m = end
    <3> SUFFICES ASSUME NEW m \in S, node[m].next = NULL PROVE m = end
      OBVIOUS
    <3> QED
      BY <1>1, <1>7, <2>1, <2>2, OneEnd
  <2>4. tail = {end} /\ end \in Address /\ end # n
    BY <2>2, <2>3, <1>7
  <2>5. t2 = [t EXCEPT !.node = [m \in Address |->
                                 IF m \in tail THEN [@[m] EXCEPT !.next = n] ELSE @[m]]]
    BY <2>4, <1>13
  <2>6. /\ t2.node = [m \in Address |-> IF m = end THEN [node[m] EXCEPT !.next = n] ELSE node[m]]
        /\ t2.hash_memory = t.hash_memory /\ SameMemory(t, t2)
    <3> HIDE DEF tail
    <3>1. /\ t2.node = [m \in Address |-> IF m \in tail THEN [t.node[m] EXCEPT !.next = n] ELSE t.node[m]]
          /\ t2.hash_memory = t.hash_memory /\ SameMemory(t, t2)
      BY <2>5, <1>11 DEF SameMemory
    <3> QED
      BY <2>4, <3>1, <1>8
  <2>7. PICK node2 : node2 = t2.node
    OBVIOUS
  <2>8. node[end] \in Node /\ node2[end] = [node[end] EXCEPT !.next = n]
        /\ \A m \in Address \ {end} : node2[m] = node[m]
    BY <2>4, <2>6, <2>7 DEF Nodes
  <2>9. node2[end].next = n /\ SameFields(node, node2, end) /\ node2[end] \in Node
    BY <2>8, <1>12 DEF Node, SameFields
  <2>10. node2 \in Nodes
    <3>1. \A m \in Address : node2[m] \in Node
      BY <2>8, <2>9 DEF Nodes
    <3>2. node2 = [m \in Address |-> node2[m]]
      BY <2>6, <2>7
    <3> QED
      BY <3>1, <3>2 DEF Nodes
  <2>11. t2 \in Table
    BY <1>1, <1>11, <2>5, <2>6, <2>7, <2>10 DEF Table, SameMemory
  <2>12. \A m \in Address : SameFields(node, node2, m)
    BY <2>8, <2>9 DEF SameFields
  <2>13. \A m \in Address : HashOf(t2, m) = HashOf(t, m)
    BY <2>7, <2>12, <1>8, SameHash
  <2> DEFINE rank2 == [rank EXCEPT ![n] = rank[end] + 1]
  <2>14. rank2 \in Ranks /\ rank2[end] < rank2[n] /\ \A m \in Address \ {n} : rank2[m] = rank[m]
    BY <1>1, <1>2, <2>4 DEF Ranks
  <2> HIDE DEF rank2
  <2>15. node2[n].next = NULL
    BY <1>2, <1>8, <2>4, <2>8
  <2>16. ASSUME NEW h \in Hash
         PROVE  IsList(t2.node, t2.hash_memory[h], OfHash(t2, live \cup {n}, h), rank2)
    <3>1. CASE h = k
      <4>1. OfHash(t2, live \cup {n}, h) = S \cup {n} /\ t2.hash_memory[h] = start
        BY <1>1, <1>2, <1>4, <1>5, <1>6, <2>6, <2>13, <3>1 DEF OfHash
      <4>2. \A m \in S \ {end} : node2[m].next = node[m].next
        BY <1>7, <2>8
      <4>3. \A l, m \in S : rank[l] < rank[m] => rank2[l] < rank2[m]
        BY <1>7, <2>14
      <4>4. IsList(node2, start, S \cup {n}, rank2)
        BY <1>1, <1>2, <1>7, <1>8, <2>2, <2>9, <2>14, <2>15, <4>2, <4>3, PutLast
      <4> QED
        BY <2>7, <4>1, <4>4
    <3>2. CASE h # k
      <4>1. PICK T : T = OfHash(t, live, h)
        OBVIOUS
      <4>2. OfHash(t2, live \cup {n}, h) = T /\ t2.hash_memory[h] = t.hash_memory[h]
        BY <1>1, <1>2, <1>4, <2>6, <2>13, <3>2, <4>1 DEF OfHash
      <4>3. T \subseteq Address \ {n, end} /\ T \subseteq Address
        BY <1>1, <1>2, <1>4, <1>6, <2>2, <3>2, <4>1 DEF OfHash
      <4>4. \A m \in T : node2[m].next = node[m].next
        BY <2>8, <4>3
      <4>5. \A l, m \in T : rank[l] < rank[m] => rank2[l] < rank2[m]
        BY <4>3, <2>14
      <4>6. PICK first : first = t.hash_memory[h]
        OBVIOUS
      <4>7. IsList(node, first, T, rank)
        BY <1>8, <4>1, <4>6 DEF Linkage
      <4>8. IsList(node2, first, T, rank2)
        BY <4>3, <4>4, <4>5, <4>7, SameList
      <4> QED
        BY <2>7, <4>2, <4>6, <4>8
    <3> QED
      BY <3>1, <3>2
  <2>17. IsList(t2.node, t2.free, fr, rank2)
    <3>1. PICK first : first = t.free
      OBVIOUS
    <3>2. IsList(node, first, fr, rank)
      BY <1>8, <3>1 DEF Linkage
    <3>3. fr \subseteq Address \ {n, end} /\ fr \subseteq Address
      BY <1>1, <1>2, <1>7, <2>2
    <3>4. \A m \in fr : node2[m].next = node[m].next
      BY <2>8, <3>3
    <3>5. \A l, m \in fr : rank[l] < rank[m] => rank2[l] < rank2[m]
      BY <3>3, <2>14
    <3>6. IsList(node2, first, fr, rank2)
      BY <3>2, <3>3, <3>4, <3>5, SameList
    <3> QED
      BY <2>6, <2>7, <3>1, <3>6 DEF SameMemory
  <2>18. Handed(t2) = Handed(t)
    BY <2>6, SameHanded DEF SameMemory
  <2>19. \A m \in fr : t2.node[m].variable = 0
    <3>1. \A m \in fr : t.node[m].variable = 0 /\ m \in Address
      BY <1>1, <1>2 DEF Linkage
    <3> QED
      BY <3>1, <1>8, <2>7, <2>12 DEF SameFields
  <2>20. Linkage(t2, live \cup {n}, fr, rank2)
    BY <1>1, <2>6, <2>11, <2>14, <2>16, <2>17, <2>18, <2>19 DEF Linkage, SameMemory
  <2>21. \A m \in Address \ live : node2[m] = node[m]
    BY <2>8, <2>2, <1>7
  <2> QED
    BY <1>3, <1>8, <2>6, <2>7, <2>12, <2>20, <2>21 DEF Ends
<1> QED
  BY <1>14, <1>15

NewNode(v, r, e) == [Zeroed EXCEPT !.variable = v, !.thenCase = r, !.elseCase = e]

(* p is a pool that malloc may hand out. *)
Unowned(t, p) == p \in Pool /\ p \notin Range(t.bddmemory)

(* A node is handed out: n is no node in use. *)
Allocs(t, t2, live, fr, rank, v, r, e, n) ==
  /\ Linkage(t2, live, fr \ {n}, rank)
  /\ n \in Address /\ n \in Handed(t2) /\ Handed(t2) = Handed(t) \cup {n}
  /\ n \notin Handed(t) \ fr
  /\ \A m \in Address \ {n} : t2.node[m] = t.node[m]
  /\ t2.node[n] = NewNode(v, r, e)
  /\ IF fr # {} THEN n \in fr /\ t2.bddmemory = t.bddmemory /\ t2.curBDDPos = t.curBDDPos
     ELSE \/ t2.bddmemory = t.bddmemory /\ t2.curBDDPos = t.curBDDPos + 1
          \/ t2.curBDDPos < PoolSize

(* A node is taken from the free list, from the last pool or from a new one*)
LEMMA AllocLinked ==
  ASSUME NEW t, NEW live, NEW fr, NEW rank, Linkage(t, live, fr, rank), Handed(t) # {},
         NEW v \in B!Var, NEW r \in Address, NEW e \in Address, NEW p,
         fr # {} \/ t.curBDDPos < PoolSize \/ Unowned(t, p),
         NEW n, n = AllocNode(t, v, r, e, p).n, NEW t2, t2 = AllocNode(t, v, r, e, p).t
  PROVE  Allocs(t, t2, live, fr, rank, v, r, e, n)
<1>1. t \in Table /\ live \subseteq Handed(t) /\ fr \subseteq Handed(t) /\ rank \in Ranks
      /\ live \cap fr = {} /\ IsInjective(t.bddmemory) /\ t.free_count = Cardinality(fr)
  BY DEF Linkage
<1>2. Handed(t) \subseteq Address /\ fr \subseteq Address
  BY <1>1, HandedIs
<1>3. t = [node |-> t.node, bddmemory |-> t.bddmemory, curBDDPos |-> t.curBDDPos,
           hash_memory |-> t.hash_memory, free |-> t.free, free_count |-> t.free_count]
  BY <1>1 DEF Table
<1>4. /\ t.bddmemory \in Seq(Pool) /\ t.curBDDPos \in 0..PoolSize /\ t.node \in Nodes
      /\ t.free \in Address \cup {NULL} /\ t.free_count \in Nat
      /\ t.hash_memory \in [Hash -> Address \cup {NULL}]
  BY <1>1 DEF Table
<1>5. NULL \notin Address /\ PoolSize \in Nat /\ PoolSize > 2
  BY AddressFinite, BddTableAssumption
<1>6. t.bddmemory # <<>>
  <2> SUFFICES ASSUME t.bddmemory = <<>> PROVE FALSE
    OBVIOUS
  <2>1. DOMAIN t.bddmemory = {}
    OBVIOUS
  <2> QED
    BY <2>1 DEF Handed
<1>7. NewNode(v, r, e) \in Node
  <2>1. v \in -1..NumVars
    BY BddTableAssumption DEF B!Var
  <2> QED
    BY <2>1 DEF NewNode, Zeroed, Node
<1>8. IsList(t.node, t.free, fr, rank)
  BY DEF Linkage
<1>9. t.free = NULL <=> fr = {}
  <2>1. PICK node \in Nodes : node = t.node
    BY <1>4
  <2>2. PICK start : start = t.free
    OBVIOUS
  <2> QED
    BY <2>1, <2>2, <1>1, <1>2, <1>8, ListEnds
<1> DEFINE After(bm, cur, fre, cnt) ==
      [node |-> [t.node EXCEPT ![n] = NewNode(v, r, e)], bddmemory |-> bm, curBDDPos |-> cur,
       hash_memory |-> t.hash_memory, free |-> fre, free_count |-> cnt]
<1>10. ASSUME NEW bm, NEW cur, NEW fre, NEW cnt, t2 = After(bm, cur, fre, cnt), n \in Address
       PROVE  /\ t2.bddmemory = bm /\ t2.curBDDPos = cur /\ t2.free = fre /\ t2.free_count = cnt
              /\ t2.hash_memory = t.hash_memory
              /\ \A m \in Address \ {n} : t2.node[m] = t.node[m]
              /\ t2.node[n] = NewNode(v, r, e)
              /\ t2.node \in Nodes
  <2>1. t2.node = [t.node EXCEPT ![n] = NewNode(v, r, e)]
    BY <1>10
  <2>2. t2.node \in Nodes
    BY <2>1, <1>4, <1>7, <1>10 DEF Nodes
  <2> QED
    BY <2>1, <2>2, <1>4, <1>10 DEF Nodes
<1> HIDE DEF After
<1>11. ASSUME NEW bm, NEW cur, NEW fre, NEW cnt, t2 = After(bm, cur, fre, cnt),
              n \in Address, n \notin live,
              t2 \in Table, IsInjective(t2.bddmemory), Handed(t2) = Handed(t) \cup {n},
              IsList(t.node, fre, fr \ {n}, rank), cnt = Cardinality(fr \ {n})
       PROVE  Linkage(t2, live, fr \ {n}, rank)
  <2>1. /\ t2.free = fre /\ t2.free_count = cnt /\ t2.hash_memory = t.hash_memory
        /\ \A m \in Address \ {n} : t2.node[m] = t.node[m]
    BY <1>10, <1>11
  <2>2. PICK node : node = t.node
    OBVIOUS
  <2>3. PICK node2 : node2 = t2.node
    OBVIOUS
  <2>4. IsList(node2, fre, fr \ {n}, rank)
    <3>1. \A m \in fr \ {n} : node2[m].next = node[m].next
      BY <2>1, <2>2, <2>3, <1>2
    <3>2. IsList(node, fre, fr \ {n}, rank) /\ fr \ {n} \subseteq Address
      BY <1>2, <1>11, <2>2
    <3>3. \A l, m \in fr \ {n} : rank[l] < rank[m] => rank[l] < rank[m]
      OBVIOUS
    <3> QED
      BY <3>1, <3>2, <3>3, SameList
  <2>5. live \subseteq Address \ {n}
    BY <1>1, <1>2, <1>11
  <2>6. ASSUME NEW h \in Hash PROVE IsList(node2, t2.hash_memory[h], OfHash(t2, live, h), rank)
    <3>1. PICK T : T = OfHash(t, live, h)
      OBVIOUS
    <3>2. PICK first : first = t.hash_memory[h]
      OBVIOUS
    <3>3. \A m \in live : HashOf(t2, m) = HashOf(t, m)
      BY <2>1, <2>5 DEF HashOf
    <3>4. OfHash(t2, live, h) = T /\ t2.hash_memory[h] = first /\ T \subseteq Address \ {n}
      BY <2>1, <2>5, <3>1, <3>2, <3>3 DEF OfHash
    <3>5. IsList(node, first, T, rank) /\ T \subseteq Address
      BY <2>2, <3>1, <3>2, <3>4 DEF Linkage
    <3>6. \A m \in T : node2[m].next = node[m].next
      BY <2>1, <2>2, <2>3, <3>4
    <3>7. \A l, m \in T : rank[l] < rank[m] => rank[l] < rank[m]
      OBVIOUS
    <3>8. IsList(node2, first, T, rank)
      BY <3>5, <3>6, <3>7, SameList
    <3> QED
      BY <3>4, <3>8
  <2>7. \A m \in fr \ {n} : t2.node[m].variable = 0
    BY <1>2, <2>1 DEF Linkage
  <2> QED
    BY <1>1, <1>11, <2>1, <2>3, <2>4, <2>6, <2>7 DEF Linkage
<1>12. CASE fr # {}
  <2>1. t.free # NULL
    BY <1>9, <1>12
  <2>2. n = t.free /\ t2 = [t EXCEPT !.free = t.node[n].next, !.free_count = @ - 1,
                                     !.curBDDPos = @, !.node[n] = NewNode(v, r, e)]
    BY <2>1, <1>3 DEF AllocNode, NewNode
  <2>3. n \in fr /\ IsList(t.node, t.node[n].next, fr \ {n}, rank)
    <3>1. PICK node : node = t.node
      OBVIOUS
    <3>2. IsList(node, n, fr, rank) /\ n # NULL
      BY <1>8, <2>1, <2>2, <3>1
    <3> QED
      BY <1>2, <3>1, <3>2, TakeFirst
  <2>4. t2 = After(t.bddmemory, t.curBDDPos, t.node[n].next, t.free_count - 1)
    BY <2>2, <1>3 DEF After
  <2>5. IsFiniteSet(fr) /\ Cardinality(fr \ {n}) = Cardinality(fr) - 1
        /\ Cardinality(fr \ {n}) \in Nat
    <3>1. IsFiniteSet(fr)
      BY <1>2, AddressFinite, FS_Subset
    <3>2. IsFiniteSet(fr \ {n}) /\ Cardinality(fr \ {n}) = Cardinality(fr) - 1
      BY <2>3, <3>1, FS_RemoveElement
    <3> QED
      BY <3>1, <3>2, FS_CardinalityType
  <2>6. n \in Address /\ n \notin live
    BY <1>1, <1>2, <2>3
  <2>7. /\ t2.bddmemory = t.bddmemory /\ t2.curBDDPos = t.curBDDPos
        /\ t2.free = t.node[n].next /\ t2.free_count = t.free_count - 1
        /\ t2.hash_memory = t.hash_memory /\ t2.node \in Nodes
        /\ \A m \in Address \ {n} : t2.node[m] = t.node[m]
        /\ t2.node[n] = NewNode(v, r, e)
    <3>1. PICK bm, cur, fre, cnt : /\ bm = t.bddmemory /\ cur = t.curBDDPos
                                   /\ fre = t.node[n].next /\ cnt = t.free_count - 1
      OBVIOUS
    <3>2. t2 = After(bm, cur, fre, cnt)
      BY <2>4, <3>1
    <3>3. /\ t2.bddmemory = bm /\ t2.curBDDPos = cur /\ t2.free = fre /\ t2.free_count = cnt
          /\ t2.hash_memory = t.hash_memory
          /\ \A m \in Address \ {n} : t2.node[m] = t.node[m]
          /\ t2.node[n] = NewNode(v, r, e)
          /\ t2.node \in Nodes
      BY <1>10, <2>6, <3>2
    <3> QED
      BY <3>1, <3>3
  <2>8. t.node[n].next \in Address \cup {NULL}
    BY <1>4, <2>6 DEF Nodes, Node
  <2>9. t2 \in Table
    <3>1. t2.free_count \in Nat
      BY <1>1, <2>5, <2>7
    <3>2. t2 = [node |-> t2.node, bddmemory |-> t2.bddmemory, curBDDPos |-> t2.curBDDPos,
                hash_memory |-> t2.hash_memory, free |-> t2.free, free_count |-> t2.free_count]
      BY <2>4 DEF After
    <3> QED
      BY <1>4, <2>7, <2>8, <3>1, <3>2 DEF Table
  <2>10. Handed(t2) = Handed(t) /\ IsInjective(t2.bddmemory)
    BY <1>1, <2>7, SameHanded
  <2>11. Handed(t2) = Handed(t) \cup {n}
    BY <1>1, <2>3, <2>10
  <2>12. t.free_count - 1 = Cardinality(fr \ {n})
    BY <1>1, <2>5
  <2>13. Linkage(t2, live, fr \ {n}, rank)
    BY <1>11, <2>3, <2>4, <2>6, <2>9, <2>10, <2>11, <2>12
  <2> QED
    BY <1>12, <2>3, <2>6, <2>7, <2>11, <2>13 DEF Allocs
<1>13. CASE fr = {} /\ t.curBDDPos < PoolSize
  <2>1. t.free = NULL
    BY <1>9, <1>13
  <2>2. PICK l \in Nat \ {0} : l = Len(t.bddmemory)
    BY <1>4, <1>6
  <2>3. t.bddmemory[l] \in Pool /\ t.curBDDPos + 1 \in 1..PoolSize
    BY <1>4, <1>5, <1>13, <2>2
  <2>4. n = Memory(t.bddmemory[l])[t.curBDDPos + 1]
        /\ t2 = [t EXCEPT !.free = NULL, !.free_count = @,
                          !.curBDDPos = @ + 1, !.node[n] = NewNode(v, r, e)]
    BY <2>1, <2>2, <1>3, <1>13 DEF AllocNode, NewNode, Last
  <2>5. n = Cell(t.bddmemory[l], t.curBDDPos + 1) /\ n \in Address
    BY <2>3, <2>4, MemoryIs, CellAddress
  <2>6. t2 = After(t.bddmemory, t.curBDDPos + 1, NULL, t.free_count)
    BY <2>4, <1>3 DEF After
  <2>7. /\ t2.bddmemory = t.bddmemory /\ t2.curBDDPos = t.curBDDPos + 1
        /\ t2.free = NULL /\ t2.free_count = t.free_count
        /\ t2.hash_memory = t.hash_memory /\ t2.node \in Nodes
        /\ \A m \in Address \ {n} : t2.node[m] = t.node[m]
        /\ t2.node[n] = NewNode(v, r, e)
    BY <1>10, <2>5, <2>6
  <2>8. t2 \in Table
    <3>1. t2.curBDDPos \in 0..PoolSize
      BY <2>3, <2>7, <1>5
    <3>2. t2 = [node |-> t2.node, bddmemory |-> t2.bddmemory, curBDDPos |-> t2.curBDDPos,
                hash_memory |-> t2.hash_memory, free |-> t2.free, free_count |-> t2.free_count]
      BY <2>6 DEF After
    <3> QED
      BY <1>4, <2>7, <3>1, <3>2 DEF Table
  <2>9. n \in Address /\ n \notin Handed(t) /\ Handed(t2) = Handed(t) \cup {n}
    BY <1>1, <1>6, <1>13, <2>2, <2>5, <2>7, <2>8, HandNext
  <2>10. IsInjective(t2.bddmemory) /\ n \notin live
    BY <1>1, <2>7, <2>9
  <2>11. IsList(t.node, NULL, fr \ {n}, rank) /\ t.free_count = Cardinality(fr \ {n})
    BY <1>1, <1>13, NoList
  <2>12. Linkage(t2, live, fr \ {n}, rank)
    BY <1>11, <2>6, <2>8, <2>9, <2>10, <2>11
  <2> QED
    BY <1>13, <2>7, <2>9, <2>12 DEF Allocs
<1>14. CASE fr = {} /\ ~(t.curBDDPos < PoolSize)
  <2>1. t.free = NULL /\ Unowned(t, p) /\ t.curBDDPos = PoolSize
    BY <1>4, <1>5, <1>9, <1>14
  <2>2. PICK bm : bm = Append(t.bddmemory, p)
    OBVIOUS
  <2>3. PICK l \in Nat : l = Len(t.bddmemory)
    BY <1>4
  <2>4. bm \in Seq(Pool) /\ Last(bm) = p
    BY <1>4, <2>1, <2>2, <2>3 DEF Unowned, Last
  <2>5. n = Memory(p)[1]
        /\ t2 = [node |-> [t.node EXCEPT ![n] = NewNode(v, r, e)], bddmemory |-> bm,
                 curBDDPos |-> 1, hash_memory |-> t.hash_memory, free |-> NULL,
                 free_count |-> t.free_count]
    <3>1. PICK g : g = [t EXCEPT !.bddmemory = Append(@, p), !.curBDDPos = 0]
      OBVIOUS
    <3>2. g = [t EXCEPT !.bddmemory = bm, !.curBDDPos = 0]
      BY <2>2, <3>1
    <3>3. g = [node |-> t.node, bddmemory |-> bm, curBDDPos |-> 0,
               hash_memory |-> t.hash_memory, free |-> t.free, free_count |-> t.free_count]
      BY <3>2, <1>3
    <3>4. n = Memory(Last(g.bddmemory))[g.curBDDPos + 1]
          /\ t2 = [g EXCEPT !.free = NULL, !.free_count = @,
                            !.curBDDPos = @ + 1, !.node[n] = NewNode(v, r, e)]
      BY <2>1, <1>14, <3>1 DEF AllocNode, NewNode
    <3>5. /\ g.bddmemory = bm /\ g.curBDDPos = 0 /\ g.node = t.node
          /\ g.hash_memory = t.hash_memory /\ g.free_count = t.free_count
      BY <3>3
    <3>6. n = Memory(p)[1]
      BY <2>4, <3>4, <3>5
    <3>7. g = [node |-> g.node, bddmemory |-> g.bddmemory, curBDDPos |-> g.curBDDPos,
               hash_memory |-> g.hash_memory, free |-> g.free, free_count |-> g.free_count]
      BY <3>3
    <3>8. t2 = [node |-> [g.node EXCEPT ![n] = NewNode(v, r, e)], bddmemory |-> g.bddmemory,
                curBDDPos |-> g.curBDDPos + 1, hash_memory |-> g.hash_memory,
                free |-> NULL, free_count |-> g.free_count]
      BY <3>4, <3>7
    <3>9. g.curBDDPos + 1 = 1
      BY <3>5
    <3> QED
      BY <3>5, <3>6, <3>8, <3>9
  <2>6. n = Cell(p, 1) /\ n \in Address
    <3>1. 1 \in 1..PoolSize /\ p \in Pool
      BY <1>5, <2>1 DEF Unowned
    <3> QED
      BY <2>5, <3>1, MemoryIs, CellAddress
  <2>7. t2 = After(bm, 1, NULL, t.free_count)
    BY <2>5 DEF After
  <2>8. /\ t2.bddmemory = bm /\ t2.curBDDPos = 1
        /\ t2.free = NULL /\ t2.free_count = t.free_count
        /\ t2.hash_memory = t.hash_memory /\ t2.node \in Nodes
        /\ \A m \in Address \ {n} : t2.node[m] = t.node[m]
        /\ t2.node[n] = NewNode(v, r, e)
    BY <1>10, <2>6, <2>7
  <2>9. t2 \in Table
    <3>1. 1 \in 0..PoolSize
      BY <1>5
    <3>2. t2 = [node |-> t2.node, bddmemory |-> t2.bddmemory, curBDDPos |-> t2.curBDDPos,
                hash_memory |-> t2.hash_memory, free |-> t2.free, free_count |-> t2.free_count]
      BY <2>7 DEF After
    <3> QED
      BY <1>4, <2>4, <2>8, <3>1, <3>2 DEF Table
  <2>10. /\ n \in Address /\ n \notin Handed(t) /\ Handed(t2) = Handed(t) \cup {n}
         /\ IsInjective(t2.bddmemory)
    <3>1. p \in Pool /\ p \notin Range(t.bddmemory)
      BY <2>1 DEF Unowned
    <3>2. t2.bddmemory = Append(t.bddmemory, p) /\ t2.curBDDPos = 1
      BY <2>2, <2>8
    <3> QED
      BY ONLY <1>1, <2>1, <2>6, <2>9, <3>1, <3>2, HandNew
  <2>11. n \notin live /\ t2.curBDDPos < PoolSize
    BY <1>1, <1>5, <2>8, <2>10
  <2>12. IsList(t.node, NULL, fr \ {n}, rank) /\ t.free_count = Cardinality(fr \ {n})
    BY <1>1, <1>14, NoList
  <2>13. Linkage(t2, live, fr \ {n}, rank)
    BY <1>11, <2>7, <2>9, <2>10, <2>11, <2>12
  <2> QED
    BY <1>14, <2>8, <2>10, <2>11, <2>13 DEF Allocs
<1> QED
  BY <1>12, <1>13, <1>14

-----------------------------------------------------------------------------
(* What nodes mean *)

(* m is a link of a node of variable v to a node further down. *)
LinksDown(node, v, m) == m # NULL /\ node[m].variable < v

(* The function of n, when F gives those of the nodes it is linked to *)
OneMeaning(node, n, F) ==
  IF n = true_ptr THEN B!true_ptr
  ELSE IF \/ n = false_ptr
          \/ ~LinksDown(node, node[n].variable, node[n].thenCase)
          \/ ~LinksDown(node, node[n].variable, node[n].elseCase) THEN B!false_ptr
  ELSE {m \in B!Assignment : m \in IF m[node[n].variable] = B!BOOL_TRUE
                                   THEN F[node[n].thenCase] ELSE F[node[n].elseCase]}

IsMeaning(node, F) ==
  /\ DOMAIN F = Address
  /\ \A n \in Address : F[n] \subseteq B!Assignment /\ F[n] = OneMeaning(node, n, F)

(* The types of the fields of a node *)
LEMMA NodeFields ==
  ASSUME NEW node \in Nodes, NEW n \in Address
  PROVE  /\ node[n].variable \in -1..NumVars /\ node[n].variable \in Int
         /\ node[n].variable + 1 \in Nat
         /\ node[n].thenCase \in Address \cup {NULL}
         /\ node[n].elseCase \in Address \cup {NULL}
         /\ node[n].notCase \in Address \cup {NULL}
         /\ node[n].next \in Address \cup {NULL}
<1>1. node[n] \in Node
  BY DEF Nodes
<1>2. \A v \in -1..NumVars : v \in Int /\ v + 1 \in Nat
  BY BddTableAssumption
<1> QED
  BY <1>1, <1>2 DEF Node

(* The function of a node depends only on those of the nodes below it. *)
LEMMA OneMeaningSame ==
  ASSUME NEW node, NEW n \in Address, NEW F, NEW G,
         \A c \in {node[n].thenCase, node[n].elseCase} :
           LinksDown(node, node[n].variable, c) => F[c] = G[c]
  PROVE  OneMeaning(node, n, F) = OneMeaning(node, n, G)
BY DEF OneMeaning

(* A meaning is a set of assignments. *)
LEMMA OneMeaningType ==
  ASSUME NEW node, NEW n, NEW F
  PROVE  OneMeaning(node, n, F) \subseteq B!Assignment
BY DEF OneMeaning, B!true_ptr, B!false_ptr

(* The recursive function MeaningOf exists: links go down to lower         *)
(* variables.                                                              *)
LEMMA MeaningOfIs ==
  ASSUME NEW node \in Nodes
  PROVE  IsMeaning(node, MeaningOf(node))
<1> DEFINE N == NumVars + 2
           S == [Address -> SUBSET B!Assignment]
           none == [n \in Address |-> {}]
           Level(L) == [n \in Address |-> OneMeaning(node, n, L)]
           g == [p \in (1..N) \X S |-> Level(p[2])]
<1>1. N \in Nat /\ N > 1 /\ NumVars \in Nat
  BY BddTableAssumption
<1>2. none \in S
  OBVIOUS
<1>3. \A L : Level(L) \in S
  BY OneMeaningType
<1>4. g \in StepOf(N, S)
  BY <1>3 DEF StepOf
<1>5. PICK L : Iterates(L, N, S, none, g)
  <2> HIDE DEF N, S, none, g
  <2> QED
    BY <1>1, <1>2, <1>4, StepFunction
<1>6. \A k \in 0..N : L[k] \in S
  BY <1>5 DEF Iterates
<1>7. ASSUME NEW k \in 1..N, NEW n \in Address PROVE L[k][n] = OneMeaning(node, n, L[k - 1])
  <2>1. k - 1 \in 0..N
    BY <1>1
  <2>2. L[k] = g[<<k, L[k - 1]>>] /\ L[k - 1] \in S
    BY <1>5, <1>6, <2>1 DEF Iterates
  <2>3. L[k] = Level(L[k - 1])
    BY <2>2
  <2> QED
    BY <2>3
<1> HIDE DEF S, none, g, Level
<1>8. ASSUME NEW n \in Address, NEW k \in 1..N - 1, node[n].variable + 2 <= k
      PROVE  L[k][n] = L[k + 1][n]
  <2> DEFINE T == {v \in Nat : \E m \in Address : \E j \in 1..N - 1 :
                     v = node[m].variable + 1 /\ v + 1 <= j /\ L[j][m] # L[j + 1][m]}
  <2> SUFFICES ASSUME T # {} PROVE FALSE
    <3>1. node[n].variable \in Int /\ node[n].variable + 1 \in Nat
      BY NodeFields
    <3>2. (node[n].variable + 1) + 1 <= k
      BY <1>8, <3>1
    <3> QED
      BY <3>1, <3>2
  <2>1. PICK v \in T : \A w \in T : v <= w
    <3>1. T \subseteq Nat
      OBVIOUS
    <3> HIDE DEF T
    <3> QED
      BY <3>1, LeastNumber
  <2>2. PICK m \in Address, j \in 1..N - 1 :
             v = node[m].variable + 1 /\ v + 1 <= j /\ L[j][m] # L[j + 1][m]
    BY <2>1
  <2>3. v \in Nat /\ node[m].variable \in Int
    BY <2>1, NodeFields
  <2>4. j \in 1..N /\ j + 1 \in 1..N /\ (j + 1) - 1 = j
    BY <1>1
  <2>5. L[j][m] = OneMeaning(node, m, L[j - 1]) /\ L[j + 1][m] = OneMeaning(node, m, L[j])
    BY <2>4, <1>7
  <2>6. ASSUME NEW c \in {node[m].thenCase, node[m].elseCase}, LinksDown(node, node[m].variable, c)
        PROVE  L[j - 1][c] = L[j][c]
    <3>1. c \in Address
      BY <2>6, NodeFields DEF LinksDown
    <3>2. PICK w \in Nat : w = node[c].variable + 1
      BY <3>1, NodeFields
    <3>3. node[c].variable \in Int /\ node[c].variable < node[m].variable
      BY <2>6, <3>1, NodeFields DEF LinksDown
    <3>4. w < v /\ w + 1 <= j - 1
      BY <2>2, <2>3, <3>2, <3>3
    <3>5. j - 1 \in 1..N - 1 /\ (j - 1) + 1 = j
      BY <3>2, <3>4, <1>1
    <3>6. w \notin T
      BY <2>1, <2>3, <3>4
    <3> QED
      BY <3>1, <3>2, <3>4, <3>5, <3>6
  <2>7. OneMeaning(node, m, L[j - 1]) = OneMeaning(node, m, L[j])
    BY <2>6, OneMeaningSame
  <2> QED
    BY <2>2, <2>5, <2>7
<1>9. PICK F : F = L[N]
  OBVIOUS
<1>10. F \in S /\ \A n \in Address : F[n] = OneMeaning(node, n, F)
  <2>1. F \in S
    BY <1>1, <1>6, <1>9
  <2>2. ASSUME NEW n \in Address PROVE F[n] = OneMeaning(node, n, F)
    <3>1. N \in 1..N /\ N - 1 \in 1..N - 1 /\ (N - 1) + 1 = N
      BY <1>1
    <3>2. F[n] = OneMeaning(node, n, L[N - 1])
      BY <3>1, <1>7, <1>9
    <3>3. ASSUME NEW c \in {node[n].thenCase, node[n].elseCase},
                 LinksDown(node, node[n].variable, c)
          PROVE  L[N - 1][c] = F[c]
      <4>1. c \in Address
        BY <3>3, NodeFields DEF LinksDown
      <4>2. node[c].variable \in Int /\ node[c].variable < node[n].variable
        BY <3>3, <4>1, NodeFields DEF LinksDown
      <4>3. node[n].variable \in -1..NumVars
        BY NodeFields
      <4>4. node[c].variable + 2 <= N - 1
        BY <1>1, <4>2, <4>3
      <4> QED
        BY <4>1, <4>4, <3>1, <1>8, <1>9
    <3>4. OneMeaning(node, n, L[N - 1]) = OneMeaning(node, n, F)
      BY <3>3, OneMeaningSame
    <3> QED
      BY <3>2, <3>4
  <2> QED
    BY <2>1, <2>2
<1> DEFINE Body(means) ==
      [n \in Address |->
         LET v == node[n].variable
             Below(m) == m # NULL /\ node[m].variable < v
             r == node[n].thenCase
             e == node[n].elseCase
         IN  IF n = true_ptr THEN B!true_ptr
             ELSE IF n = false_ptr \/ ~Below(r) \/ ~Below(e) THEN B!false_ptr
             ELSE {m \in B!Assignment : m \in IF m[v] = B!BOOL_TRUE THEN means[r]
                                                                    ELSE means[e]}]
<1>11. \A means : \A n \in Address : Body(means)[n] = OneMeaning(node, n, means)
  BY DEF OneMeaning, LinksDown
<1>12. \A means : DOMAIN Body(means) = Address
  OBVIOUS
<1>13. MeaningOf(node) = CHOOSE means : means = Body(means)
  BY DEF MeaningOf
<1>14. F = Body(F)
  <2>1. Body(F) = [n \in Address |-> Body(F)[n]]
    OBVIOUS
  <2> HIDE DEF Body
  <2>2. F = [n \in Address |-> F[n]]
    BY <1>10 DEF S
  <2>3. \A n \in Address : F[n] = Body(F)[n]
    BY <1>10, <1>11
  <2> QED
    BY <2>1, <2>2, <2>3
<1>15. PICK M : M = MeaningOf(node)
  OBVIOUS
<1>16. M = Body(M)
  <2> HIDE DEF Body
  <2> QED
    BY <1>13, <1>14, <1>15
<1>17. DOMAIN M = Address /\ \A n \in Address : M[n] = OneMeaning(node, n, M)
  <2> HIDE DEF Body
  <2> QED
    BY <1>11, <1>12, <1>16
<1> QED
  BY <1>15, <1>17, OneMeaningType DEF IsMeaning

(* Among nodes in use every node that is no constant splits on its variable*)
LEMMA ReducedMeans ==
  ASSUME NEW node \in Nodes, NEW A, Reduced(node, A), NEW F, IsMeaning(node, F)
  PROVE  /\ F[true_ptr] = B!Assignment /\ F[false_ptr] = {}
         /\ \A n \in A \ Constants :
              F[n] = {m \in B!Assignment : m \in IF m[node[n].variable] = B!BOOL_TRUE
                                                 THEN F[node[n].thenCase]
                                                 ELSE F[node[n].elseCase]}
<1>1. A \subseteq Address /\ NULL \notin Address /\ Constants \subseteq Address
  BY AddressFinite DEF Reduced
<1>2. true_ptr \in Address /\ false_ptr \in Address /\ true_ptr # false_ptr
  BY <1>1 DEF Constants, true_ptr, false_ptr
<1>3. F[true_ptr] = B!Assignment /\ F[false_ptr] = {}
  BY <1>2 DEF IsMeaning, OneMeaning, B!true_ptr, B!false_ptr
<1>4. ASSUME NEW n \in A \ Constants
      PROVE  F[n] = {m \in B!Assignment : m \in IF m[node[n].variable] = B!BOOL_TRUE
                                                THEN F[node[n].thenCase]
                                                ELSE F[node[n].elseCase]}
  <2>1. Inner(node, A, n)
    BY DEF Reduced
  <2>2. LinksDown(node, node[n].variable, node[n].thenCase)
        /\ LinksDown(node, node[n].variable, node[n].elseCase)
    BY <1>1, <2>1 DEF Inner, LinksDown
  <2>3. n # true_ptr /\ n # false_ptr
    BY DEF Constants
  <2>4. F[n] = OneMeaning(node, n, F)
    BY <1>1 DEF IsMeaning
  <2> QED
    BY <2>2, <2>3, <2>4 DEF OneMeaning
<1> QED
  BY <1>3, <1>4

(* The nodes in use keep their functions as long as their fields stay. *)
LEMMA SameMeanings ==
  ASSUME NEW node \in Nodes, NEW node2 \in Nodes, NEW A, Reduced(node, A),
         \A n \in A : SameFields(node, node2, n),
         NEW F, IsMeaning(node, F), NEW G, IsMeaning(node2, G)
  PROVE  \A n \in A : F[n] = G[n]
<1> DEFINE T == {v \in Nat : \E n \in A : v = node[n].variable + 1 /\ F[n] # G[n]}
<1>1. A \subseteq Address /\ NULL \notin Address
  BY AddressFinite DEF Reduced
<1> SUFFICES ASSUME T # {} PROVE FALSE
  <2>1. \A n \in A : node[n].variable + 1 \in Nat
    BY <1>1, NodeFields
  <2> QED
    BY <2>1
<1>2. PICK v \in T : \A w \in T : v <= w
  <2>1. T \subseteq Nat
    OBVIOUS
  <2> HIDE DEF T
  <2> QED
    BY <2>1, LeastNumber
<1>3. PICK n \in A : v = node[n].variable + 1 /\ F[n] # G[n]
  BY <1>2
<1>4. F[n] = OneMeaning(node, n, F) /\ G[n] = OneMeaning(node2, n, G)
  BY <1>1 DEF IsMeaning
<1>5. node[n].variable \in Int
  BY <1>1, NodeFields
<1>6. CASE n \in Constants
  <2>1. n = true_ptr \/ n = false_ptr
    BY <1>6 DEF Constants
  <2> QED
    BY <1>3, <1>4, <2>1 DEF OneMeaning
<1>7. CASE n \notin Constants
  <2>1. Inner(node, A, n)
    BY <1>7 DEF Reduced
  <2>2. PICK r \in A, e \in A : r = node[n].thenCase /\ e = node[n].elseCase
    BY <2>1 DEF Inner
  <2>3. node[r].variable < node[n].variable /\ node[e].variable < node[n].variable
    BY <2>1, <2>2 DEF Inner
  <2>4. \A c \in {r, e} : F[c] = G[c]
    <3> SUFFICES ASSUME NEW c \in {r, e} PROVE F[c] = G[c]
      OBVIOUS
    <3>1. PICK w \in Nat : w = node[c].variable + 1
      BY <1>1, NodeFields
    <3>2. node[c].variable \in Int
      BY <1>1, NodeFields
    <3>3. ~(v <= w)
      BY <1>3, <1>5, <2>3, <3>1, <3>2
    <3>4. w \notin T
      BY <1>2, <3>3
    <3> QED
      BY <3>1, <3>4
  <2>5. /\ node2[n].variable = node[n].variable /\ node2[n].thenCase = r
        /\ node2[n].elseCase = e /\ node2[r].variable = node[r].variable
        /\ node2[e].variable = node[e].variable
    BY <2>2 DEF SameFields
  <2>6. LinksDown(node2, node2[n].variable, r) /\ LinksDown(node2, node2[n].variable, e)
    BY <1>1, <2>3, <2>5 DEF LinksDown
  <2>7. G[n] = {x \in B!Assignment : x \in IF x[node[n].variable] = B!BOOL_TRUE
                                           THEN G[r] ELSE G[e]}
    BY <1>4, <1>7, <2>5, <2>6 DEF OneMeaning, Constants
  <2>8. F[n] = {x \in B!Assignment : x \in IF x[node[n].variable] = B!BOOL_TRUE
                                           THEN F[r] ELSE F[e]}
    BY <1>7, <2>2, ReducedMeans
  <2> QED
    BY <1>3, <2>4, <2>7, <2>8
<1> QED
  BY <1>6, <1>7

(* Where nodes are linked does not matter to what they stand for. *)
LEMMA SameReduced ==
  ASSUME NEW node, NEW node2, NEW A, Reduced(node, A),
         \A n \in A : SameFields(node, node2, n)
  PROVE  Reduced(node2, A)
<1>1. Constants \subseteq A /\ A \subseteq Address
  BY DEF Reduced
<1>2. \A c \in Constants : /\ node2[c].variable = -1 /\ node2[c].notCase \in Constants \ {c}
                           /\ node2[c].thenCase = c /\ node2[c].elseCase = c
  BY <1>1 DEF Reduced, SameFields
<1>3. ASSUME NEW n \in A \ Constants PROVE Inner(node2, A, n)
  <2>1. Inner(node, A, n)
    BY DEF Reduced
  <2>2. PICK r \in A, e \in A, not \in A :
          r = node[n].thenCase /\ e = node[n].elseCase /\ not = node[n].notCase
    BY <2>1 DEF Inner
  <2>3. /\ node[n].variable \in B!Var /\ r # e
        /\ node[r].variable < node[n].variable /\ node[e].variable < node[n].variable
        /\ node[not].variable = node[n].variable
        /\ node[not].thenCase = node[r].notCase
        /\ node[not].elseCase = node[e].notCase
        /\ node[not].notCase = n
    BY <2>1, <2>2 DEF Inner, Negated
  <2>4. SameFields(node, node2, n) /\ SameFields(node, node2, r)
        /\ SameFields(node, node2, e) /\ SameFields(node, node2, not)
    OBVIOUS
  <2>5. r = node2[n].thenCase /\ e = node2[n].elseCase /\ not = node2[n].notCase
    BY <2>2, <2>4 DEF SameFields
  <2>6. /\ node2[n].variable \in B!Var /\ r # e
        /\ node2[r].variable < node2[n].variable /\ node2[e].variable < node2[n].variable
        /\ node2[not].variable = node2[n].variable
        /\ node2[not].thenCase = node2[r].notCase
        /\ node2[not].elseCase = node2[e].notCase
        /\ node2[not].notCase = n
    BY <2>3, <2>4 DEF SameFields
  <2> QED
    BY <2>5, <2>6 DEF Inner, Negated
<1>4. ASSUME NEW m \in A \ Constants, NEW n \in A \ Constants, SameKey(node2, m, n)
      PROVE  m = n
  <2>1. SameFields(node, node2, m) /\ SameFields(node, node2, n)
    OBVIOUS
  <2>2. SameKey(node, m, n)
    BY <1>4, <2>1 DEF SameKey, SameFields
  <2> QED
    BY <2>2 DEF Reduced
<1> QED
  BY <1>1, <1>2, <1>3, <1>4 DEF Reduced

(* A variable above that of a node does not matter to its function. *)
LEMMA AboveIndependent ==
  ASSUME NEW node \in Nodes, NEW A, Reduced(node, A), NEW F, IsMeaning(node, F),
         NEW n \in A, NEW w \in B!Var, node[n].variable < w,
         NEW m \in B!Assignment, NEW b \in B!Value
  PROVE  m \in F[n] <=> [m EXCEPT ![w] = b] \in F[n]
<1> DEFINE m2 == [m EXCEPT ![w] = b]
           T == {v \in Nat : \E k \in A : /\ v = node[k].variable + 1
                                          /\ node[k].variable < w
                                          /\ ~(m \in F[k] <=> m2 \in F[k])}
<1>1. A \subseteq Address
  BY DEF Reduced
<1>2. m2 \in B!Assignment /\ \A u \in B!Var : u # w => m2[u] = m[u]
  BY DEF B!Assignment
<1> HIDE DEF m2
<1> SUFFICES ASSUME T # {} PROVE FALSE
  <2>1. node[n].variable + 1 \in Nat
    BY <1>1, NodeFields
  <2> QED
    BY <2>1 DEF m2
<1>3. PICK v \in T : \A u \in T : v <= u
  <2>1. T \subseteq Nat
    OBVIOUS
  <2> HIDE DEF T
  <2> QED
    BY <2>1, LeastNumber
<1>4. PICK k \in A : /\ v = node[k].variable + 1 /\ node[k].variable < w
                     /\ ~(m \in F[k] <=> m2 \in F[k])
  BY <1>3
<1>5. node[k].variable \in Int /\ w \in Int
  BY <1>1, NodeFields DEF B!Var
<1>6. CASE k \in Constants
  <2>1. F[k] = B!Assignment \/ F[k] = {}
    BY <1>6, ReducedMeans DEF Constants
  <2> QED
    BY <1>2, <1>4, <2>1
<1>7. CASE k \notin Constants
  <2>1. Inner(node, A, k)
    BY <1>7 DEF Reduced
  <2>2. PICK r \in A, e \in A : r = node[k].thenCase /\ e = node[k].elseCase
    BY <2>1 DEF Inner
  <2>3. node[r].variable < node[k].variable /\ node[e].variable < node[k].variable
        /\ node[k].variable \in B!Var /\ node[k].variable # w
    BY <1>4, <1>5, <2>1, <2>2 DEF Inner
  <2>4. \A c \in {r, e} : m \in F[c] <=> m2 \in F[c]
    <3> SUFFICES ASSUME NEW c \in {r, e} PROVE m \in F[c] <=> m2 \in F[c]
      OBVIOUS
    <3>1. PICK u \in Nat : u = node[c].variable + 1
      BY <1>1, NodeFields
    <3>2. node[c].variable \in Int
      BY <1>1, NodeFields
    <3>3. ~(v <= u) /\ node[c].variable < w
      BY <1>4, <1>5, <2>3, <3>1, <3>2
    <3>4. u \notin T
      BY <1>3, <3>3
    <3> QED
      BY <3>1, <3>3, <3>4
  <2>5. F[k] = {x \in B!Assignment : x \in IF x[node[k].variable] = B!BOOL_TRUE
                                           THEN F[r] ELSE F[e]}
    BY <1>7, <2>2, ReducedMeans
  <2>6. m2[node[k].variable] = m[node[k].variable]
    BY <1>2, <2>3
  <2> QED
    BY <1>2, <1>4, <2>4, <2>5, <2>6
<1> QED
  BY <1>6, <1>7

(* What a node is linked to is its function with its variable set. *)
LEMMA Cofactors ==
  ASSUME NEW node \in Nodes, NEW A, Reduced(node, A), NEW F, IsMeaning(node, F),
         NEW n \in A \ Constants, NEW w, w = node[n].variable, NEW x \in B!Assignment
  PROVE  /\ x \in F[node[n].thenCase] <=> [x EXCEPT ![w] = B!BOOL_TRUE] \in F[n]
         /\ x \in F[node[n].elseCase] <=> [x EXCEPT ![w] = B!BOOL_FALSE] \in F[n]
<1>1. Inner(node, A, n)
  BY DEF Reduced
<1>2. PICK r \in A, e \in A : r = node[n].thenCase /\ e = node[n].elseCase
  BY <1>1 DEF Inner
<1>3. w \in B!Var /\ node[r].variable < w /\ node[e].variable < w
  BY <1>1, <1>2 DEF Inner
<1>4. F[n] = {m \in B!Assignment : m \in IF m[w] = B!BOOL_TRUE THEN F[r] ELSE F[e]}
  BY <1>2, ReducedMeans
<1>5. PICK x1, x0 : x1 = [x EXCEPT ![w] = B!BOOL_TRUE] /\ x0 = [x EXCEPT ![w] = B!BOOL_FALSE]
  OBVIOUS
<1>6. B!BOOL_TRUE \in B!Value /\ B!BOOL_FALSE \in B!Value /\ B!BOOL_TRUE # B!BOOL_FALSE
  BY DEF B!Value, B!BOOL_TRUE, B!BOOL_FALSE
<1>7. /\ x1 \in B!Assignment /\ x1[w] = B!BOOL_TRUE
      /\ x0 \in B!Assignment /\ x0[w] = B!BOOL_FALSE
  BY <1>3, <1>5, <1>6 DEF B!Assignment
<1>8. x \in F[r] <=> x1 \in F[r]
  BY <1>3, <1>5, <1>6, AboveIndependent
<1>9. x \in F[e] <=> x0 \in F[e]
  BY <1>3, <1>5, <1>6, AboveIndependent
<1>10. x1 \in F[n] <=> x1 \in F[r]
  BY <1>4, <1>7
<1>11. x0 \in F[n] <=> x0 \in F[e]
  BY <1>4, <1>6, <1>7
<1> QED
  BY <1>2, <1>5, <1>8, <1>9, <1>10, <1>11

(* notCase is the node of the negation. *)
LEMMA NotMeans ==
  ASSUME NEW node \in Nodes, NEW A, Reduced(node, A), NEW F, IsMeaning(node, F), NEW n \in A
  PROVE  /\ node[n].notCase \in A /\ node[node[n].notCase].notCase = n
         /\ node[n].notCase # n
         /\ F[node[n].notCase] = B!Assignment \ F[n]
<1>1. A \subseteq Address /\ Constants \subseteq A
  BY DEF Reduced
<1>2. \A c \in Constants : /\ node[c].variable = -1 /\ node[c].notCase \in Constants \ {c}
                           /\ node[node[c].notCase].notCase = c
                           /\ F[node[c].notCase] = B!Assignment \ F[c]
  <2>1. F[true_ptr] = B!Assignment /\ F[false_ptr] = {}
    BY ReducedMeans
  <2> QED
    BY <2>1 DEF Reduced, Constants
<1>3. ASSUME NEW k \in A \ Constants
      PROVE  /\ node[k].notCase \in A \ Constants /\ node[node[k].notCase].notCase = k
             /\ Inner(node, A, k)
  <2>1. Inner(node, A, k)
    BY DEF Reduced
  <2>2. node[node[k].notCase].variable \in B!Var /\ -1 \notin B!Var
    BY <2>1 DEF Inner, Negated, B!Var
  <2> QED
    BY <1>2, <2>1, <2>2 DEF Inner, Negated
<1>4. \A k \in A : F[node[k].notCase] = B!Assignment \ F[k]
  <2> DEFINE T == {v \in Nat : \E k \in A : /\ v = node[k].variable + 1
                                            /\ F[node[k].notCase] # B!Assignment \ F[k]}
  <2> SUFFICES ASSUME T # {} PROVE FALSE
    <3>1. \A k \in A : node[k].variable + 1 \in Nat
      BY <1>1, NodeFields
    <3> QED
      BY <3>1
  <2>1. PICK v \in T : \A u \in T : v <= u
    <3>1. T \subseteq Nat
      OBVIOUS
    <3> HIDE DEF T
    <3> QED
      BY <3>1, LeastNumber
  <2>2. PICK k \in A : v = node[k].variable + 1 /\ F[node[k].notCase] # B!Assignment \ F[k]
    BY <2>1
  <2>3. k \notin Constants
    BY <1>2, <2>2
  <2>4. PICK not \in A \ Constants : not = node[k].notCase
    BY <1>3, <2>3
  <2>5. PICK r \in A, e \in A : r = node[k].thenCase /\ e = node[k].elseCase
    BY <1>3, <2>3 DEF Inner
  <2>6. node[r].variable < node[k].variable /\ node[e].variable < node[k].variable
    BY <1>3, <2>3, <2>5 DEF Inner
  <2>7. /\ node[not].variable = node[k].variable
        /\ node[not].thenCase = node[r].notCase /\ node[not].elseCase = node[e].notCase
    BY <1>3, <2>3, <2>4, <2>5 DEF Inner, Negated
  <2>8. \A c \in {r, e} : F[node[c].notCase] = B!Assignment \ F[c]
    <3> SUFFICES ASSUME NEW c \in {r, e} PROVE F[node[c].notCase] = B!Assignment \ F[c]
      OBVIOUS
    <3>1. PICK u \in Nat : u = node[c].variable + 1
      BY <1>1, NodeFields
    <3>2. node[c].variable \in Int /\ node[k].variable \in Int
      BY <1>1, NodeFields
    <3>3. ~(v <= u)
      BY <2>2, <2>6, <3>1, <3>2
    <3>4. u \notin T
      BY <2>1, <3>3
    <3> QED
      BY <3>1, <3>4
  <2>9. F[k] = {x \in B!Assignment : x \in IF x[node[k].variable] = B!BOOL_TRUE
                                           THEN F[r] ELSE F[e]}
    BY <2>3, <2>5, ReducedMeans
  <2>10. F[not] = {x \in B!Assignment : x \in IF x[node[k].variable] = B!BOOL_TRUE
                                              THEN F[node[r].notCase] ELSE F[node[e].notCase]}
    BY <2>7, ReducedMeans
  <2> QED
    BY <2>2, <2>4, <2>8, <2>9, <2>10
<1>5. \E x : x \in B!Assignment
  <2>1. [u \in B!Var |-> B!BOOL_TRUE] \in B!Assignment
    BY DEF B!Assignment, B!Value
  <2> QED
    BY <2>1
<1>6. node[n].notCase # n
  BY <1>4, <1>5
<1>7. node[n].notCase \in A /\ node[node[n].notCase].notCase = n
  <2>1. CASE n \in Constants
    BY <1>1, <1>2, <2>1
  <2>2. CASE n \notin Constants
    BY <1>3, <2>2
  <2> QED
    BY <2>1, <2>2
<1> QED
  BY <1>4, <1>6, <1>7

(* No two nodes in use stand for the same function. *)
LEMMA OneNode ==
  ASSUME NEW node \in Nodes, NEW A, Reduced(node, A), NEW F, IsMeaning(node, F),
         NEW n \in A, NEW m \in A, F[n] = F[m]
  PROVE  n = m
<1> DEFINE T == {v \in Nat : \E k \in A : \E l \in A :
                   /\ v = node[k].variable + 1 /\ node[l].variable <= node[k].variable
                   /\ F[k] = F[l] /\ k # l}
<1>1. A \subseteq Address
  BY DEF Reduced
<1>2. \A k \in A : node[k].variable + 1 \in Nat /\ node[k].variable \in Int
  BY <1>1, NodeFields
<1> SUFFICES ASSUME T # {} PROVE FALSE
  <2>1. node[n].variable <= node[m].variable \/ node[m].variable <= node[n].variable
    BY <1>2
  <2> QED
    BY <1>2, <2>1
<1>3. PICK v \in T : \A u \in T : v <= u
  <2>1. T \subseteq Nat
    OBVIOUS
  <2> HIDE DEF T
  <2> QED
    BY <2>1, LeastNumber
<1>4. PICK k \in A, l \in A : /\ v = node[k].variable + 1 /\ node[l].variable <= node[k].variable
                              /\ F[k] = F[l] /\ k # l
  BY <1>3
<1>5. ASSUME NEW x \in A, NEW y \in A, F[x] = F[y],
             node[x].variable < node[k].variable, node[y].variable < node[k].variable
      PROVE  x = y
  <2> SUFFICES ASSUME x # y PROVE FALSE
    OBVIOUS
  <2>1. \E u \in T : u <= node[k].variable
    <3>1. node[x].variable <= node[y].variable \/ node[y].variable <= node[x].variable
      BY <1>2
    <3>2. CASE node[x].variable <= node[y].variable
      <4>1. node[y].variable + 1 \in T
        BY <1>2, <1>5, <3>2
      <4> QED
        BY <1>2, <1>5, <4>1
    <3>3. CASE node[y].variable <= node[x].variable
      <4>1. node[x].variable + 1 \in T
        BY <1>2, <1>5, <3>3
      <4> QED
        BY <1>2, <1>5, <4>1
    <3> QED
      BY <3>1, <3>2, <3>3
  <2>2. PICK u \in T : u <= node[k].variable
    BY <2>1
  <2>3. v <= u /\ u \in Int
    BY <1>3
  <2> QED
    BY <1>2, <1>4, <2>2, <2>3
<1>6. CASE k \in Constants
  <2>1. l \in Constants
    <3> SUFFICES ASSUME l \notin Constants PROVE FALSE
      OBVIOUS
    <3>1. node[l].variable \in B!Var /\ node[k].variable = -1
      BY <1>6 DEF Reduced, Inner
    <3> QED
      BY <1>4, <3>1 DEF B!Var
  <2>2. [u \in B!Var |-> B!BOOL_TRUE] \in B!Assignment
    BY DEF B!Assignment, B!Value
  <2>3. F[true_ptr] = B!Assignment /\ F[false_ptr] = {}
    BY ReducedMeans
  <2> QED
    BY <1>4, <1>6, <2>1, <2>2, <2>3 DEF Constants
<1>7. CASE k \notin Constants
  <2>1. PICK w : w = node[k].variable
    OBVIOUS
  <2> DEFINE Set(x, b) == [x EXCEPT ![w] = b]
  <2>2. Inner(node, A, k)
    BY <1>7 DEF Reduced
  <2>3. PICK r \in A, e \in A : r = node[k].thenCase /\ e = node[k].elseCase
    BY <2>2 DEF Inner
  <2>4. w \in B!Var /\ node[r].variable < w /\ node[e].variable < w /\ r # e
    BY <2>1, <2>2, <2>3 DEF Inner
  <2>5. ASSUME NEW x \in B!Assignment
        PROVE  /\ x \in F[r] <=> Set(x, B!BOOL_TRUE) \in F[l]
               /\ x \in F[e] <=> Set(x, B!BOOL_FALSE) \in F[l]
    <3>1. k \in A \ Constants
      BY <1>7
    <3>2. /\ x \in F[r] <=> [x EXCEPT ![w] = B!BOOL_TRUE] \in F[k]
          /\ x \in F[e] <=> [x EXCEPT ![w] = B!BOOL_FALSE] \in F[k]
      BY <2>1, <2>3, <3>1, Cofactors
    <3> QED
      BY <1>4, <3>2
  <2>6. F[r] \subseteq B!Assignment /\ F[e] \subseteq B!Assignment
    BY <1>1 DEF IsMeaning
  <2>7. CASE node[l].variable < w
    <3>1. ASSUME NEW x \in B!Assignment PROVE x \in F[r] <=> x \in F[e]
      <4>1. B!BOOL_TRUE \in B!Value /\ B!BOOL_FALSE \in B!Value
        BY DEF B!Value
      <4>2. x \in F[l] <=> Set(x, B!BOOL_TRUE) \in F[l]
        BY <2>4, <2>7, <4>1, AboveIndependent
      <4>3. x \in F[l] <=> Set(x, B!BOOL_FALSE) \in F[l]
        BY <2>4, <2>7, <4>1, AboveIndependent
      <4> QED
        BY <2>5, <4>2, <4>3
    <3>2. F[r] = F[e]
      BY <2>6, <3>1
    <3> QED
      BY <1>5, <2>1, <2>4, <3>2
  <2>8. CASE node[l].variable = w
    <3>1. l \notin Constants
      BY <2>4, <2>8 DEF Reduced, B!Var
    <3>2. Inner(node, A, l)
      BY <3>1 DEF Reduced
    <3>3. PICK r2 \in A, e2 \in A : r2 = node[l].thenCase /\ e2 = node[l].elseCase
      BY <3>2 DEF Inner
    <3>4. node[r2].variable < w /\ node[e2].variable < w
      BY <2>8, <3>2, <3>3 DEF Inner
    <3>5. F[r2] \subseteq B!Assignment /\ F[e2] \subseteq B!Assignment
      BY <1>1 DEF IsMeaning
    <3>6. ASSUME NEW x \in B!Assignment
          PROVE  /\ x \in F[r2] <=> Set(x, B!BOOL_TRUE) \in F[l]
                 /\ x \in F[e2] <=> Set(x, B!BOOL_FALSE) \in F[l]
      <4>1. l \in A \ Constants
        BY <3>1
      <4> QED
        BY <2>8, <3>3, <4>1, Cofactors
    <3>7. F[r2] = F[r] /\ F[e2] = F[e]
      BY <2>5, <2>6, <3>5, <3>6
    <3>8. r2 = r /\ e2 = e
      BY <1>5, <2>1, <2>4, <3>4, <3>7
    <3>9. SameKey(node, k, l)
      BY <2>1, <2>3, <2>8, <3>3, <3>8 DEF SameKey
    <3> QED
      BY <1>4, <1>7, <3>1, <3>9 DEF Reduced
  <2> QED
    BY <1>2, <1>4, <2>1, <2>7, <2>8
<1> QED
  BY <1>6, <1>7

-----------------------------------------------------------------------------
(* find_or_add_node *)

(* Changing places on a chain *)
LEMMA SwapLinked ==
  ASSUME NEW t, NEW live, NEW fr, NEW rank, Linkage(t, live, fr, rank),
         NEW n \in live, NEW before \in live,
         HashOf(t, before) = HashOf(t, n), t.node[before].next = n
  PROVE  /\ \E rank2 : Linkage(Swapped(t, n, before), live, fr, rank2)
         /\ SameMemory(t, Swapped(t, n, before))
         /\ \A m \in Address : SameFields(t.node, Swapped(t, n, before).node, m)
         /\ \A m \in Address : t.node[m].next = NULL /\ m \notin live =>
              Swapped(t, n, before).node[m].next = NULL
<1>1. t \in Table /\ live \subseteq Handed(t) /\ fr \subseteq Handed(t) /\ rank \in Ranks
      /\ live \cap fr = {}
  BY DEF Linkage
<1>2. Handed(t) \subseteq Address /\ n \in Address /\ before \in Address /\ NULL \notin Address
  BY <1>1, HandedIs, AddressFinite
<1>3. PICK t2 : t2 = Swapped(t, n, before)
  OBVIOUS
<1>4. PICK k \in Hash : k = HashOf(t, n)
  BY <1>1, <1>2, HashIs
<1>5. PICK start : start = t.hash_memory[k]
  OBVIOUS
<1>6. PICK S : S = OfHash(t, live, k)
  OBVIOUS
<1>7. IsList(t.node, start, S, rank) /\ S \subseteq live /\ S \subseteq Address
      /\ n \in S /\ before \in S
  BY <1>1, <1>2, <1>4, <1>5, <1>6 DEF Linkage, OfHash
<1>8. PICK node \in Nodes : node = t.node
  BY <1>1 DEF Table
<1>9. t.hash_memory \in [Hash -> Address \cup {NULL}]
  BY <1>1 DEF Table
<1>10. t = [node |-> t.node, bddmemory |-> t.bddmemory, curBDDPos |-> t.curBDDPos,
            hash_memory |-> t.hash_memory, free |-> t.free, free_count |-> t.free_count]
  BY <1>1 DEF Table
<1>11. PICK after : after = node[n].next
  OBVIOUS
<1>12. after \in Address \cup {NULL}
  BY <1>2, <1>11, NodeFields
<1>13. n # before /\ node[before].next = n /\ after # before
  <2>1. rank[before] < rank[n] /\ (after # NULL => rank[n] < rank[after])
    BY <1>2, <1>7, <1>8, <1>11 DEF IsList
  <2>2. rank[before] \in Nat /\ rank[n] \in Nat
    BY <1>1, <1>2 DEF Ranks
  <2> QED
    BY <1>2, <1>8, <2>1, <2>2
<1> DEFINE Pointing == {m \in Address : node[m].next = before /\ m # before}
           atHead == start = before
           node2 == [m \in Address |->
                       CASE m = n      -> [node[m] EXCEPT !.next = before]
                         [] m = before -> [node[m] EXCEPT !.next = after]
                         [] ~atHead /\ m \in Pointing -> [node[m] EXCEPT !.next = n]
                         [] OTHER -> node[m]]
<1>14. /\ t2.node = node2
       /\ t2.hash_memory = [t.hash_memory EXCEPT ![k] = IF atHead THEN n ELSE @]
       /\ SameMemory(t, t2)
       /\ t2 = [node |-> t2.node, bddmemory |-> t2.bddmemory, curBDDPos |-> t2.curBDDPos,
                hash_memory |-> t2.hash_memory, free |-> t2.free, free_count |-> t2.free_count]
  <2>1. t2 = [t EXCEPT !.node = node2,
                       !.hash_memory[k] = IF atHead THEN n ELSE @]
    BY <1>3, <1>4, <1>5, <1>8, <1>11 DEF Swapped
  <2> HIDE DEF node2, atHead, Pointing
  <2> QED
    BY <2>1, <1>10 DEF SameMemory
<1>15. \A m \in Address : node[m] \in Node
  BY DEF Nodes
<1>16. /\ node2[n] = [node[n] EXCEPT !.next = before]
       /\ node2[before] = [node[before] EXCEPT !.next = after]
       /\ \A m \in Address \ {n, before} :
            node2[m] = IF ~atHead /\ node[m].next = before THEN [node[m] EXCEPT !.next = n]
                                                           ELSE node[m]
  <2>1. node2[n] = [node[n] EXCEPT !.next = before]
    BY <1>2, <1>11, <1>13
  <2>2. node2[before] = [node[before] EXCEPT !.next = after]
    BY <1>2, <1>13
  <2>3. ASSUME NEW m \in Address \ {n, before}
        PROVE  node2[m] = IF ~atHead /\ node[m].next = before THEN [node[m] EXCEPT !.next = n]
                                                              ELSE node[m]
    BY <2>3
  <2> QED
    BY <2>1, <2>2, <2>3
<1> HIDE DEF node2
<1>17. \A m \in Address : node2[m] \in Node /\ SameFields(node, node2, m)
  <2> TAKE m \in Address
  <2>1. \A c \in Address \cup {NULL} : \A x \in Node :
          /\ [x EXCEPT !.next = c] \in Node
          /\ [x EXCEPT !.next = c].variable = x.variable
          /\ [x EXCEPT !.next = c].thenCase = x.thenCase
          /\ [x EXCEPT !.next = c].elseCase = x.elseCase
          /\ [x EXCEPT !.next = c].notCase = x.notCase
    BY DEF Node
  <2>2. \/ node2[m] = node[m]
        \/ \E c \in Address \cup {NULL} : node2[m] = [node[m] EXCEPT !.next = c]
    <3> HIDE DEF atHead
    <3>1. CASE m = n
      BY <1>2, <1>16, <3>1
    <3>2. CASE m = before
      BY <1>12, <1>16, <3>2
    <3>3. CASE m \notin {n, before}
      BY <1>2, <1>16, <3>3
    <3> QED
      BY <3>1, <3>2, <3>3
  <2>3. PICK x \in Node : x = node[m]
    BY <1>15
  <2>4. PICK y : y = node2[m]
    OBVIOUS
  <2>5. y = x \/ \E c \in Address \cup {NULL} : y = [x EXCEPT !.next = c]
    BY <2>2, <2>3, <2>4
  <2>6. y \in Node /\ y.variable = x.variable /\ y.notCase = x.notCase
        /\ y.thenCase = x.thenCase /\ y.elseCase = x.elseCase
    <3>1. CASE y = x
      BY <3>1
    <3>2. CASE y # x
      <4>1. PICK c \in Address \cup {NULL} : y = [x EXCEPT !.next = c]
        BY <2>5, <3>2
      <4> QED
        BY <2>1, <4>1
    <3> QED
      BY <3>1, <3>2
  <2> QED
    BY <2>3, <2>4, <2>6 DEF SameFields
<1>18. /\ node2[n].next = before /\ node2[before].next = after
       /\ \A m \in Address \ {n, before} :
            node2[m].next = IF ~atHead /\ node[m].next = before THEN n ELSE node[m].next
  <2>1. \A c \in Address \cup {NULL} : \A x \in Node : [x EXCEPT !.next = c].next = c
    BY DEF Node
  <2>2. node2[n].next = before /\ node2[before].next = after
    BY <1>2, <1>12, <1>15, <1>16, <2>1
  <2>3. ASSUME NEW m \in Address \ {n, before}
        PROVE  node2[m].next = IF ~atHead /\ node[m].next = before THEN n ELSE node[m].next
    <3>1. PICK x \in Node : x = node[m]
      BY <1>15
    <3>2. node2[m] = IF ~atHead /\ x.next = before THEN [x EXCEPT !.next = n] ELSE x
      BY <1>16, <3>1
    <3>3. [x EXCEPT !.next = n].next = n
      BY <1>2, <2>1
    <3> QED
      BY <3>1, <3>2, <3>3
  <2> QED
    BY <2>2, <2>3
<1>19. node2 \in Nodes
  <2>1. node2 = [m \in Address |-> node2[m]]
    BY DEF node2
  <2> QED
    BY <1>17, <2>1 DEF Nodes
<1>20. t2 \in Table
  <2>1. t2.hash_memory \in [Hash -> Address \cup {NULL}]
    BY <1>2, <1>9, <1>14
  <2>2. /\ t2.bddmemory \in Seq(Pool) /\ t2.curBDDPos \in 0..PoolSize
        /\ t2.free \in Address \cup {NULL} /\ t2.free_count \in Nat
    BY <1>1, <1>14 DEF Table, SameMemory
  <2> QED
    BY <1>14, <1>19, <2>1, <2>2 DEF Table
<1>21. \A m \in Address : HashOf(t2, m) = HashOf(t, m)
  BY <1>8, <1>14, <1>17, SameHash
<1> DEFINE rank2 == [rank EXCEPT ![n] = rank[before], ![before] = rank[n]]
<1>22. /\ rank2 \in Ranks /\ rank2[n] = rank[before] /\ rank2[before] = rank[n]
       /\ \A m \in Address \ {n, before} : rank2[m] = rank[m]
  BY <1>1, <1>2, <1>13 DEF Ranks
<1> HIDE DEF rank2
<1>23. ASSUME NEW T, T \subseteq Address \ {n, before}, NEW first, IsList(node, first, T, rank)
       PROVE  IsList(node2, first, T, rank2)
  <2>1. ASSUME NEW m \in T PROVE node2[m].next = node[m].next
    <3>1. node[m].next \in T \cup {NULL}
      BY <1>23 DEF IsList
    <3>2. node[m].next # before
      BY <1>2, <1>23, <3>1
    <3> QED
      BY <1>18, <1>23, <3>2
  <2>2. \A l, m \in T : rank[l] < rank[m] => rank2[l] < rank2[m]
    BY <1>22, <1>23
  <2>3. T \subseteq Address
    BY <1>23
  <2> QED
    BY <1>23, <2>1, <2>2, <2>3, SameList
<1>24. ASSUME NEW h \in Hash
       PROVE  IsList(t2.node, t2.hash_memory[h], OfHash(t2, live, h), rank2)
  <2>1. OfHash(t2, live, h) = OfHash(t, live, h)
    BY <1>1, <1>2, <1>21 DEF OfHash
  <2>2. CASE h = k
    <3>1. t2.hash_memory[h] = IF start = before THEN n ELSE start
      BY <1>5, <1>9, <1>14, <2>2
    <3>2. IsList(node, start, S, rank)
      BY <1>7, <1>8
    <3>3. ASSUME NEW m \in S \ {n, before}
          PROVE  node2[m].next = IF node[m].next = before THEN n ELSE node[m].next
      <4>1. atHead => node[m].next # before
        BY <1>2, <3>2 DEF IsList
      <4>2. m \in Address \ {n, before}
        BY <1>7
      <4> QED
        BY <1>18, <4>1, <4>2
    <3>4. \A m \in S \ {n, before} : rank2[m] = rank[m]
      BY <1>7, <1>22
    <3>5. IsList(node2, IF start = before THEN n ELSE start, S, rank2)
      <4>1. node2[n].next = before /\ node2[before].next = node[n].next
        BY <1>11, <1>18
      <4> QED
        BY ONLY <1>1, <1>7, <1>13, <1>22, <3>2, <3>3, <3>4, <4>1, SwapTwo
    <3> QED
      BY <1>6, <1>14, <2>1, <2>2, <3>1, <3>5
  <2>3. CASE h # k
    <3>1. PICK T : T = OfHash(t, live, h)
      OBVIOUS
    <3>2. PICK first : first = t.hash_memory[h]
      OBVIOUS
    <3>3. IsList(node, first, T, rank)
      BY <1>8, <3>1, <3>2 DEF Linkage
    <3>4. T \subseteq Address \ {n, before}
      BY <1>1, <1>2, <1>4, <2>3, <3>1 DEF OfHash
    <3>5. t2.hash_memory[h] = first
      BY <1>9, <1>14, <2>3, <3>2
    <3> QED
      BY <1>14, <1>23, <2>1, <3>1, <3>3, <3>4, <3>5
  <2> QED
    BY <2>2, <2>3
<1>25. IsList(t2.node, t2.free, fr, rank2)
  <2>1. PICK first : first = t.free
    OBVIOUS
  <2>2. IsList(node, first, fr, rank)
    BY <1>8, <2>1 DEF Linkage
  <2>3. fr \subseteq Address \ {n, before}
    BY <1>1, <1>2
  <2> QED
    BY <1>14, <1>23, <2>1, <2>2, <2>3 DEF SameMemory
<1>26. Handed(t2) = Handed(t)
  BY <1>14, SameHanded DEF SameMemory
<1>27. \A m \in fr : t2.node[m].variable = 0
  <2>1. \A m \in fr : t.node[m].variable = 0 /\ m \in Address
    BY <1>1, <1>2 DEF Linkage
  <2> QED
    BY <2>1, <1>8, <1>14, <1>17 DEF SameFields
<1>28. Linkage(t2, live, fr, rank2)
  BY <1>1, <1>14, <1>20, <1>22, <1>24, <1>25, <1>26, <1>27 DEF Linkage, SameMemory
<1>29. \A m \in Address : node[m].next = NULL /\ m \notin live => node2[m].next = NULL
  BY <1>2, <1>7, <1>18
<1> QED
  BY <1>3, <1>8, <1>14, <1>17, <1>28, <1>29

(* The free list and the nodes in use *)
LEMMA AllocatedIs ==
  ASSUME NEW t, t = table, NEW live, NEW fr, NEW rank, Linkage(t, live, fr, rank)
  PROVE  /\ Free = fr /\ Allocated = Handed(t) \ fr
         /\ \A h \in Hash : Chain(h) = OfHash(t, live, h)
<1>1. t \in Table /\ live \subseteq Handed(t) /\ fr \subseteq Handed(t) /\ rank \in Ranks
  BY DEF Linkage
<1>2. Handed(t) \subseteq Address /\ t.node \in Nodes
  BY <1>1, HandedIs DEF Table
<1>3. ASSUME NEW S, S \subseteq Address, NEW start, IsList(t.node, start, S, rank)
      PROVE  Linked(t, start) = S
  BY <1>1, <1>2, <1>3, ListLinks
<1>4. Linked(t, t.free) = fr
  <2>1. IsList(t.node, t.free, fr, rank)
    BY DEF Linkage
  <2> QED
    BY <1>1, <1>2, <1>3, <2>1
<1>5. ASSUME NEW h \in Hash PROVE Linked(t, t.hash_memory[h]) = OfHash(t, live, h)
  <2>1. IsList(t.node, t.hash_memory[h], OfHash(t, live, h), rank)
    BY DEF Linkage
  <2>2. OfHash(t, live, h) \subseteq Address
    BY <1>1, <1>2 DEF OfHash
  <2> QED
    BY <1>3, <2>1, <2>2
<1>6. Free = fr
  BY <1>4 DEF Free
<1>7. Allocated = Handed(t) \ fr
  <2>1. Allocated = Handed(table) \ Free
    BY DEF Allocated, Handed
  <2> QED
    BY <1>6, <2>1
<1>8. \A h \in Hash : Chain(h) = OfHash(t, live, h)
  BY <1>5 DEF Chain
<1> QED
  BY <1>6, <1>7, <1>8

(* What was computed stays right when the nodes in use keep their fields.  *)
LEMMA SameResults ==
  ASSUME NEW node \in Nodes, NEW node2 \in Nodes, NEW A, Reduced(node, A),
         \A n \in A : SameFields(node, node2, n),
         NEW A2, A \subseteq A2, NEW results, ResultsOf(node, A, results)
  PROVE  ResultsOf(node2, A2, results)
<1>1. PICK F : F = MeaningOf(node)
  OBVIOUS
<1>2. PICK G : G = MeaningOf(node2)
  OBVIOUS
<1>3. \A n \in A : F[n] = G[n]
  <2>1. IsMeaning(node, F) /\ IsMeaning(node2, G)
    BY <1>1, <1>2, MeaningOfIs
  <2> QED
    BY <2>1, SameMeanings
<1>4. ASSUME NEW c \in results
      PROVE  {c.x, c.y, c.cached_ite} \subseteq A2 /\ G[c.cached_ite] = Result(G[c.x], G[c.y])
  <2>1. {c.x, c.y, c.cached_ite} \subseteq A /\ F[c.cached_ite] = Result(F[c.x], F[c.y])
    BY <1>1 DEF ResultsOf
  <2>2. F[c.x] = G[c.x] /\ F[c.y] = G[c.y] /\ F[c.cached_ite] = G[c.cached_ite]
    BY <1>3, <2>1
  <2> QED
    BY <2>1, <2>2
<1> QED
  BY <1>2, <1>4 DEF ResultsOf

(* Nodes are linked in another order. *)
LEMMA Relinked ==
  ASSUME NEW t, NEW fs, NEW results, NEW live, NEW fr, NEW rank,
         AtRest(t, fs, results, live, fr, rank),
         NEW t2, NEW rank2, Linkage(t2, live, fr, rank2), SameMemory(t, t2),
         \A m \in Address : SameFields(t.node, t2.node, m),
         \A m \in Address : t.node[m].next = NULL /\ m \notin live => t2.node[m].next = NULL
  PROVE  AtRest(t2, fs, results, live, fr, rank2)
<1>1. PICK A : A = Handed(t) \ fr
  OBVIOUS
<1>2. /\ t \in Table /\ live \subseteq A /\ A \ Constants \subseteq live
      /\ Reduced(t.node, A) /\ fs \subseteq A /\ ResultsOf(t.node, A, results)
      /\ \A c \in Constants \ live : t.node[c].next = NULL
  BY <1>1 DEF AtRest, Linkage
<1>3. Handed(t2) = Handed(t)
  BY SameHanded DEF SameMemory
<1>4. A \subseteq Address /\ Constants \subseteq Address
  BY <1>1, <1>2, HandedIs, AddressFinite
<1>5. PICK node \in Nodes, node2 \in Nodes : node = t.node /\ node2 = t2.node
  BY <1>2 DEF Table, Linkage
<1>6. \A m \in A : SameFields(node, node2, m)
  BY <1>4, <1>5
<1>7. Reduced(node2, A)
  BY <1>2, <1>5, <1>6, SameReduced
<1>8. ResultsOf(node2, A, results)
  BY <1>2, <1>5, <1>6, SameResults
<1>9. \A c \in Constants \ live : t2.node[c].next = NULL
  BY <1>2, <1>4
<1> QED
  BY <1>1, <1>2, <1>3, <1>5, <1>7, <1>8, <1>9 DEF AtRest

(* A node that is found moves up its chain, and all stays as it should be. *)
LEMMA FindNodeRest ==
  ASSUME NEW t, NEW fs, NEW results, NEW live, NEW fr, NEW rank,
         AtRest(t, fs, results, live, fr, rank),
         NEW n \in (Handed(t) \ fr) \ Constants, NEW before \in Handed(t) \ fr,
         HashOf(t, before) = HashOf(t, n), t.node[before].next = n
  PROVE  /\ \E rank2 : AtRest(Swapped(t, n, before), fs, results, live, fr, rank2)
         /\ \A m \in Address : SameFields(t.node, Swapped(t, n, before).node, m)
<1>1. /\ Linkage(t, live, fr, rank) /\ t \in Table
      /\ (Handed(t) \ fr) \ Constants \subseteq live
      /\ \A c \in Constants \ live : t.node[c].next = NULL
  BY DEF AtRest, Linkage
<1>2. n \in live /\ n # NULL
  BY <1>1, HandedIs, AddressFinite
<1>3. before \in live
  BY <1>1, <1>2
<1>4. PICK t2 : t2 = Swapped(t, n, before)
  OBVIOUS
<1>5. /\ \E rank2 : Linkage(t2, live, fr, rank2)
      /\ SameMemory(t, t2)
      /\ \A m \in Address : SameFields(t.node, t2.node, m)
      /\ \A m \in Address : t.node[m].next = NULL /\ m \notin live => t2.node[m].next = NULL
  BY <1>1, <1>2, <1>3, <1>4, SwapLinked
<1>6. PICK rank2 : Linkage(t2, live, fr, rank2)
  BY <1>5
<1>7. AtRest(t2, fs, results, live, fr, rank2)
  BY <1>5, <1>6, Relinked
<1> QED
  BY <1>4, <1>5, <1>7

(* The node of the negation has the same variable, and is a constant only  *)
(* for a constant.                                                         *)
LEMMA NotLevel ==
  ASSUME NEW node \in Nodes, NEW A, Reduced(node, A), NEW n \in A
  PROVE  LET not == node[n].notCase
         IN  /\ not \in A /\ node[not].notCase = n /\ not # n
             /\ node[not].variable = node[n].variable
             /\ n \notin Constants => /\ not \notin Constants
                                      /\ Negated(node, n, not)
<1>1. PICK F : IsMeaning(node, F)
  BY MeaningOfIs
<1>2. PICK not : not = node[n].notCase
  OBVIOUS
<1>3. not \in A /\ node[not].notCase = n /\ not # n
  BY <1>1, <1>2, NotMeans
<1>4. CASE n \in Constants
  BY <1>2, <1>3, <1>4 DEF Reduced
<1>5. CASE n \notin Constants
  <2>1. Inner(node, A, n)
    BY <1>5 DEF Reduced
  <2>2. Negated(node, n, not) /\ node[n].variable \in B!Var
    BY <1>2, <2>1 DEF Inner
  <2>3. node[not].variable = node[n].variable
    BY <2>2 DEF Negated
  <2>4. not \notin Constants
    BY <2>2, <2>3 DEF Reduced, B!Var
  <2> QED
    BY <1>2, <1>3, <2>2, <2>3, <2>4
<1> QED
  BY <1>4, <1>5

HasFields(node, n, v, r, e, not) ==
  /\ node[n].variable = v /\ node[n].thenCase = r /\ node[n].elseCase = e
  /\ node[n].notCase = not

(* A node of a new key comes together with the node of its negation. *)
LEMMA NewReduced ==
  ASSUME NEW node \in Nodes, NEW node2 \in Nodes, NEW A, Reduced(node, A),
         \A m \in A : SameFields(node, node2, m),
         NEW n \in Address \ A, NEW not \in Address \ A, n # not,
         NEW v \in B!Var, NEW r \in A, NEW e \in A, r # e,
         node[r].variable < v, node[e].variable < v,
         \A m \in A \ Constants :
           ~(node[m].variable = v /\ node[m].thenCase = r /\ node[m].elseCase = e),
         HasFields(node2, n, v, r, e, not),
         HasFields(node2, not, v, node[r].notCase, node[e].notCase, n)
  PROVE  Reduced(node2, A \cup {n, not})
<1>1. Reduced(node2, A)
  BY SameReduced
<1>2. Constants \subseteq A /\ A \subseteq Address /\ n \notin Constants /\ not \notin Constants
  BY DEF Reduced
<1>3. PICK r2 \in A, e2 \in A : /\ r2 = node[r].notCase /\ e2 = node[e].notCase
                                /\ node[r2].notCase = r /\ node[e2].notCase = e
                                /\ r2 # r /\ e2 # e
                                /\ node[r2].variable = node[r].variable
                                /\ node[e2].variable = node[e].variable
  BY NotLevel
<1>4. /\ node2[r].notCase = r2 /\ node2[e].notCase = e2
      /\ node2[r2].notCase = r /\ node2[e2].notCase = e
      /\ node2[r].variable < v /\ node2[e].variable < v
      /\ node2[r2].variable < v /\ node2[e2].variable < v
      /\ r2 # e2
  BY <1>3 DEF SameFields
<1>5. Inner(node2, A \cup {n, not}, n)
  BY <1>3, <1>4 DEF HasFields, Inner, Negated
<1>6. Inner(node2, A \cup {n, not}, not)
  BY <1>3, <1>4 DEF HasFields, Inner, Negated
<1>7. ASSUME NEW m \in A \ Constants PROVE Inner(node2, A \cup {n, not}, m)
  <2>1. Inner(node2, A, m)
    BY <1>1 DEF Reduced
  <2> QED
    BY <2>1 DEF Inner
<1>8. ASSUME NEW m \in A \ Constants
      PROVE  ~SameKey(node2, m, n) /\ ~SameKey(node2, m, not)
  <2>1. ~SameKey(node2, m, n)
    <3>1. SameFields(node, node2, m)
      OBVIOUS
    <3> QED
      BY <3>1 DEF SameKey, HasFields, SameFields
  <2>2. ASSUME SameKey(node2, m, not) PROVE FALSE
    <3>1. /\ node[m].variable = v /\ node[m].thenCase = r2 /\ node[m].elseCase = e2
      <4>1. SameFields(node, node2, m)
        OBVIOUS
      <4> QED
        BY <1>3, <2>2, <4>1 DEF SameKey, HasFields, SameFields
    <3>2. PICK k \in A : k = node[m].notCase /\ k \notin Constants /\ Negated(node, m, k)
      BY NotLevel
    <3>3. node[k].variable = v /\ node[k].thenCase = r /\ node[k].elseCase = e
      BY <1>3, <3>1, <3>2 DEF Negated
    <3> QED
      BY <3>2, <3>3
  <2> QED
    BY <2>1, <2>2
<1>9. ~SameKey(node2, n, not)
  BY <1>3 DEF SameKey, HasFields
<1>10. ASSUME NEW l \in (A \cup {n, not}) \ Constants, NEW m \in (A \cup {n, not}) \ Constants,
              SameKey(node2, l, m)
       PROVE  l = m
  <2>1. SameKey(node2, m, l)
    BY <1>10 DEF SameKey
  <2>2. CASE l \in A /\ m \in A
    BY <1>1, <1>10, <2>2 DEF Reduced
  <2>3. CASE l \in A /\ m \in {n, not}
    BY <1>8, <1>10, <2>3
  <2>4. CASE m \in A /\ l \in {n, not}
    BY <1>8, <2>1, <2>4
  <2>5. CASE l \in {n, not} /\ m \in {n, not}
    BY <1>9, <1>10, <2>1, <2>5
  <2> QED
    BY <2>2, <2>3, <2>4, <2>5
<1>11. \A m \in (A \cup {n, not}) \ Constants : Inner(node2, A \cup {n, not}, m)
  BY <1>5, <1>6, <1>7
<1>12. \A c \in Constants : /\ node2[c].variable = -1 /\ node2[c].notCase \in Constants \ {c}
                            /\ node2[c].thenCase = c /\ node2[c].elseCase = c
  BY <1>1 DEF Reduced
<1>13. Constants \subseteq A \cup {n, not} /\ A \cup {n, not} \subseteq Address
  BY <1>2
<1>14. \A l, m \in (A \cup {n, not}) \ Constants : SameKey(node2, l, m) => l = m
  BY <1>10
<1> QED
  BY <1>11, <1>12, <1>13, <1>14 DEF Reduced

(* Only notCase of n is written. *)
SetsNot(t, t2, live, fr, rank, n, m) ==
  /\ Linkage(t2, live, fr, rank) /\ SameMemory(t, t2)
  /\ \A k \in Address \ {n} : t2.node[k] = t.node[k]
  /\ t2.node[n].variable = t.node[n].variable
  /\ t2.node[n].thenCase = t.node[n].thenCase
  /\ t2.node[n].elseCase = t.node[n].elseCase
  /\ t2.node[n].next = t.node[n].next
  /\ t2.node[n].notCase = m

(* The node of the negation is linked to the new one, and put on its       *)
(* chain.                                                                  *)
LEMMA NotLinked ==
  ASSUME NEW t, NEW live, NEW fr, NEW rank, Linkage(t, live, fr, rank),
         NEW n \in Address, NEW m \in Address,
         NEW t2, t2 = [t EXCEPT !.node[n].notCase = m]
  PROVE  SetsNot(t, t2, live, fr, rank, n, m)
<1>1. t \in Table /\ live \subseteq Handed(t) /\ fr \subseteq Handed(t) /\ rank \in Ranks
  BY DEF Linkage
<1>2. Handed(t) \subseteq Address
  BY <1>1, HandedIs
<1>3. PICK node \in Nodes : node = t.node
  BY <1>1 DEF Table
<1>4. t = [node |-> t.node, bddmemory |-> t.bddmemory, curBDDPos |-> t.curBDDPos,
           hash_memory |-> t.hash_memory, free |-> t.free, free_count |-> t.free_count]
  BY <1>1 DEF Table
<1>5. PICK node2 : node2 = t2.node
  OBVIOUS
<1>6. /\ node2 = [node EXCEPT ![n].notCase = m]
      /\ t2.hash_memory = t.hash_memory /\ SameMemory(t, t2)
      /\ t2 = [node |-> node2, bddmemory |-> t.bddmemory, curBDDPos |-> t.curBDDPos,
               hash_memory |-> t.hash_memory, free |-> t.free, free_count |-> t.free_count]
  BY <1>3, <1>4, <1>5 DEF SameMemory
<1>7. PICK x \in Node : x = node[n]
  BY DEF Nodes
<1>8. /\ DOMAIN node2 = Address
      /\ node2[n] = [x EXCEPT !.notCase = m]
      /\ \A k \in Address \ {n} : node2[k] = node[k]
  BY <1>6, <1>7 DEF Nodes
<1>9. /\ [x EXCEPT !.notCase = m] \in Node /\ [x EXCEPT !.notCase = m].notCase = m
      /\ [x EXCEPT !.notCase = m].variable = x.variable
      /\ [x EXCEPT !.notCase = m].thenCase = x.thenCase
      /\ [x EXCEPT !.notCase = m].elseCase = x.elseCase
      /\ [x EXCEPT !.notCase = m].next = x.next
  BY DEF Node
<1>10. /\ node2[n] \in Node /\ node2[n].notCase = m
       /\ node2[n].variable = node[n].variable
       /\ node2[n].thenCase = node[n].thenCase
       /\ node2[n].elseCase = node[n].elseCase
       /\ node2[n].next = node[n].next
  BY <1>7, <1>8, <1>9
<1>11. \A k \in Address : /\ node2[k] \in Node
                          /\ node2[k].variable = node[k].variable
                          /\ node2[k].thenCase = node[k].thenCase
                          /\ node2[k].elseCase = node[k].elseCase
                          /\ node2[k].next = node[k].next
  BY <1>8, <1>10 DEF Nodes
<1>12. node2 \in Nodes
  <2>1. node2 = [k \in Address |-> node2[k]]
    BY <1>6 DEF Nodes
  <2> QED
    BY <1>11, <2>1 DEF Nodes
<1>13. t2 \in Table
  <2>1. /\ t.bddmemory \in Seq(Pool) /\ t.curBDDPos \in 0..PoolSize
        /\ t.hash_memory \in [Hash -> Address \cup {NULL}]
        /\ t.free \in Address \cup {NULL} /\ t.free_count \in Nat
    BY <1>1 DEF Table
  <2> QED
    BY ONLY <1>6, <1>12, <2>1 DEF Table
<1>14. \A k \in Address : HashOf(t2, k) = HashOf(t, k)
  BY <1>3, <1>5, <1>11 DEF HashOf
<1>15. ASSUME NEW S, S \subseteq Address, NEW start, IsList(node, start, S, rank)
       PROVE  IsList(node2, start, S, rank)
  <2>1. \A k \in S : node2[k].next = node[k].next
    BY <1>11, <1>15
  <2>2. \A k, l \in S : rank[k] < rank[l] => rank[k] < rank[l]
    OBVIOUS
  <2> QED
    BY <1>15, <2>1, <2>2, SameList
<1>16. ASSUME NEW h \in Hash
       PROVE  IsList(t2.node, t2.hash_memory[h], OfHash(t2, live, h), rank)
  <2>1. PICK S : S = OfHash(t, live, h)
    OBVIOUS
  <2>2. S = OfHash(t2, live, h) /\ S \subseteq Address
    BY <1>1, <1>2, <1>14, <2>1 DEF OfHash
  <2>3. PICK start : start = t.hash_memory[h]
    OBVIOUS
  <2>4. IsList(node, start, S, rank)
    BY <1>3, <2>1, <2>3 DEF Linkage
  <2>5. IsList(node2, start, S, rank)
    BY <1>15, <2>2, <2>4
  <2>6. t2.node = node2 /\ t2.hash_memory[h] = start /\ OfHash(t2, live, h) = S
    BY <1>5, <1>6, <2>2, <2>3
  <2> QED
    BY <2>5, <2>6
<1>17. IsList(t2.node, t2.free, fr, rank)
  <2>1. PICK start : start = t.free
    OBVIOUS
  <2>2. IsList(node, start, fr, rank)
    BY <1>3, <2>1 DEF Linkage
  <2> QED
    BY <1>1, <1>2, <1>5, <1>6, <1>15, <2>1, <2>2 DEF SameMemory
<1>18. Handed(t2) = Handed(t)
  BY <1>6, SameHanded DEF SameMemory
<1>19. \A k \in fr : t2.node[k].variable = 0
  <2>1. \A k \in fr : t.node[k].variable = 0 /\ k \in Address
    BY <1>1, <1>2 DEF Linkage
  <2> QED
    BY <1>3, <1>5, <1>11, <2>1
<1>20. Linkage(t2, live, fr, rank)
  BY <1>1, <1>6, <1>13, <1>16, <1>17, <1>18, <1>19 DEF Linkage, SameMemory
<1> QED
  BY <1>3, <1>5, <1>6, <1>8, <1>10, <1>20 DEF SetsNot

(* There is a place for two nodes: on the free list, in the last pool, or  *)
(* in the next one.                                                        *)
Room(t, fr, p) ==
  IF Cardinality(fr) + PoolSize - t.curBDDPos >= 2 THEN p = NULL ELSE Unowned(t, p)

(* The new node, the node of its negation, and the rest *)
Added(t, t2, A, A2, n, not, v, r, e) ==
  /\ n \in Address \ A /\ not \in Address \ A /\ n # not
  /\ A2 = A \cup {n, not}
  /\ \A m \in A : SameFields(t.node, t2.node, m)
  /\ HasFields(t2.node, n, v, r, e, not)
  /\ HasFields(t2.node, not, v, t.node[r].notCase, t.node[e].notCase, n)

AddsNode(t, t2, live, fr, v, r, e) ==
  \E n, not, fr2, rank2 :
    /\ Linkage(t2, live \cup {n, not}, fr2, rank2)
    /\ Added(t, t2, Handed(t) \ fr, Handed(t2) \ fr2, n, not, v, r, e)
    /\ \A m \in Address \ live : m \notin {n, not} => t2.node[m].next = t.node[m].next

(* Two nodes are handed out and linked; the nodes in use keep their        *)
(* fields.                                                                 *)
LEMMA AddNodeLinked ==
  ASSUME NEW t, NEW live, NEW fr, NEW rank, Linkage(t, live, fr, rank),
         live \subseteq Handed(t) \ fr,
         NEW v \in B!Var, NEW r \in Handed(t) \ fr, NEW e \in Handed(t) \ fr,
         t.node[r].notCase \in Address, t.node[e].notCase \in Address,
         NEW p, Room(t, fr, p),
         NEW new, new = AllocNode(t, v, r, e, p),
         NEW t2, t2 = alloc_not_node(AtEnd(new.t, new.n), new.n, p)
  PROVE  AddsNode(t, t2, live, fr, v, r, e)
<1>1. t \in Table /\ fr \subseteq Handed(t) /\ Handed(t) # {} /\ live \cap fr = {}
      /\ Handed(t) \subseteq Address
  BY HandedIs DEF Linkage
<1>2. r \in Address /\ e \in Address
  BY <1>1
<1>3. PICK A : A = Handed(t) \ fr
  OBVIOUS
<1>4. PICK n, t1 : n = new.n /\ t1 = new.t
  OBVIOUS
<1>5. fr # {} \/ t.curBDDPos < PoolSize \/ Unowned(t, p)
  <2>1. t.curBDDPos \in 0..PoolSize /\ PoolSize \in Nat
    BY <1>1, BddTableAssumption DEF Table
  <2>2. fr = {} => Cardinality(fr) = 0
    BY FS_EmptySet
  <2> QED
    BY <2>1, <2>2 DEF Room
<1>6. /\ Linkage(t1, live, fr \ {n}, rank)
      /\ n \in Address /\ n \in Handed(t1) /\ Handed(t1) = Handed(t) \cup {n}
      /\ n \notin A
      /\ \A m \in Address \ {n} : t1.node[m] = t.node[m]
      /\ t1.node[n] = NewNode(v, r, e)
      /\ IF fr # {} THEN n \in fr /\ t1.bddmemory = t.bddmemory /\ t1.curBDDPos = t.curBDDPos
         ELSE \/ t1.bddmemory = t.bddmemory /\ t1.curBDDPos = t.curBDDPos + 1
              \/ t1.curBDDPos < PoolSize
  <2>1. n = AllocNode(t, v, r, e, p).n /\ t1 = AllocNode(t, v, r, e, p).t
    BY <1>4
  <2>2. /\ Linkage(t1, live, fr \ {n}, rank)
        /\ n \in Address /\ n \in Handed(t1) /\ Handed(t1) = Handed(t) \cup {n}
        /\ n \notin Handed(t) \ fr
        /\ \A m \in Address \ {n} : t1.node[m] = t.node[m]
        /\ t1.node[n] = NewNode(v, r, e)
        /\ IF fr # {} THEN n \in fr /\ t1.bddmemory = t.bddmemory /\ t1.curBDDPos = t.curBDDPos
           ELSE \/ t1.bddmemory = t.bddmemory /\ t1.curBDDPos = t.curBDDPos + 1
                \/ t1.curBDDPos < PoolSize
    <3>1. Allocs(t, t1, live, fr, rank, v, r, e, n)
      BY <1>1, <1>2, <1>5, <2>1, AllocLinked
    <3> QED
      BY <3>1 DEF Allocs
  <2> QED
    BY <1>3, <2>2
<1>7. /\ NewNode(v, r, e).variable = v /\ NewNode(v, r, e).thenCase = r
      /\ NewNode(v, r, e).elseCase = e /\ NewNode(v, r, e).next = NULL
  BY DEF NewNode, Zeroed
<1>8. PICK t3 : t3 = AtEnd(t1, n)
  OBVIOUS
<1>9. n \notin live /\ n \notin fr \ {n} /\ t1.node[n].next = NULL
  BY <1>3, <1>6, <1>7
<1>10. PICK live1, fr1 : live1 = live \cup {n} /\ fr1 = fr \ {n}
  OBVIOUS
<1>11. /\ \E rank2 : Linkage(t3, live1, fr1, rank2)
       /\ SameMemory(t1, t3)
       /\ \A m \in Address : SameFields(t1.node, t3.node, m)
       /\ \A m \in Address \ live : t3.node[m] = t1.node[m]
  <2>1. Ends(t1, t3, live, fr1, n)
    BY <1>6, <1>8, <1>9, <1>10, EndLinked
  <2> QED
    BY <1>10, <2>1 DEF Ends
<1>12. PICK rank3 : Linkage(t3, live1, fr1, rank3)
  BY <1>11
<1>13. t3.node[n] = NewNode(v, r, e) /\ Handed(t3) = Handed(t) \cup {n}
  BY <1>6, <1>9, <1>11, SameHanded DEF SameMemory
<1>14. r # n /\ e # n /\ t3.node[r].notCase = t.node[r].notCase
       /\ t3.node[e].notCase = t.node[e].notCase
  BY <1>2, <1>3, <1>6, <1>11 DEF SameFields
<1>15. PICK r2 \in Address, e2 \in Address : r2 = t.node[r].notCase /\ e2 = t.node[e].notCase
  OBVIOUS
<1>16. PICK new2 : new2 = AllocNode(t3, v, r2, e2, p)
  OBVIOUS
<1>17. PICK not, t4 : not = new2.n /\ t4 = new2.t
  OBVIOUS
<1>18. fr1 # {} \/ t3.curBDDPos < PoolSize \/ Unowned(t3, p)
  <2>1. t.curBDDPos \in 0..PoolSize /\ PoolSize \in Nat
    BY <1>1, BddTableAssumption DEF Table
  <2>2. t3.bddmemory = t1.bddmemory /\ t3.curBDDPos = t1.curBDDPos
    BY <1>11 DEF SameMemory
  <2>3. CASE fr = {}
    <3>1. Cardinality(fr) = 0
      BY <2>3, FS_EmptySet
    <3>2. t1.curBDDPos < PoolSize \/ (t1.bddmemory = t.bddmemory /\ t1.curBDDPos = t.curBDDPos + 1)
      BY <1>6, <2>3
    <3> QED
      BY <2>1, <2>2, <3>1, <3>2 DEF Room, Unowned
  <2>4. CASE fr # {}
    <3>1. t3.bddmemory = t.bddmemory /\ t3.curBDDPos = t.curBDDPos
      BY <1>6, <2>2, <2>4
    <3>2. ASSUME fr1 = {}, t.curBDDPos = PoolSize PROVE Cardinality(fr) = 1
      <4>1. fr = {n}
        BY <1>10, <2>4, <3>2
      <4> QED
        BY <4>1, FS_Singleton
    <3> QED
      BY <2>1, <3>1, <3>2 DEF Room, Unowned
  <2> QED
    BY <2>3, <2>4
<1>19. /\ Linkage(t4, live1, fr1 \ {not}, rank3)
       /\ not \in Address /\ not \in Handed(t4) /\ Handed(t4) = Handed(t3) \cup {not}
       /\ not \notin Handed(t3) \ fr1
       /\ \A m \in Address \ {not} : t4.node[m] = t3.node[m]
       /\ t4.node[not] = NewNode(v, r2, e2)
  <2>1. Handed(t3) # {}
    BY <1>13
  <2>2. not = AllocNode(t3, v, r2, e2, p).n /\ t4 = AllocNode(t3, v, r2, e2, p).t
    BY <1>16, <1>17
  <2> QED
    <3>1. Allocs(t3, t4, live1, fr1, rank3, v, r2, e2, not)
      BY <1>12, <1>18, <2>1, <2>2, AllocLinked
    <3> QED
      BY <3>1 DEF Allocs
<1>20. n # not /\ not \notin A /\ not \notin live
  BY <1>3, <1>6, <1>10, <1>13, <1>19
<1>21. PICK t5 : t5 = [t4 EXCEPT !.node[n].notCase = not]
  OBVIOUS
<1>22. PICK t6 : t6 = [t5 EXCEPT !.node[not].notCase = n]
  OBVIOUS
<1>23. PICK fr2 : fr2 = fr1 \ {not}
  OBVIOUS
<1>24. /\ Linkage(t5, live1, fr2, rank3) /\ SameMemory(t4, t5)
       /\ \A k \in Address \ {n} : t5.node[k] = t4.node[k]
       /\ t5.node[n].variable = t4.node[n].variable
       /\ t5.node[n].thenCase = t4.node[n].thenCase
       /\ t5.node[n].elseCase = t4.node[n].elseCase
       /\ t5.node[n].next = t4.node[n].next
       /\ t5.node[n].notCase = not
  <2>1. SetsNot(t4, t5, live1, fr2, rank3, n, not)
    BY <1>6, <1>19, <1>21, <1>23, NotLinked
  <2> QED
    BY <2>1 DEF SetsNot
<1>25. /\ Linkage(t6, live1, fr2, rank3) /\ SameMemory(t5, t6)
       /\ \A k \in Address \ {not} : t6.node[k] = t5.node[k]
       /\ t6.node[not].variable = t5.node[not].variable
       /\ t6.node[not].thenCase = t5.node[not].thenCase
       /\ t6.node[not].elseCase = t5.node[not].elseCase
       /\ t6.node[not].notCase = n
  <2>1. SetsNot(t5, t6, live1, fr2, rank3, not, n)
    BY <1>6, <1>19, <1>22, <1>24, NotLinked
  <2> QED
    BY <2>1 DEF SetsNot
<1>26. t2 = AtHead(t6, not)
  <2>1. t2 = AtHead([new2.t EXCEPT !.node[n].notCase = new2.n, !.node[new2.n].notCase = n], new2.n)
    <3>1. /\ t3.node[n].variable = v /\ t3.node[t3.node[n].thenCase].notCase = r2
          /\ t3.node[t3.node[n].elseCase].notCase = e2
      BY <1>7, <1>13, <1>14, <1>15
    <3>2. t2 = alloc_not_node(t3, n, p)
      BY <1>4, <1>8
    <3> QED
      BY <1>16, <3>1, <3>2 DEF alloc_not_node
  <2>2. t6 = [t4 EXCEPT !.node[n].notCase = not, !.node[not].notCase = n]
    BY <1>21, <1>22
  <2> QED
    BY <1>17, <2>1, <2>2
<1>27. Handed(t6) = (Handed(t) \cup {n}) \cup {not}
  BY <1>13, <1>19, <1>24, <1>25, SameHanded DEF SameMemory
<1>28. not \in Handed(t6) /\ not \notin live1 /\ not \notin fr2
  BY <1>10, <1>19, <1>20, <1>23, <1>27
<1>29. PICK rank2 : Linkage(t2, live1 \cup {not}, fr2, rank2)
  BY <1>25, <1>26, <1>28, HeadLinked
<1>30. /\ \A m \in Address : SameFields(t6.node, t2.node, m)
       /\ \A m \in Address \ {not} : t2.node[m] = t6.node[m]
       /\ t2.bddmemory = t6.bddmemory /\ t2.curBDDPos = t6.curBDDPos
  <2>1. t6 \in Table
    BY <1>25 DEF Linkage
  <2>2. not \in Address
    BY <1>19
  <2> QED
    BY ONLY <1>26, <2>1, <2>2, AtHeadIs
<1>31. Handed(t2) \ fr2 = A \cup {n, not}
  <2>1. Handed(t2) = Handed(t6)
    BY <1>30, SameHanded
  <2> QED
    BY <1>1, <1>3, <1>10, <1>23, <1>27, <2>1
<1>32. \A m \in A : SameFields(t.node, t2.node, m)
  <2> TAKE m \in A
  <2>1. m \in Address /\ m # n /\ m # not
    BY <1>1, <1>3, <1>6, <1>20
  <2>2. t2.node[m] = t3.node[m]
    BY <1>19, <1>24, <1>25, <1>30, <2>1
  <2> QED
    BY <1>6, <1>11, <2>1, <2>2 DEF SameFields
<1>33. HasFields(t2.node, n, v, r, e, not)
  <2>1. t2.node[n] = t5.node[n] /\ t4.node[n] = NewNode(v, r, e)
    BY <1>6, <1>13, <1>19, <1>20, <1>25, <1>30
  <2> QED
    BY <1>7, <1>24, <2>1 DEF HasFields
<1>34. HasFields(t2.node, not, v, r2, e2, n)
  <2>1. t5.node[not] = NewNode(v, r2, e2)
    BY <1>19, <1>20, <1>24
  <2>2. /\ t5.node[not].variable = v /\ t5.node[not].thenCase = r2
        /\ t5.node[not].elseCase = e2
    BY <2>1 DEF NewNode, Zeroed
  <2>3. SameFields(t6.node, t2.node, not)
    BY <1>19, <1>30
  <2> QED
    BY <1>25, <2>2, <2>3 DEF HasFields, SameFields
<1>35. \A m \in Address \ live : m \notin {n, not} => t2.node[m].next = t.node[m].next
  <2> TAKE m \in Address \ live
  <2> HAVE m \notin {n, not}
  <2>1. t2.node[m] = t3.node[m]
    BY <1>19, <1>24, <1>25, <1>30
  <2> QED
    BY <1>6, <1>11, <2>1
<1>36. live \cup {n, not} = live1 \cup {not}
  BY <1>10
<1>37. Added(t, t2, A, Handed(t2) \ fr2, n, not, v, r, e)
  BY <1>6, <1>15, <1>19, <1>20, <1>31, <1>32, <1>33, <1>34 DEF Added
<1>38. Linkage(t2, live \cup {n, not}, fr2, rank2)
  BY <1>29, <1>36
<1>39. Added(t, t2, Handed(t) \ fr, Handed(t2) \ fr2, n, not, v, r, e)
  BY <1>3, <1>37
<1> QED
  BY <1>35, <1>38, <1>39 DEF AddsNode

(* After a node was added, the table is as it should be. *)
LEMMA AddNodeRest ==
  ASSUME NEW t, NEW fs, NEW results, NEW live, NEW fr, NEW rank,
         AtRest(t, fs, results, live, fr, rank),
         NEW v \in B!Var, NEW r \in Handed(t) \ fr, NEW e \in Handed(t) \ fr, r # e,
         v > t.node[r].variable, v > t.node[e].variable,
         \A m \in live :
           ~(t.node[m].variable = v /\ t.node[m].thenCase = r /\ t.node[m].elseCase = e),
         NEW p, Room(t, fr, p),
         NEW new, new = AllocNode(t, v, r, e, p),
         NEW t2, t2 = alloc_not_node(AtEnd(new.t, new.n), new.n, p)
  PROVE  /\ \E live2, fr2, rank2 : AtRest(t2, fs, results, live2, fr2, rank2)
         /\ \A m \in Handed(t) \ fr : SameFields(t.node, t2.node, m)
<1>1. PICK A : A = Handed(t) \ fr
  OBVIOUS
<1>2. /\ Linkage(t, live, fr, rank) /\ t \in Table
      /\ live \subseteq A /\ A \ Constants \subseteq live
      /\ Reduced(t.node, A) /\ fs \subseteq A /\ ResultsOf(t.node, A, results)
      /\ \A c \in Constants \ live : t.node[c].next = NULL
  BY <1>1 DEF AtRest, Linkage
<1>3. PICK node \in Nodes : node = t.node
  BY <1>2 DEF Table
<1>4. r \in A /\ e \in A /\ A \subseteq Address /\ Constants \subseteq A
  BY <1>1, <1>2 DEF Reduced
<1>5. node[r].notCase \in Address /\ node[e].notCase \in Address
  <2>1. Reduced(node, A)
    BY <1>2, <1>3
  <2>2. node[r].notCase \in A /\ node[e].notCase \in A
    BY <1>4, <2>1, NotLevel
  <2> QED
    BY <1>4, <2>2
<1>6. PICK n, not, fr2, rank2 :
        /\ Linkage(t2, live \cup {n, not}, fr2, rank2)
        /\ Added(t, t2, Handed(t) \ fr, Handed(t2) \ fr2, n, not, v, r, e)
        /\ \A m \in Address \ live :
             m \notin {n, not} => t2.node[m].next = t.node[m].next
  <2>1. t.node[r].notCase \in Address /\ t.node[e].notCase \in Address /\ live \subseteq Handed(t) \ fr
    BY <1>1, <1>2, <1>3, <1>5
  <2>2. AddsNode(t, t2, live, fr, v, r, e)
    BY <1>2, <2>1, AddNodeLinked
  <2> QED
    BY <2>2 DEF AddsNode
<1>7. PICK A2 : A2 = Handed(t2) \ fr2
  OBVIOUS
<1>8. PICK node2 \in Nodes : node2 = t2.node
  BY <1>6 DEF Linkage, Table
<1>9. /\ n \in Address \ A /\ not \in Address \ A /\ n # not /\ A2 = A \cup {n, not}
      /\ \A m \in A : SameFields(node, node2, m)
      /\ HasFields(node2, n, v, r, e, not)
      /\ HasFields(node2, not, v, node[r].notCase, node[e].notCase, n)
  BY <1>1, <1>3, <1>6, <1>7, <1>8 DEF Added
<1>10. Reduced(node2, A2)
  <2>1. node[r].variable < v /\ node[e].variable < v
    <3>1. node[r].variable \in Int /\ node[e].variable \in Int /\ v \in Int
      BY <1>4, NodeFields DEF B!Var
    <3> QED
      BY <1>3, <3>1
  <2>2. \A m \in A \ Constants :
          ~(node[m].variable = v /\ node[m].thenCase = r /\ node[m].elseCase = e)
    BY <1>2, <1>3
  <2>3. Reduced(node, A)
    BY <1>2, <1>3
  <2> QED
    BY <1>4, <1>9, <2>1, <2>2, <2>3, NewReduced
<1>11. ResultsOf(node2, A2, results)
  <2>1. Reduced(node, A) /\ ResultsOf(node, A, results) /\ A \subseteq A2
    BY <1>2, <1>3, <1>9
  <2> QED
    BY <1>9, <2>1, SameResults
<1>12. PICK live2 : live2 = live \cup {n, not}
  OBVIOUS
<1>13. live2 \subseteq A2 /\ A2 \ Constants \subseteq live2 /\ fs \subseteq A2
  BY <1>2, <1>9, <1>12
<1>14. \A c \in Constants \ live2 : t2.node[c].next = NULL
  BY <1>2, <1>4, <1>6, <1>12
<1>15. AtRest(t2, fs, results, live2, fr2, rank2)
  BY <1>6, <1>7, <1>8, <1>10, <1>11, <1>12, <1>13, <1>14 DEF AtRest
<1> QED
  BY <1>1, <1>3, <1>8, <1>9, <1>15

(* Nodes that are in use are stored as functions and as results. *)
LEMMA SetFunctionRest ==
  ASSUME NEW t, NEW fs, NEW results, NEW live, NEW fr, NEW rank,
         AtRest(t, fs, results, live, fr, rank),
         NEW fs2, fs2 \subseteq fs \cup (Handed(t) \ fr)
  PROVE  AtRest(t, fs2, results, live, fr, rank)
BY DEF AtRest

(* A right result is added to the results of ite. *)
LEMMA AddResultRest ==
  ASSUME NEW t, NEW fs, NEW results, NEW live, NEW fr, NEW rank,
         AtRest(t, fs, results, live, fr, rank),
         NEW x \in Handed(t) \ fr, NEW y \in Handed(t) \ fr, NEW z \in Handed(t) \ fr,
         MeaningOf(t.node)[z] = Result(MeaningOf(t.node)[x], MeaningOf(t.node)[y])
  PROVE  AtRest(t, fs, results \cup {[x |-> x, y |-> y, cached_ite |-> z]}, live, fr, rank)
<1>1. PICK A : A = Handed(t) \ fr
  OBVIOUS
<1>2. ResultsOf(t.node, A, results)
  BY <1>1 DEF AtRest
<1>3. ResultsOf(t.node, A, results \cup {[x |-> x, y |-> y, cached_ite |-> z]})
  BY <1>1, <1>2 DEF ResultsOf
<1> QED
  BY <1>1, <1>3 DEF AtRest

-----------------------------------------------------------------------------
(* bdd_gc *)

Closed(S) == \A n \in S : FlaggedNext(n) \subseteq S

(* No link leads out of the nodes in use. *)
LEMMA LinksStayIn ==
  ASSUME NEW t, t = table, NEW A, Reduced(t.node, A)
  PROVE  Closed(A)
<1>1. ASSUME NEW n \in A
      PROVE  {t.node[n].thenCase, t.node[n].elseCase, t.node[n].notCase} \subseteq A
  <2>1. CASE n \in Constants
    BY <2>1 DEF Reduced
  <2>2. CASE n \notin Constants
    BY <2>2 DEF Reduced, Inner
  <2> QED
    BY <2>1, <2>2
<1> QED
  BY <1>1 DEF Closed, FlaggedNext

(* What bdd_flag_nodes flags are the functions, the constants and all that *)
(* these are linked to.                                                    *)
LEMMA FlaggedIs ==
  ASSUME NEW t, t = table, NEW A, Reduced(t.node, A), NEW fs, fs = functions, fs \subseteq A
  PROVE  Flagged \subseteq A /\ fs \cup Constants \subseteq Flagged /\ Closed(Flagged)
<1> DEFINE N == Cardinality(Address)
           S == SUBSET A
           b == fs \cup Constants
           Add(X) == X \cup UNION {FlaggedNext(n) : n \in X}
           g == [p \in (1..N) \X S |-> Add(p[2])]
<1>1. N \in Nat \ {0} /\ IsFiniteSet(Address)
  BY AddressFinite
<1>2. A \subseteq Address /\ Constants \subseteq A
  BY DEF Reduced
<1>3. \A X \in S : Add(X) \in S
  BY LinksStayIn DEF Closed
<1>4. g \in StepOf(N, S)
  BY <1>3 DEF StepOf
<1>5. PICK f \in [0..N -> S] : f[0] = b /\ \A i \in 1..N : f[i] = g[<<i, f[i - 1]>>]
  <2>1. b \in S /\ N \in Nat
    BY <1>1, <1>2
  <2> HIDE DEF N, S, g, b
  <2>2. PICK f : Iterates(f, N, S, b, g)
    BY <1>4, <2>1, StepFunction
  <2> QED
    BY <2>2 DEF Iterates
<1>6. ASSUME NEW i \in 1..N PROVE f[i] = Add(f[i - 1])
  <2>1. f[i - 1] \in S
    BY <1>1, <1>5
  <2>2. <<i, f[i - 1]>> \in (1..N) \X S
    BY <2>1
  <2> HIDE DEF Add
  <2> QED
    BY <1>5, <2>2
<1> DEFINE Body(upto) == [k \in 0..N |-> IF k = 0 THEN functions \cup Constants ELSE Add(upto[k - 1])]
<1>7. f = Body(f)
  <2> HIDE DEF Add
  <2>1. \A i \in 0..N : f[i] = Body(f)[i]
    BY <1>1, <1>5, <1>6
  <2> QED
    BY <2>1, <1>5
<1>8. PICK upto : upto = CHOOSE u : u = Body(u)
  OBVIOUS
<1>9. Flagged = upto[N]
  BY <1>8 DEF Flagged
<1>10. upto = Body(upto)
  <2> HIDE DEF Body
  <2> QED
    BY <1>7, <1>8
<1>11. upto[0] = b /\ \A i \in 1..N : upto[i] = Add(upto[i - 1])
  <2> HIDE DEF Add
  <2>1. upto[0] = b
    BY <1>1, <1>10
  <2>2. ASSUME NEW i \in 1..N PROVE upto[i] = Add(upto[i - 1])
    <3>1. i \in 0..N /\ i # 0
      BY <1>1
    <3> QED
      BY <3>1, <1>10
  <2> QED
    BY <2>1, <2>2
<1> HIDE DEF N, Add
<1> DEFINE Good(i) == /\ upto[i] \subseteq A /\ b \subseteq upto[i]
                      /\ Closed(upto[i]) \/ Cardinality(upto[i]) >= i + 1
           Bad == {i \in 0..N : ~Good(i)}
<1>12. IsFiniteSet(A) /\ Cardinality(A) <= N
  BY <1>1, <1>2, FS_Subset DEF N
<1>13. Bad = {}
  <2> SUFFICES ASSUME Bad # {} PROVE FALSE
    OBVIOUS
  <2>1. PICK k \in Bad : \A j \in Bad : k <= j
    <3>1. Bad \subseteq Nat
      BY <1>1
    <3> HIDE DEF Bad
    <3> QED
      BY <3>1, LeastNumber
  <2>2. CASE k = 0
    <3>1. b \subseteq A /\ b # {}
      BY <1>2 DEF Constants
    <3>2. IsFiniteSet(b) /\ Cardinality(b) \in Nat /\ Cardinality(b) # 0
      BY <3>1, <1>12, FS_Subset, FS_EmptySet, FS_CardinalityType
    <3>3. Good(0)
      <4> HIDE DEF b
      <4> QED
        BY <1>11, <3>1, <3>2
    <3> QED
      BY <2>1, <2>2, <3>3
  <2>3. CASE k # 0
    <3>1. k \in 1..N /\ k - 1 \in 0..N /\ k - 1 \notin Bad
      BY <1>1, <2>1, <2>3
    <3>2. Good(k - 1)
      BY <3>1
    <3>3. PICK X, Y : X = upto[k - 1] /\ Y = upto[k]
      OBVIOUS
    <3>4. Y = Add(X) /\ X \subseteq A /\ b \subseteq X
          /\ (Closed(X) \/ Cardinality(X) >= (k - 1) + 1)
      BY <1>11, <3>1, <3>2, <3>3
    <3>5. X \subseteq Y /\ Y \subseteq A
      BY <1>3, <3>4 DEF Add
    <3>6. Closed(X) => Y = X
      BY <3>4 DEF Closed, Add
    <3>7. ~Closed(X) => Y # X
      BY <3>4 DEF Closed, Add
    <3>8. IsFiniteSet(Y) /\ Cardinality(Y) \in Nat /\ Cardinality(X) \in Nat
      BY <3>4, <3>5, <1>12, FS_Subset, FS_CardinalityType
    <3>9. ~Closed(X) => Cardinality(X) < Cardinality(Y)
      <4> SUFFICES ASSUME ~Closed(X) PROVE Cardinality(X) < Cardinality(Y)
        OBVIOUS
      <4>1. Cardinality(X) <= Cardinality(Y) /\ (Cardinality(X) = Cardinality(Y) => X = Y)
        BY <3>5, <3>8, FS_Subset
      <4> QED
        BY <3>7, <3>8, <4>1
    <3>10. Closed(Y) \/ Cardinality(Y) >= k + 1
      BY <3>1, <3>4, <3>6, <3>8, <3>9
    <3>11. Good(k)
      BY <3>3, <3>4, <3>5, <3>10
    <3> QED
      BY <2>1, <3>11
  <2> QED
    BY <2>2, <2>3
<1>14. Good(N)
  BY <1>1, <1>13
<1>15. Closed(upto[N])
  <2>1. Cardinality(upto[N]) <= Cardinality(A) /\ Cardinality(upto[N]) \in Nat
        /\ Cardinality(A) \in Nat
    BY <1>12, <1>14, FS_Subset, FS_CardinalityType
  <2> QED
    BY <1>1, <1>12, <1>14, <2>1
<1> QED
  BY <1>9, <1>14, <1>15

(* A set of nodes closed under the links is as the whole was. *)
LEMMA SubReduced ==
  ASSUME NEW node, NEW A, Reduced(node, A), NEW S, S \subseteq A, Constants \subseteq S,
         \A n \in S : {node[n].thenCase, node[n].elseCase, node[n].notCase} \subseteq S
  PROVE  Reduced(node, S)
<1>1. ASSUME NEW n \in S \ Constants PROVE Inner(node, S, n)
  <2>1. Inner(node, A, n)
    BY DEF Reduced
  <2> QED
    BY <2>1 DEF Inner
<1>2. S \subseteq Address
  BY DEF Reduced
<1>3. \A c \in Constants : /\ node[c].variable = -1 /\ node[c].notCase \in Constants \ {c}
                           /\ node[c].thenCase = c /\ node[c].elseCase = c
  BY DEF Reduced
<1>4. \A m, n \in S \ Constants : SameKey(node, m, n) => m = n
  BY DEF Reduced
<1> QED
  BY <1>1, <1>2, <1>3, <1>4 DEF Reduced

GcStarted(t) ==
  [t EXCEPT !.hash_memory = [h \in DOMAIN @ |-> NULL], !.free = NULL, !.free_count = 0]

(* A collection begins: no node is on a chain, none in the free list, and  *)
(* what was flagged is closed under the links.                             *)
LEMMA StartGcCollects ==
  ASSUME NEW t, t = table, NEW fs, fs = functions, NEW results, NEW live, NEW fr, NEW rank,
         AtRest(t, fs, results, live, fr, rank),
         NEW t2, t2 = GcStarted(t),
         NEW sw, sw = [running |-> TRUE, flagged |-> Flagged, i |-> 1, chain_free |-> NULL]
  PROVE  /\ Collecting(t2, fs, sw, rank)
         /\ \A m \in Address : t2.node[m] = t.node[m]
<1>1. PICK A : A = Handed(t) \ fr
  OBVIOUS
<1>2. /\ t \in Table /\ IsInjective(t.bddmemory) /\ rank \in Ranks
      /\ Reduced(t.node, A) /\ fs \subseteq A
  BY <1>1 DEF AtRest, Linkage
<1>3. PICK S : S = Flagged
  OBVIOUS
<1>4. S \subseteq A /\ fs \cup Constants \subseteq S /\ Closed(S)
  BY <1>2, <1>3, FlaggedIs
<1>5. Reduced(t.node, S)
  <2>1. \A n \in S : {t.node[n].thenCase, t.node[n].elseCase, t.node[n].notCase} \subseteq S
    BY <1>4 DEF Closed, FlaggedNext
  <2> QED
    BY <1>2, <1>4, <2>1, SubReduced
<1>6. t = [node |-> t.node, bddmemory |-> t.bddmemory, curBDDPos |-> t.curBDDPos,
           hash_memory |-> t.hash_memory, free |-> t.free, free_count |-> t.free_count]
  BY <1>2 DEF Table
<1>7. t.hash_memory \in [Hash -> Address \cup {NULL}] /\ t.bddmemory \in Seq(Pool)
  BY <1>2 DEF Table
<1>8. PICK chains : chains = [h \in Hash |-> NULL]
  OBVIOUS
<1>9. t2 = [node |-> t.node, bddmemory |-> t.bddmemory, curBDDPos |-> t.curBDDPos,
            hash_memory |-> chains, free |-> NULL, free_count |-> 0]
  <2>1. chains = [h \in DOMAIN t.hash_memory |-> NULL]
    BY <1>7, <1>8
  <2>2. t2 = [t EXCEPT !.hash_memory = chains, !.free = NULL, !.free_count = 0]
    BY <2>1 DEF GcStarted
  <2> QED
    BY <1>6, <2>2
<1>10. /\ t2.node = t.node /\ t2.bddmemory = t.bddmemory /\ t2.curBDDPos = t.curBDDPos
      /\ t2.free = NULL /\ t2.free_count = 0 /\ \A h \in Hash : t2.hash_memory[h] = NULL
  <2>1. /\ t2.node = t.node /\ t2.bddmemory = t.bddmemory /\ t2.curBDDPos = t.curBDDPos
        /\ t2.free = NULL /\ t2.free_count = 0 /\ t2.hash_memory = chains
    BY ONLY <1>9
  <2> QED
    BY <1>8, <2>1
<1>11. t2 \in Table
  <2>1. chains \in [Hash -> Address \cup {NULL}]
    BY <1>8
  <2>2. t.node \in Nodes /\ t.curBDDPos \in 0..PoolSize
    BY <1>2 DEF Table
  <2> QED
    BY <1>7, <1>9, <2>1, <2>2 DEF Table
<1>12. Handed(t2) = Handed(t)
  BY <1>10, SameHanded
<1>13. Before(t2, 1) = {}
  BY DEF Before
<1>14. Linkage(t2, {}, {}, rank)
  <2>1. \A h \in Hash : IsList(t2.node, t2.hash_memory[h], OfHash(t2, {}, h), rank)
    BY <1>10, NoList DEF OfHash
  <2>2. IsList(t2.node, t2.free, {}, rank)
    BY <1>10, NoList
  <2>3. t2.free_count = Cardinality({})
    BY <1>10, FS_EmptySet
  <2> QED
    BY <1>2, <1>10, <1>11, <2>1, <2>2, <2>3 DEF Linkage
<1>15. sw.i \in 1..Len(t2.bddmemory) + 1
  <2>1. Len(t2.bddmemory) \in Nat
    BY <1>7, <1>10
  <2> QED
    BY <2>1
<1>16. sw.flagged = S /\ sw.chain_free = NULL /\ sw.i = 1
  BY <1>3
<1>17. Linkage(t2, sw.flagged \cap Before(t2, sw.i), Before(t2, sw.i) \ sw.flagged, rank)
  BY <1>13, <1>14, <1>16
<1>18. EndsAt(t2.node, Before(t2, sw.i) \ sw.flagged, sw.chain_free)
  BY <1>13, <1>16 DEF EndsAt
<1>19. sw.flagged \subseteq Handed(t2) /\ fs \subseteq sw.flagged /\ Reduced(t2.node, sw.flagged)
  BY <1>1, <1>4, <1>5, <1>10, <1>12, <1>16
<1> QED
  BY <1>10, <1>15, <1>17, <1>18, <1>19 DEF Collecting

(* The collection is over: all nodes were swept. *)
LEMMA EndGcRests ==
  ASSUME NEW t, NEW fs, NEW sw, NEW rank, Collecting(t, fs, sw, rank),
         sw.i > Len(t.bddmemory)
  PROVE  AtRest(t, fs, {}, sw.flagged, Handed(t) \ sw.flagged, rank)
<1>1. PICK i : i = sw.i
  OBVIOUS
<1>2. PICK S : S = sw.flagged
  OBVIOUS
<1>3. /\ i \in 1..Len(t.bddmemory) + 1 /\ Linkage(t, S \cap Before(t, i), Before(t, i) \ S, rank)
      /\ S \subseteq Handed(t) /\ fs \subseteq S /\ Reduced(t.node, S)
  BY <1>1, <1>2 DEF Collecting
<1>4. t \in Table /\ IsInjective(t.bddmemory)
  BY <1>3 DEF Linkage
<1>5. i = Len(t.bddmemory) + 1
  <2>1. Len(t.bddmemory) \in Nat
    BY <1>4 DEF Table
  <2> QED
    BY <1>1, <1>3, <2>1
<1>6. Before(t, i) = Handed(t)
  BY <1>3, <1>4, <1>5, BeforeIs
<1>7. Linkage(t, S, Handed(t) \ S, rank)
  <2>1. S \cap Before(t, i) = S
    BY <1>3, <1>6
  <2> QED
    BY <1>3, <1>6, <2>1
<1>8. Handed(t) \ (Handed(t) \ S) = S
  BY <1>3
<1>9. ResultsOf(t.node, S, {})
  BY DEF ResultsOf
<1>10. Constants \subseteq S
  BY <1>3 DEF Reduced
<1> QED
  BY <1>2, <1>3, <1>7, <1>8, <1>9, <1>10 DEF AtRest

Acc == [t : Table, chain_free : Address \cup {NULL}]

Linking(t, t2, c, n) ==
  /\ t2 \in Table /\ t2.hash_memory = t.hash_memory
  /\ t2.bddmemory = t.bddmemory /\ t2.curBDDPos = t.curBDDPos
  /\ t2.free_count = t.free_count
  /\ t2.free = IF c = NULL THEN n ELSE t.free
  /\ \A m \in Address : SameFields(t.node, t2.node, m)
  /\ \A m \in Address : t2.node[m].next = IF m = c THEN n ELSE t.node[m].next
  /\ \A m \in Address : m # c => t2.node[m] = t.node[m]

(* What writing chain_free does to the table *)
LEMMA LinkIs ==
  ASSUME NEW t \in Table, NEW c \in Address \cup {NULL}, NEW n \in Address \cup {NULL},
         NEW t2, t2 = Link(t, c, n)
  PROVE  Linking(t, t2, c, n)
<1>1. t2 = Link(t, c, n)
  OBVIOUS
<1>2. PICK node \in Nodes : node = t.node
  BY DEF Table
<1>3. t = [node |-> node, bddmemory |-> t.bddmemory, curBDDPos |-> t.curBDDPos,
           hash_memory |-> t.hash_memory, free |-> t.free, free_count |-> t.free_count]
  BY <1>2 DEF Table
<1>4. /\ t.bddmemory \in Seq(Pool) /\ t.curBDDPos \in 0..PoolSize
      /\ t.hash_memory \in [Hash -> Address \cup {NULL}]
      /\ t.free \in Address \cup {NULL} /\ t.free_count \in Nat
  BY DEF Table
<1>5. NULL \notin Address
  BY AddressFinite
<1>6. CASE c = NULL
  <2>1. t2 = [t EXCEPT !.free = n]
    BY <1>1, <1>6 DEF Link
  <2>2. t2 = [node |-> node, bddmemory |-> t.bddmemory, curBDDPos |-> t.curBDDPos,
              hash_memory |-> t.hash_memory, free |-> n, free_count |-> t.free_count]
    BY <1>3, <2>1
  <2>3. t2 \in Table
    BY <1>4, <2>2 DEF Table
  <2>4. /\ t2.node = node /\ t2.hash_memory = t.hash_memory /\ t2.bddmemory = t.bddmemory
        /\ t2.curBDDPos = t.curBDDPos /\ t2.free = n /\ t2.free_count = t.free_count
    BY <2>2
  <2>5. /\ \A m \in Address : SameFields(t.node, t2.node, m)
        /\ \A m \in Address : t2.node[m].next = IF m = c THEN n ELSE t.node[m].next
        /\ \A m \in Address : m # c => t2.node[m] = t.node[m]
    BY <1>2, <1>5, <1>6, <2>4 DEF SameFields
  <2> QED
    BY <1>6, <2>3, <2>4, <2>5 DEF Linking
<1>7. CASE c # NULL
  <2>1. t2 = [t EXCEPT !.node[c].next = n]
    BY <1>1, <1>7 DEF Link
  <2>2. PICK node2 : node2 = [node EXCEPT ![c].next = n]
    OBVIOUS
  <2>3. t2 = [node |-> node2, bddmemory |-> t.bddmemory, curBDDPos |-> t.curBDDPos,
              hash_memory |-> t.hash_memory, free |-> t.free, free_count |-> t.free_count]
    BY <1>2, <1>3, <2>1, <2>2
  <2>4. PICK x \in Node : x = node[c] /\ c \in Address
    BY <1>7 DEF Nodes
  <2>5. node2[c] = [x EXCEPT !.next = n] /\ \A m \in Address \ {c} : node2[m] = node[m]
    BY <2>2, <2>4 DEF Nodes
  <2>6. /\ [x EXCEPT !.next = n] \in Node /\ [x EXCEPT !.next = n].next = n
        /\ [x EXCEPT !.next = n].variable = x.variable
        /\ [x EXCEPT !.next = n].notCase = x.notCase
        /\ [x EXCEPT !.next = n].thenCase = x.thenCase
        /\ [x EXCEPT !.next = n].elseCase = x.elseCase
    BY DEF Node
  <2>7. node2 \in Nodes
    BY <2>2, <2>4, <2>5, <2>6 DEF Nodes
  <2>8. t2 \in Table
    BY <1>4, <2>3, <2>7 DEF Table
  <2>9. /\ t2.node = node2 /\ t2.hash_memory = t.hash_memory /\ t2.bddmemory = t.bddmemory
        /\ t2.curBDDPos = t.curBDDPos /\ t2.free = t.free /\ t2.free_count = t.free_count
    BY <2>3
  <2>10. SameFields(node, node2, c) /\ node2[c].next = n
    BY <2>4, <2>5, <2>6 DEF SameFields
  <2>11. \A m \in Address : SameFields(node, node2, m)
    BY <2>5, <2>10 DEF SameFields
  <2> QED
    BY <1>2, <1>7, <2>5, <2>8, <2>9, <2>10, <2>11 DEF Linking
<1> QED
  BY <1>6, <1>7

(* A node goes to the chain or to the free list. *)
Freed(t, n) == [t EXCEPT !.node[n] = Zeroed, !.free_count = @ + 1]

(* What clearing a node does to the table *)
LEMMA FreedIs ==
  ASSUME NEW t \in Table, NEW n \in Address
  PROVE  LET t2 == Freed(t, n)
         IN  /\ t2 \in Table /\ t2.hash_memory = t.hash_memory
             /\ t2.bddmemory = t.bddmemory /\ t2.curBDDPos = t.curBDDPos
             /\ t2.free = t.free /\ t2.free_count = t.free_count + 1
             /\ t2.node[n] = Zeroed
             /\ \A m \in Address \ {n} : t2.node[m] = t.node[m]
<1>1. PICK t2 : t2 = Freed(t, n)
  OBVIOUS
<1>2. PICK node \in Nodes : node = t.node
  BY DEF Table
<1>3. t = [node |-> node, bddmemory |-> t.bddmemory, curBDDPos |-> t.curBDDPos,
           hash_memory |-> t.hash_memory, free |-> t.free, free_count |-> t.free_count]
  BY <1>2 DEF Table
<1>4. /\ t.bddmemory \in Seq(Pool) /\ t.curBDDPos \in 0..PoolSize
      /\ t.hash_memory \in [Hash -> Address \cup {NULL}]
      /\ t.free \in Address \cup {NULL} /\ t.free_count \in Nat
  BY DEF Table
<1>5. PICK node2 : node2 = [node EXCEPT ![n] = Zeroed]
  OBVIOUS
<1>6. t2 = [node |-> node2, bddmemory |-> t.bddmemory, curBDDPos |-> t.curBDDPos,
            hash_memory |-> t.hash_memory, free |-> t.free, free_count |-> t.free_count + 1]
  BY <1>1, <1>2, <1>3, <1>5 DEF Freed
<1>7. Zeroed \in Node
  <2>1. 0 \in -1..NumVars
    BY BddTableAssumption
  <2> QED
    BY <2>1 DEF Zeroed, Node
<1>8. node2 \in Nodes /\ node2[n] = Zeroed /\ \A m \in Address \ {n} : node2[m] = node[m]
  BY <1>5, <1>7 DEF Nodes
<1>9. t2 \in Table
  BY <1>4, <1>6, <1>8 DEF Table
<1>10. /\ t2.node = node2 /\ t2.hash_memory = t.hash_memory /\ t2.bddmemory = t.bddmemory
       /\ t2.curBDDPos = t.curBDDPos /\ t2.free = t.free /\ t2.free_count = t.free_count + 1
  BY <1>6
<1> QED
  BY <1>1, <1>2, <1>8, <1>9, <1>10

(* What sweeping a node does to the table *)
LEMMA SweepIs ==
  ASSUME NEW acc \in Acc, NEW n \in Address
  PROVE  /\ Sweep(acc, n) \in Acc
         /\ n \in sweep.flagged => Sweep(acc, n).t = AtHead(acc.t, n)
                                   /\ Sweep(acc, n).chain_free = acc.chain_free
         /\ n \notin sweep.flagged => Sweep(acc, n).t = Link(Freed(acc.t, n), acc.chain_free, n)
                                      /\ Sweep(acc, n).chain_free = n
<1>1. acc.t \in Table /\ acc.chain_free \in Address \cup {NULL}
      /\ acc = [t |-> acc.t, chain_free |-> acc.chain_free]
  BY DEF Acc
<1>2. CASE n \in sweep.flagged
  <2>1. Sweep(acc, n) = [t |-> AtHead(acc.t, n), chain_free |-> acc.chain_free]
    BY <1>1, <1>2 DEF Sweep
  <2>2. AtHead(acc.t, n) \in Table
    BY <1>1, AtHeadIs
  <2> QED
    BY <1>1, <1>2, <2>1, <2>2 DEF Acc
<1>3. CASE n \notin sweep.flagged
  <2>1. Sweep(acc, n) = [t |-> Link(Freed(acc.t, n), acc.chain_free, n), chain_free |-> n]
    BY <1>3 DEF Sweep, Freed
  <2>2. Freed(acc.t, n) \in Table
    BY <1>1, FreedIs
  <2>3. Link(Freed(acc.t, n), acc.chain_free, n) \in Table
    <3>1. PICK t2 : t2 = Link(Freed(acc.t, n), acc.chain_free, n)
      OBVIOUS
    <3>2. Linking(Freed(acc.t, n), t2, acc.chain_free, n)
      BY <1>1, <2>2, <3>1, LinkIs
    <3> QED
      BY <3>1, <3>2 DEF Linking
  <2> QED
    BY <1>3, <2>1, <2>3 DEF Acc
<1> QED
  BY <1>2, <1>3

(* A fold over a sequence goes through it from its first element on. *)
LEMMA GreatestNumber ==
  ASSUME NEW N \in Nat, NEW S, S \subseteq 1..N, S # {}
  PROVE  Max(S) \in S /\ \A y \in S : Max(S) >= y
<1> DEFINE T == {d \in Nat : \E x \in S : d = N - x}
<1>1. T # {}
  <2>1. PICK x \in S : TRUE
    OBVIOUS
  <2>2. N - x \in Nat
    BY <2>1
  <2> QED
    BY <2>1, <2>2
<1>2. PICK d \in T : \A k \in T : d <= k
  <2>1. T \subseteq Nat
    OBVIOUS
  <2> HIDE DEF T
  <2> QED
    BY <1>1, <2>1, LeastNumber
<1>3. PICK x \in S : d = N - x
  BY <1>2
<1>4. ASSUME NEW y \in S PROVE x >= y
  <2>1. N - y \in Nat
    OBVIOUS
  <2>2. N - y \in T
    BY <2>1
  <2>3. d <= N - y
    BY <1>2, <2>2
  <2> QED
    BY <1>3, <2>3
<1>5. \E z \in S : \A y \in S : z >= y
  BY <1>4
<1> QED
  BY <1>5 DEF Max

(* The values of the fold, one for each prefix *)
Folded(f, base, s) ==
  /\ f \in [0..Len(s) -> Acc] /\ f[0] = base
  /\ \A i \in 1..Len(s) : f[i] = Sweep(f[i - 1], s[i])
  /\ FoldLeft(Sweep, base, s) = f[Len(s)]

(* FoldLeft of Sweep has a value for each prefix, each the result of       *)
(* sweeping the next node.                                                 *)
LEMMA FoldIs ==
  ASSUME NEW s \in Seq(Address), NEW base \in Acc
  PROVE  \E f : Folded(f, base, s)
<1> DEFINE N == Len(s)
           D == 1..N
           SS == SUBSET D
           M == [SS -> Acc]
           One(g, S) == IF S = {} THEN base ELSE Sweep(g[S \ {Max(S)}], s[Max(S)])
           Body(g) == [S \in SUBSET DOMAIN s |-> One(g, S)]
           none == [S \in SS |-> base]
           step == [p \in (1..N) \X M |-> [S \in SS |-> One(p[2], S)]]
<1>1. N \in Nat /\ DOMAIN s = D /\ \A i \in D : s[i] \in Address
  OBVIOUS
<1>2. ASSUME NEW S \in SS, S # {}
      PROVE  Max(S) \in D /\ S \ {Max(S)} \in SS /\ \A y \in S : Max(S) >= y
  BY <1>1, <1>2, GreatestNumber
<1>3. ASSUME NEW g \in M, NEW S \in SS PROVE One(g, S) \in Acc
  <2>1. CASE S = {}
    BY <2>1
  <2>2. CASE S # {}
    <3>1. Max(S) \in D /\ S \ {Max(S)} \in SS
      BY <1>2, <2>2
    <3>2. PICK a \in Acc, n \in Address : a = g[S \ {Max(S)}] /\ n = s[Max(S)]
      BY <1>1, <3>1
    <3>3. Sweep(a, n) \in Acc
      BY SweepIs
    <3> QED
      BY <2>2, <3>2, <3>3
  <2> QED
    BY <2>1, <2>2
<1>4. \A g, h : \A S \in SS :
        (S # {} => g[S \ {Max(S)}] = h[S \ {Max(S)}]) => One(g, S) = One(h, S)
  OBVIOUS
<1>5. \A g : One(g, {}) = base
  OBVIOUS
<1>6. \A g : \A S : S # {} => One(g, S) = Sweep(g[S \ {Max(S)}], s[Max(S)])
  OBVIOUS
<1> HIDE DEF One, N
<1>7. step \in StepOf(N, M) /\ none \in M
  <2>1. \A g \in M : [S \in SS |-> One(g, S)] \in M
    BY <1>3
  <2> QED
    BY <2>1 DEF StepOf
<1>8. PICK L : Iterates(L, N, M, none, step)
  <2> HIDE DEF M, step, none
  <2> QED
    BY <1>1, <1>7, StepFunction
<1>9. L[0] = none /\ \A k \in 0..N : L[k] \in M
  BY <1>8 DEF Iterates
<1>10. ASSUME NEW k \in 1..N, NEW S \in SS PROVE L[k][S] = One(L[k - 1], S)
  <2>1. k - 1 \in 0..N
    BY <1>1
  <2>2. L[k] = step[<<k, L[k - 1]>>] /\ L[k - 1] \in M
    BY <1>8, <1>9, <2>1 DEF Iterates
  <2>3. L[k] = [X \in SS |-> One(L[k - 1], X)]
    BY <2>2
  <2> QED
    BY <2>3
<1> HIDE DEF M, none, step
<1>11. \A k \in 0..N : L[k][{}] = base
  <2> TAKE k \in 0..N
  <2>1. CASE k = 0
    BY <1>9, <2>1 DEF none
  <2>2. CASE k # 0
    <3>1. k \in 1..N /\ {} \in SS
      BY <2>2
    <3> QED
      BY <1>5, <1>10, <3>1
  <2> QED
    BY <2>1, <2>2
<1>12. ASSUME NEW v \in Nat, NEW S \in SS, S \subseteq 1..v, NEW j \in 0..N - 1, v <= j
       PROVE  L[j][S] = L[j + 1][S]
  <2> DEFINE T == {w \in Nat : \E X \in SS : \E k \in 0..N - 1 :
                     X \subseteq 1..w /\ w <= k /\ L[k][X] # L[k + 1][X]}
  <2> SUFFICES ASSUME T # {} PROVE FALSE
    BY <1>12
  <2>1. PICK w \in T : \A u \in T : w <= u
    <3>1. T \subseteq Nat
      OBVIOUS
    <3> HIDE DEF T
    <3> QED
      BY <3>1, LeastNumber
  <2>2. PICK X \in SS, k \in 0..N - 1 : X \subseteq 1..w /\ w <= k /\ L[k][X] # L[k + 1][X]
    BY <2>1
  <2>3. w \in Nat /\ k \in 0..N /\ k + 1 \in 1..N /\ k + 1 \in 0..N
    BY <1>1, <2>1
  <2>4. X # {}
    BY <1>11, <2>2, <2>3
  <2>5. PICK x : x = Max(X)
    OBVIOUS
  <2>6. x \in D /\ X \ {x} \in SS /\ (\A y \in X : x >= y) /\ x \in X
    BY <1>1, <1>2, <2>4, <2>5, GreatestNumber
  <2>7. w - 1 \in Nat /\ k - 1 \in 0..N - 1 /\ k \in 1..N
    BY <1>1, <2>2, <2>3, <2>6
  <2>8. X \ {x} \subseteq 1..w - 1
    <3> SUFFICES ASSUME NEW y \in X, y # x PROVE y \in 1..w - 1
      OBVIOUS
    <3>1. x \in 1..w /\ y \in 1..w /\ x >= y
      BY <2>2, <2>6
    <3> QED
      BY <2>3, <3>1
  <2>9. L[k - 1][X \ {x}] = L[(k - 1) + 1][X \ {x}]
    <3>1. PICK u \in Nat, l \in 0..N - 1, Y \in SS : u = w - 1 /\ l = k - 1 /\ Y = X \ {x}
      BY <2>6, <2>7
    <3>2. ~(w <= u) /\ u <= l
      BY <2>2, <2>3, <3>1
    <3>3. u \notin T
      BY <2>1, <3>2
    <3>4. Y \subseteq 1..u
      BY <2>8, <3>1
    <3>5. L[l][Y] = L[l + 1][Y]
      BY <3>2, <3>3, <3>4
    <3> QED
      BY <3>1, <3>5
  <2>10. L[k][X] = One(L[k - 1], X) /\ L[k + 1][X] = One(L[k], X)
    BY <1>10, <2>3, <2>7
  <2>11. (k - 1) + 1 = k
    BY <2>3
  <2>12. One(L[k - 1], X) = One(L[k], X)
    <3>1. PICK g, h : g = L[k - 1] /\ h = L[k]
      OBVIOUS
    <3>2. g[X \ {Max(X)}] = h[X \ {Max(X)}]
      BY <2>5, <2>9, <2>11, <3>1
    <3>3. One(g, X) = One(h, X)
      BY <1>4, <3>2
    <3> QED
      BY <3>1, <3>3
  <2> QED
    BY <2>2, <2>10, <2>12
<1>13. PICK F : F = L[N]
  OBVIOUS
<1>14. ASSUME NEW S \in SS PROVE F[S] = One(F, S)
  <2>1. CASE S = {}
    BY <1>1, <1>5, <1>11, <1>13, <2>1
  <2>2. CASE S # {}
    <3>1. PICK x : x = Max(S)
      OBVIOUS
    <3>2. x \in D /\ S \ {x} \in SS /\ \A y \in S : x >= y
      BY <1>2, <2>2, <3>1
    <3>3. N \in 1..N /\ N - 1 \in 0..N - 1 /\ N - 1 \in Nat /\ (N - 1) + 1 = N
      BY <1>1, <3>2
    <3>4. S \ {x} \subseteq 1..N - 1
      <4> SUFFICES ASSUME NEW y \in S, y # x PROVE y \in 1..N - 1
        OBVIOUS
      <4>1. x \in 1..N /\ y \in 1..N /\ x >= y
        BY <3>2
      <4> QED
        BY <1>1, <4>1
    <3>5. L[N - 1][S \ {x}] = F[S \ {x}]
      BY <1>12, <1>13, <3>2, <3>3, <3>4
    <3>6. F[S] = One(L[N - 1], S)
      BY <1>10, <1>13, <3>3
    <3> QED
      BY <1>4, <3>1, <3>5, <3>6
  <2> QED
    BY <2>1, <2>2
<1>15. F = Body(F)
  <2>1. F = [S \in SS |-> F[S]]
    BY <1>1, <1>9, <1>13 DEF M
  <2>2. Body(F) = [S \in SS |-> One(F, S)]
    BY <1>1
  <2> HIDE DEF Body, SS
  <2> QED
    BY <1>14, <2>1, <2>2
<1>16. PICK it : it = CHOOSE g : g = Body(g)
  OBVIOUS
<1>17. it = Body(it)
  <2> HIDE DEF Body
  <2> QED
    BY <1>15, <1>16
<1>18. \A S \in SS : it[S] = One(it, S)
  <2>1. Body(it) = [S \in SS |-> One(it, S)]
    BY <1>1
  <2> HIDE DEF Body, SS
  <2> QED
    BY <1>17, <2>1
<1>19. FoldLeft(Sweep, base, s) = it[DOMAIN s]
  <2>1. it = CHOOSE g : g = [S \in SUBSET DOMAIN s |->
               IF S = {} THEN base ELSE Sweep(g[S \ {Max(S)}], s[Max(S)])]
    BY <1>16 DEF One
  <2> QED
    BY <2>1 DEF FoldLeft, MapThenFoldSet
<1> DEFINE f == [k \in 0..N |-> it[1..k]]
<1>20. ASSUME NEW k \in 1..N PROVE it[1..k] = Sweep(it[1..k - 1], s[k])
  <2>1. 1..k \in SS /\ k \in 1..k /\ \A y \in 1..k : k >= y
    BY <1>1
  <2>2. Max(1..k) = k
    <3>1. Max(1..k) \in 1..k /\ Max(1..k) >= k
      <4>1. k \in Nat /\ 1..k # {}
        BY <2>1
      <4> QED
        BY <2>1, <4>1, GreatestNumber
    <3> QED
      BY <3>1
  <2>3. (1..k) \ {k} = 1..k - 1
    BY <1>1
  <2>4. it[1..k] = One(it, 1..k) /\ 1..k # {}
    BY <1>18, <2>1
  <2> QED
    BY <1>6, <2>2, <2>3, <2>4
<1>21. it[{}] = base /\ 1..0 = {}
  <2>1. {} \in SS
    OBVIOUS
  <2> QED
    BY <1>5, <1>18, <2>1
<1>22. \A k \in 0..N : it[1..k] \in Acc
  <2> DEFINE T == {k \in 0..N : it[1..k] \notin Acc}
  <2> SUFFICES ASSUME T # {} PROVE FALSE
    OBVIOUS
  <2>1. PICK k \in T : \A j \in T : k <= j
    <3>1. T \subseteq Nat
      OBVIOUS
    <3> HIDE DEF T
    <3> QED
      BY <3>1, LeastNumber
  <2>2. k # 0
    BY <1>21, <2>1
  <2>3. k \in 1..N /\ k - 1 \in 0..N /\ k - 1 \notin T
    BY <1>1, <2>1, <2>2
  <2>4. it[1..k - 1] \in Acc /\ s[k] \in Address
    BY <1>1, <2>3
  <2>5. it[1..k] \in Acc
    BY <1>20, <2>3, <2>4, SweepIs
  <2> QED
    BY <2>1, <2>5
<1>23. f \in [0..N -> Acc] /\ f[0] = base
  BY <1>1, <1>21, <1>22
<1>24. ASSUME NEW i \in 1..N PROVE f[i] = Sweep(f[i - 1], s[i])
  <2>1. i \in 0..N /\ i - 1 \in 0..N
    BY <1>1
  <2> QED
    BY <1>20, <2>1
<1>25. FoldLeft(Sweep, base, s) = f[N]
  BY <1>1, <1>19
<1> QED
  <2> HIDE DEF f
  <2>1. Folded(f, base, s)
    BY <1>23, <1>24, <1>25 DEF Folded, N
  <2> QED
    BY <2>1

(* A node that is not flagged is put behind the free list. *)
LEMMA FreeLinked ==
  ASSUME NEW t, NEW live, NEW fr, NEW rank, Linkage(t, live, fr, rank),
         NEW n \in Handed(t), n \notin live, n \notin fr,
         NEW c, EndsAt(t.node, fr, c), NEW t2, t2 = Link(Freed(t, n), c, n)
  PROVE  /\ \E rank2 : Linkage(t2, live, fr \cup {n}, rank2)
         /\ EndsAt(t2.node, fr \cup {n}, n)
<1>1. t \in Table /\ live \subseteq Handed(t) /\ fr \subseteq Handed(t) /\ rank \in Ranks
      /\ live \cap fr = {} /\ t.free_count = Cardinality(fr)
  BY DEF Linkage
<1>2. n \in Address /\ Handed(t) \subseteq Address /\ fr \subseteq Address /\ NULL \notin Address
      /\ live \subseteq Address
  BY <1>1, HandedIs, AddressFinite
<1>3. c \in fr \cup {NULL} /\ (c = NULL <=> fr = {}) /\ (c # NULL => t.node[c].next = NULL)
  BY <1>2 DEF EndsAt
<1>4. c \in Address \cup {NULL} /\ c # n
  BY <1>2, <1>3
<1>5. PICK t1 : t1 = Freed(t, n)
  OBVIOUS
<1>6. /\ t1 \in Table /\ t1.hash_memory = t.hash_memory
      /\ t1.bddmemory = t.bddmemory /\ t1.curBDDPos = t.curBDDPos
      /\ t1.free = t.free /\ t1.free_count = t.free_count + 1
      /\ t1.node[n] = Zeroed
      /\ \A m \in Address \ {n} : t1.node[m] = t.node[m]
  BY <1>1, <1>2, <1>5, FreedIs
<1>7. /\ t2 \in Table /\ t2.hash_memory = t1.hash_memory
      /\ t2.bddmemory = t1.bddmemory /\ t2.curBDDPos = t1.curBDDPos
      /\ t2.free_count = t1.free_count
      /\ t2.free = IF c = NULL THEN n ELSE t1.free
      /\ \A m \in Address : SameFields(t1.node, t2.node, m)
      /\ \A m \in Address : t2.node[m].next = IF m = c THEN n ELSE t1.node[m].next
      /\ \A m \in Address : m # c => t2.node[m] = t1.node[m]
  <2>1. t2 = Link(t1, c, n)
    BY <1>5
  <2>2. Linking(t1, t2, c, n)
    BY <1>2, <1>4, <1>6, <2>1, LinkIs
  <2> QED
    BY <2>2 DEF Linking
<1>8. PICK node \in Nodes, node2 \in Nodes : node = t.node /\ node2 = t2.node
  BY <1>1, <1>7 DEF Table
<1>9. /\ \A m \in Address \ {n, c} : node2[m] = node[m]
      /\ node2[n].next = NULL /\ node2[n].variable = 0
      /\ c # NULL => node2[c].next = n /\ node2[c].variable = node[c].variable
  <2>1. \A m \in Address \ {n, c} : node2[m] = node[m]
    BY <1>6, <1>7, <1>8
  <2>2. node2[n] = Zeroed
    BY <1>2, <1>4, <1>6, <1>7, <1>8
  <2>3. c # NULL => node2[c].next = n /\ node2[c].variable = node[c].variable
    BY <1>4, <1>6, <1>7, <1>8 DEF SameFields
  <2> QED
    BY <2>1, <2>2, <2>3 DEF Zeroed
<1>10. PICK rank2 \in Ranks : /\ \A m \in Address \ {n} : rank2[m] = rank[m]
                              /\ c # NULL => rank2[c] < rank2[n]
  <2>1. CASE c = NULL
    BY <1>1, <2>1
  <2>2. CASE c # NULL
    <3>1. PICK rank2 : rank2 = [rank EXCEPT ![n] = rank[c] + 1]
      OBVIOUS
    <3>2. rank2 \in Ranks /\ rank2[c] < rank2[n] /\ \A m \in Address \ {n} : rank2[m] = rank[m]
      BY <1>1, <1>2, <1>4, <2>2, <3>1 DEF Ranks
    <3> QED
      BY <3>2
  <2> QED
    BY <2>1, <2>2
<1>11. \A m \in live : HashOf(t2, m) = HashOf(t, m)
  BY <1>2, <1>1, <1>3, <1>8, <1>9 DEF HashOf
<1>12. ASSUME NEW h \in Hash
       PROVE  IsList(t2.node, t2.hash_memory[h], OfHash(t2, live, h), rank2)
  <2>1. PICK S, start : S = OfHash(t, live, h) /\ start = t.hash_memory[h]
    OBVIOUS
  <2>2. S \subseteq Address \ {n, c} /\ S \subseteq Address
    BY <1>1, <1>2, <1>3, <2>1 DEF OfHash
  <2>3. OfHash(t2, live, h) = S
    BY <1>11, <2>1 DEF OfHash
  <2>4. IsList(node, start, S, rank)
    BY <1>8, <2>1 DEF Linkage
  <2>5. \A m \in S : node2[m].next = node[m].next
    BY <1>9, <2>2
  <2>6. \A l, m \in S : rank[l] < rank[m] => rank2[l] < rank2[m]
    BY <1>10, <2>2
  <2>7. IsList(node2, start, S, rank2)
    BY <2>2, <2>4, <2>5, <2>6, SameList
  <2>8. t2.hash_memory[h] = start /\ t2.node = node2
    BY <1>6, <1>7, <1>8, <2>1
  <2> QED
    BY <2>3, <2>7, <2>8
<1>13. IsList(t2.node, t2.free, fr \cup {n}, rank2)
  <2>1. IsList(node, t.free, fr, rank)
    BY <1>8 DEF Linkage
  <2>2. CASE c = NULL
    <3>1. fr \cup {n} = {n} /\ t2.free = n
      BY <1>3, <1>7, <2>2
    <3>2. IsList(node2, n, {n}, rank2)
      BY <1>9 DEF IsList
    <3> QED
      BY <1>8, <3>1, <3>2
  <2>3. CASE c # NULL
    <3>1. PICK start : start = t.free
      OBVIOUS
    <3>2. t2.free = start /\ c \in fr
      BY <1>3, <1>6, <1>7, <2>3, <3>1
    <3>3. \A m \in fr \ {c} : node2[m].next = node[m].next
      BY <1>2, <1>9
    <3>4. \A l, m \in fr : rank[l] < rank[m] => rank2[l] < rank2[m]
      BY <1>2, <1>10
    <3>5. node2[c].next = n /\ node2[n].next = NULL /\ rank2[c] < rank2[n] /\ node[c].next = NULL
      BY <1>3, <1>8, <1>9, <1>10, <2>3
    <3>6. IsList(node, start, fr, rank)
      BY <2>1, <3>1
    <3>7. IsList(node2, start, fr \cup {n}, rank2)
      BY <1>1, <1>2, <3>2, <3>3, <3>4, <3>5, <3>6, PutLast
    <3> QED
      BY <1>8, <3>2, <3>7
  <2> QED
    BY <2>2, <2>3
<1>14. t2.free_count = Cardinality(fr \cup {n})
  <2>1. IsFiniteSet(fr)
    BY <1>2, AddressFinite, FS_Subset
  <2>2. Cardinality(fr \cup {n}) = Cardinality(fr) + 1
    BY <2>1, FS_AddElement
  <2> QED
    BY <1>1, <1>6, <1>7, <2>2
<1>15. \A m \in fr \cup {n} : t2.node[m].variable = 0
  <2>1. \A m \in fr : node[m].variable = 0
    BY <1>8 DEF Linkage
  <2>2. ASSUME NEW m \in fr PROVE node2[m].variable = 0
    <3>1. m \in Address /\ m # n
      BY <1>2
    <3>2. CASE m = c
      BY <1>2, <1>9, <2>1, <3>1, <3>2
    <3>3. CASE m # c
      BY <1>9, <2>1, <3>1, <3>3
    <3> QED
      BY <3>2, <3>3
  <2> QED
    BY <1>8, <1>9, <2>2
<1>16. Handed(t2) = Handed(t)
  BY <1>6, <1>7, SameHanded
<1>17. Linkage(t2, live, fr \cup {n}, rank2)
  <2>1. /\ IsInjective(t2.bddmemory) /\ fr \cup {n} \subseteq Handed(t2) /\ live \subseteq Handed(t2)
        /\ live \cap (fr \cup {n}) = {}
    BY <1>1, <1>6, <1>7, <1>16 DEF Linkage
  <2> QED
    BY <1>7, <1>10, <1>12, <1>13, <1>14, <1>15, <2>1 DEF Linkage
<1> QED
  BY <1>8, <1>9, <1>17 DEF EndsAt

(* What holds of the swept nodes D while t0 is swept *)
Sweeping(t0, acc, S, D) ==
  /\ acc \in Acc
  /\ acc.t.bddmemory = t0.bddmemory /\ acc.t.curBDDPos = t0.curBDDPos
  /\ \E rank : Linkage(acc.t, S \cap D, D \ S, rank)
  /\ EndsAt(acc.t.node, D \ S, acc.chain_free)
  /\ \A m \in S : SameFields(t0.node, acc.t.node, m)

(* One node more is swept. *)
LEMMA SweepNext ==
  ASSUME NEW t0, NEW acc, NEW S, S = sweep.flagged, S \subseteq Address,
         NEW D, Sweeping(t0, acc, S, D), NEW n \in Handed(t0), n \notin D
  PROVE  Sweeping(t0, Sweep(acc, n), S, D \cup {n})
<1>1. PICK t, c : t = acc.t /\ c = acc.chain_free
  OBVIOUS
<1>2. PICK live, fr, rank : live = S \cap D /\ fr = D \ S /\ Linkage(t, live, fr, rank)
  BY <1>1 DEF Sweeping
<1>3. /\ acc \in Acc /\ t \in Table /\ EndsAt(t.node, fr, c) /\ n \notin live /\ n \notin fr
      /\ t.bddmemory = t0.bddmemory /\ t.curBDDPos = t0.curBDDPos
      /\ \A m \in S : SameFields(t0.node, t.node, m)
  BY <1>1, <1>2 DEF Sweeping, Linkage
<1>4. n \in Handed(t) /\ n \in Address /\ fr \subseteq Address
  <2>1. Handed(t) = Handed(t0)
    BY <1>3, SameHanded
  <2> QED
    BY <1>2, <1>3, <2>1, HandedIs DEF Linkage
<1>5. PICK acc2 : acc2 = Sweep(acc, n)
  OBVIOUS
<1>6. acc2 \in Acc
  BY <1>3, <1>4, <1>5, SweepIs
<1>7. CASE n \in S
  <2>1. acc2.t = AtHead(t, n) /\ acc2.chain_free = c
    BY <1>1, <1>3, <1>4, <1>5, <1>7, SweepIs
  <2>2. PICK rank2 : Linkage(acc2.t, live \cup {n}, fr, rank2)
    BY <1>2, <1>3, <1>4, <2>1, HeadLinked
  <2>3. /\ \A m \in Address : SameFields(t.node, acc2.t.node, m)
        /\ \A m \in Address \ {n} : acc2.t.node[m] = t.node[m]
        /\ acc2.t.bddmemory = t.bddmemory /\ acc2.t.curBDDPos = t.curBDDPos
    <3>1. PICK u : u = AtHead(t, n)
      OBVIOUS
    <3>2. /\ u.bddmemory = t.bddmemory /\ u.curBDDPos = t.curBDDPos
          /\ \A m \in Address : SameFields(t.node, u.node, m)
          /\ \A m \in Address \ {n} : u.node[m] = t.node[m]
      BY <1>3, <1>4, <3>1, AtHeadIs
    <3> QED
      BY <2>1, <3>1, <3>2
  <2>4. live \cup {n} = S \cap (D \cup {n}) /\ fr = (D \cup {n}) \ S
    BY <1>2, <1>7
  <2>5. EndsAt(acc2.t.node, fr, acc2.chain_free)
    <3>1. \A m \in fr : acc2.t.node[m] = t.node[m]
      BY <1>3, <1>4, <2>3
    <3> QED
      BY <1>3, <2>1, <3>1 DEF EndsAt
  <2>6. \A m \in S : SameFields(t0.node, acc2.t.node, m)
    BY <1>3, <2>3 DEF SameFields
  <2>7. \E r : Linkage(acc2.t, S \cap (D \cup {n}), (D \cup {n}) \ S, r)
    BY <2>2, <2>4
  <2>8. EndsAt(acc2.t.node, (D \cup {n}) \ S, acc2.chain_free)
    BY <2>4, <2>5
  <2> QED
    BY <1>3, <1>5, <1>6, <2>3, <2>6, <2>7, <2>8 DEF Sweeping
<1>8. CASE n \notin S
  <2>1. acc2.t = Link(Freed(t, n), c, n) /\ acc2.chain_free = n
    BY <1>1, <1>3, <1>4, <1>5, <1>8, SweepIs
  <2>2. /\ \E rank2 : Linkage(acc2.t, live, fr \cup {n}, rank2)
        /\ EndsAt(acc2.t.node, fr \cup {n}, n)
    BY <1>2, <1>3, <1>4, <2>1, FreeLinked
  <2>3. live = S \cap (D \cup {n}) /\ fr \cup {n} = (D \cup {n}) \ S
    BY <1>2, <1>8
  <2>4. PICK t1 : t1 = Freed(t, n)
    OBVIOUS
  <2>5. /\ t1 \in Table /\ t1.bddmemory = t.bddmemory /\ t1.curBDDPos = t.curBDDPos
        /\ \A m \in Address \ {n} : t1.node[m] = t.node[m]
    BY <1>3, <1>4, <2>4, FreedIs
  <2>6. c \in Address \cup {NULL}
    BY <1>1, <1>3 DEF Acc
  <2>7. /\ acc2.t.bddmemory = t1.bddmemory /\ acc2.t.curBDDPos = t1.curBDDPos
        /\ \A m \in Address : SameFields(t1.node, acc2.t.node, m)
    <3>1. PICK u : u = acc2.t
      OBVIOUS
    <3>2. Linking(t1, u, c, n)
      BY <1>4, <2>1, <2>4, <2>5, <2>6, <3>1, LinkIs
    <3> QED
      BY <3>1, <3>2 DEF Linking
  <2>8. \A m \in S : SameFields(t0.node, acc2.t.node, m)
    BY <1>3, <1>8, <2>5, <2>7 DEF SameFields
  <2>9. \E r : Linkage(acc2.t, S \cap (D \cup {n}), (D \cup {n}) \ S, r)
    BY <2>2, <2>3
  <2>10. EndsAt(acc2.t.node, (D \cup {n}) \ S, acc2.chain_free)
    BY <2>1, <2>2, <2>3
  <2> QED
    BY <1>3, <1>5, <1>6, <2>5, <2>7, <2>8, <2>9, <2>10 DEF Sweeping
<1> QED
  BY <1>7, <1>8

Sweeps == [running : BOOLEAN, flagged : SUBSET Address, i : Nat,
           chain_free : Address \cup {NULL}]

(* The table after each node of pool i, node by node *)
PassOver(t, i, f) ==
  /\ f \in [0..UsedLength(t, i) -> Acc]
  /\ f[0] = [t |-> t, chain_free |-> sweep.chain_free]
  /\ \A j \in 1..UsedLength(t, i) : f[j] = Sweep(f[j - 1], Cell(t.bddmemory[i], j))
  /\ SweptNodes(i) = f[UsedLength(t, i)]

(* A pass over a pool sweeps its nodes one after the other. *)
LEMMA PassIs ==
  ASSUME NEW t \in Table, t = table, NEW i \in DOMAIN t.bddmemory, sweep \in Sweeps
  PROVE  \E f : PassOver(t, i, f)
<1>1. PICK s : s = SubSeq(Memory(t.bddmemory[i]), 1, UsedLength(t, i))
  OBVIOUS
<1>2. PICK N : N = UsedLength(t, i)
  OBVIOUS
<1>3. PICK base : base = [t |-> t, chain_free |-> sweep.chain_free]
  OBVIOUS
<1>4. /\ s \in Seq(Address) /\ Len(s) = N
      /\ \A j \in 1..N : s[j] = Cell(t.bddmemory[i], j)
  BY <1>1, <1>2, UsedIs
<1>5. base \in Acc
  BY <1>3 DEF Acc, Sweeps
<1>6. PICK f : Folded(f, base, s)
  BY <1>4, <1>5, FoldIs
<1>7. SweptNodes(i) = FoldLeft(Sweep, base, s)
  BY <1>1, <1>3 DEF SweptNodes, UsedLength
<1>8. /\ f \in [0..N -> Acc] /\ f[0] = base
      /\ \A j \in 1..N : f[j] = Sweep(f[j - 1], s[j])
      /\ SweptNodes(i) = f[N]
  BY <1>4, <1>6, <1>7 DEF Folded
<1> QED
  BY <1>2, <1>3, <1>4, <1>8 DEF PassOver

(* A pool is swept: its flagged nodes are on their chains, the others at   *)
(* the end of the free list.                                               *)
LEMMA SweepPoolCollects ==
  ASSUME NEW t, t = table, NEW fs, sweep \in Sweeps, NEW rank, Collecting(t, fs, sweep, rank),
         sweep.i <= Len(t.bddmemory), NEW t2, t2 = SweptNodes(sweep.i).t,
         NEW sw, sw = [sweep EXCEPT !.i = @ + 1, !.chain_free = SweptNodes(sweep.i).chain_free]
  PROVE  /\ sw \in Sweeps /\ sw.running = sweep.running
         /\ \E rank2 : Collecting(t2, fs, sw, rank2)
         /\ \A m \in sweep.flagged : SameFields(t.node, t2.node, m)
<1>1. PICK i, S, c : i = sweep.i /\ S = sweep.flagged /\ c = sweep.chain_free
  OBVIOUS
<1>2. /\ i \in 1..Len(t.bddmemory) + 1 /\ i <= Len(t.bddmemory)
      /\ Linkage(t, S \cap Before(t, i), Before(t, i) \ S, rank)
      /\ EndsAt(t.node, Before(t, i) \ S, c)
      /\ S \subseteq Handed(t) /\ Reduced(t.node, S) /\ fs \subseteq S
  BY <1>1 DEF Collecting
<1>3. t \in Table /\ IsInjective(t.bddmemory)
  BY <1>2 DEF Linkage
<1>4. /\ i \in DOMAIN t.bddmemory
      /\ Before(t, i) \subseteq Handed(t)
      /\ Before(t, i + 1) = Before(t, i) \cup Used(t, i)
      /\ Before(t, i) \cap Used(t, i) = {}
  BY <1>2, <1>3, BeforeIs
<1>5. PICK N, p : N = UsedLength(t, i) /\ p = t.bddmemory[i]
  OBVIOUS
<1>6. /\ p \in Pool /\ N \in 0..PoolSize
      /\ Used(t, i) = {Cell(p, j) : j \in 1..N} /\ Used(t, i) \subseteq Address
  BY <1>3, <1>4, <1>5, UsedIs
<1>7. PICK f : PassOver(t, i, f)
  BY <1>3, <1>4, PassIs
<1>8. /\ f \in [0..N -> Acc] /\ f[0] = [t |-> t, chain_free |-> c]
      /\ \A j \in 1..N : f[j] = Sweep(f[j - 1], Cell(p, j))
      /\ SweptNodes(i) = f[N]
  BY <1>1, <1>5, <1>7 DEF PassOver
<1> DEFINE D(k) == Before(t, i) \cup {Cell(p, j) : j \in 1..k}
           Bad == {k \in 0..N : ~Sweeping(t, f[k], S, D(k))}
<1>9. N \in Nat /\ PoolSize \in Nat
  BY <1>6, BddTableAssumption
<1>10. Bad = {}
  <2> SUFFICES ASSUME Bad # {} PROVE FALSE
    OBVIOUS
  <2>1. PICK k \in Bad : \A j \in Bad : k <= j
    <3>1. Bad \subseteq Nat
      OBVIOUS
    <3> HIDE DEF Bad
    <3> QED
      BY <3>1, LeastNumber
  <2>2. k # 0
    <3> SUFFICES ASSUME k = 0 PROVE FALSE
      OBVIOUS
    <3>1. D(0) = Before(t, i)
      OBVIOUS
    <3>2. f[0].t = t /\ f[0].chain_free = c /\ f[0] \in Acc
      BY <1>8, <1>9
    <3>3. \A m \in S : SameFields(t.node, t.node, m)
      BY DEF SameFields
    <3>4. Sweeping(t, f[0], S, Before(t, i))
      BY <1>2, <3>2, <3>3 DEF Sweeping
    <3> QED
      BY <2>1, <3>1, <3>4
  <2>3. k \in 1..N /\ k - 1 \in 0..N /\ k - 1 \notin Bad
    <3>1. k \in 0..N
      BY <2>1
    <3>2. k \in 1..N /\ k - 1 \in 0..N /\ ~(k <= k - 1)
      BY <1>9, <2>2, <3>1
    <3> HIDE DEF Bad
    <3> QED
      BY <2>1, <3>2
  <2>4. PICK acc, E, n : acc = f[k - 1] /\ E = D(k - 1) /\ n = Cell(p, k)
    OBVIOUS
  <2>5. Sweeping(t, acc, S, E)
    BY <2>3, <2>4
  <2>6. n \in Used(t, i)
    BY <1>6, <2>3, <2>4
  <2>7. n \in Handed(t)
    BY <1>4, <2>6 DEF Handed
  <2>8. n \notin E
    <3>1. n \notin Before(t, i)
      BY <1>4, <2>6
    <3>2. ASSUME NEW j \in 1..k - 1, n = Cell(p, j) PROVE FALSE
      <4>1. j \in 1..PoolSize /\ k \in 1..PoolSize /\ j # k
        BY <1>6, <1>9, <2>3
      <4> QED
        BY <1>6, <2>4, <3>2, <4>1, CellOnce
    <3> QED
      BY <2>4, <3>1, <3>2
  <2>9. S \subseteq Address
    BY <1>2 DEF Reduced
  <2>10. Sweeping(t, Sweep(acc, n), S, E \cup {n})
    BY <1>1, <2>5, <2>7, <2>8, <2>9, SweepNext
  <2>11. E \cup {n} = D(k)
    <3>1. \A j : j \in 1..k <=> j \in 1..k - 1 \/ j = k
      BY <1>9, <2>3
    <3> QED
      BY <2>4, <3>1
  <2>12. f[k] = Sweep(acc, n)
    BY <1>8, <2>3, <2>4
  <2> QED
    BY <2>1, <2>10, <2>11, <2>12
<1>11. D(N) = Before(t, i + 1)
  BY <1>4, <1>6
<1>12. PICK acc : acc = f[N]
  OBVIOUS
<1>13. Sweeping(t, acc, S, Before(t, i + 1))
  <2>1. N \in 0..N
    BY <1>9
  <2> QED
    BY <1>10, <1>11, <1>12, <2>1
<1>14. /\ t2 = acc.t /\ acc \in Acc /\ acc.chain_free \in Address \cup {NULL} /\ t2 \in Table
       /\ sw = [sweep EXCEPT !.i = @ + 1, !.chain_free = acc.chain_free]
  BY <1>1, <1>8, <1>12, <1>13 DEF Sweeping, Acc
<1>15. /\ sw \in Sweeps /\ sw.running = sweep.running
       /\ sw.i = i + 1 /\ sw.flagged = S /\ sw.chain_free = acc.chain_free
  <2>1. PICK x, k : x = acc.chain_free /\ k = sweep.i + 1 /\ k \in Nat
    BY DEF Sweeps
  <2>2. sw = [sweep EXCEPT !.i = k, !.chain_free = x] /\ x \in Address \cup {NULL}
    BY <1>14, <2>1
  <2>3. sw = [running |-> sweep.running, flagged |-> sweep.flagged, i |-> k, chain_free |-> x]
    BY <2>2 DEF Sweeps
  <2> QED
    BY <1>1, <2>1, <2>2, <2>3 DEF Sweeps
<1>16. PICK rank2 : Linkage(t2, S \cap Before(t, i + 1), Before(t, i + 1) \ S, rank2)
  BY <1>13, <1>14 DEF Sweeping
<1>17. /\ t2.bddmemory = t.bddmemory /\ t2.curBDDPos = t.curBDDPos
       /\ EndsAt(t2.node, Before(t, i + 1) \ S, acc.chain_free)
       /\ \A m \in S : SameFields(t.node, t2.node, m)
  BY <1>13, <1>14 DEF Sweeping
<1>18. Before(t2, i + 1) = Before(t, i + 1) /\ Handed(t2) = Handed(t)
  BY <1>17, SameHanded DEF Before, Used
<1>19. Reduced(t2.node, S)
  BY <1>2, <1>17, SameReduced
<1>20. i + 1 \in 1..Len(t2.bddmemory) + 1
  <2>1. Len(t.bddmemory) \in Nat
    BY <1>3 DEF Table
  <2> QED
    BY <1>2, <1>17, <2>1
<1>21. Collecting(t2, fs, sw, rank2)
  BY <1>2, <1>15, <1>16, <1>17, <1>18, <1>19, <1>20 DEF Collecting
<1> QED
  BY <1>1, <1>15, <1>17, <1>21

(* The cells P of a pool without a flagged node are all in the free list,  *)
(* behind c; nothing else changed.                                         *)
Dropping(t, acc, P, c, k) ==
  /\ acc \in Acc
  /\ acc.t.hash_memory = t.hash_memory
  /\ acc.t.bddmemory = t.bddmemory /\ acc.t.curBDDPos = t.curBDDPos
  /\ acc.t.free_count = t.free_count + k
  /\ c # NULL => acc.t.free = t.free
  /\ \A m \in Address \ P : /\ SameFields(t.node, acc.t.node, m)
                            /\ m # c => acc.t.node[m].next = t.node[m].next
  /\ acc.chain_free \in P \cup {c}

(* One node more of a pool without flagged nodes is swept. *)
LEMMA DropNext ==
  ASSUME NEW t \in Table, NEW acc, NEW P, P \subseteq Address, NEW c, NEW k \in Nat,
         Dropping(t, acc, P, c, k),
         NEW n \in Address, n \notin sweep.flagged, n # c, n \notin P
  PROVE  Dropping(t, Sweep(acc, n), P \cup {n}, c, k + 1)
<1>1. PICK u, cf : u = acc.t /\ cf = acc.chain_free
  OBVIOUS
<1>2. /\ acc \in Acc /\ u \in Table /\ cf \in Address \cup {NULL} /\ cf \in P \cup {c}
      /\ u.hash_memory = t.hash_memory /\ u.bddmemory = t.bddmemory
      /\ u.curBDDPos = t.curBDDPos /\ u.free_count = t.free_count + k
      /\ c # NULL => u.free = t.free
      /\ \A m \in Address \ P : /\ SameFields(t.node, u.node, m)
                                /\ m # c => u.node[m].next = t.node[m].next
  BY <1>1 DEF Dropping, Acc
<1>3. PICK acc2 : acc2 = Sweep(acc, n)
  OBVIOUS
<1>4. PICK u1 : u1 = Freed(u, n)
  OBVIOUS
<1>5. PICK u2 : u2 = Link(u1, cf, n)
  OBVIOUS
<1>6. acc2 \in Acc /\ acc2.t = u2 /\ acc2.chain_free = n
  BY <1>1, <1>2, <1>3, <1>4, <1>5, SweepIs
<1>7. /\ u1 \in Table /\ u1.hash_memory = u.hash_memory
      /\ u1.bddmemory = u.bddmemory /\ u1.curBDDPos = u.curBDDPos
      /\ u1.free = u.free /\ u1.free_count = u.free_count + 1
      /\ \A m \in Address \ {n} : u1.node[m] = u.node[m]
  BY <1>2, <1>4, FreedIs
<1>8. Linking(u1, u2, cf, n)
  BY <1>2, <1>5, <1>7, LinkIs
<1>9. /\ u2.hash_memory = u1.hash_memory
      /\ u2.bddmemory = u1.bddmemory /\ u2.curBDDPos = u1.curBDDPos
      /\ u2.free_count = u1.free_count
      /\ u2.free = IF cf = NULL THEN n ELSE u1.free
      /\ \A m \in Address : SameFields(u1.node, u2.node, m)
      /\ \A m \in Address : m # cf => u2.node[m] = u1.node[m]
  BY <1>8 DEF Linking
<1>10. u2.free_count = t.free_count + (k + 1)
  <2>1. t.free_count \in Nat
    BY DEF Table
  <2> QED
    BY <1>2, <1>7, <1>9, <2>1
<1>11. c # NULL => u2.free = t.free
  <2>1. c # NULL => cf # NULL
    BY <1>2, AddressFinite
  <2> QED
    BY <1>2, <1>7, <1>9, <2>1
<1>12. ASSUME NEW m \in Address \ (P \cup {n})
       PROVE  /\ SameFields(t.node, u2.node, m)
              /\ m # c => u2.node[m].next = t.node[m].next
  <2>1. m \in Address /\ m \in Address \ P /\ m \in Address \ {n}
    OBVIOUS
  <2>2. SameFields(t.node, u.node, m) /\ u1.node[m] = u.node[m] /\ SameFields(u1.node, u2.node, m)
    BY <1>2, <1>7, <1>9, <2>1
  <2>3. SameFields(t.node, u2.node, m)
    BY <2>2 DEF SameFields
  <2>4. ASSUME m # c PROVE u2.node[m].next = t.node[m].next
    <3>1. m # cf
      BY <1>2, <2>1, <2>4
    <3> QED
      BY <1>2, <1>9, <2>1, <2>2, <2>4, <3>1
  <2> QED
    BY <2>3, <2>4
<1>13. Dropping(t, acc2, P \cup {n}, c, k + 1)
  BY <1>2, <1>6, <1>7, <1>9, <1>10, <1>11, <1>12 DEF Dropping
<1> QED
  BY <1>3, <1>13

(* The pool is given back, and the rest is as it was. *)
DropsPool(t, t2, i, P) ==
  /\ t2 \in Table /\ t2.hash_memory = t.hash_memory
  /\ t2.bddmemory = RemoveAt(t.bddmemory, i) /\ t2.curBDDPos = t.curBDDPos
  /\ t2.free = t.free /\ t2.free_count = t.free_count
  /\ \A m \in Address \ P : /\ SameFields(t.node, t2.node, m)
                            /\ t2.node[m].next = t.node[m].next

PoolFreed(ended, swept, i, P) ==
  [ended EXCEPT !.bddmemory = RemoveAt(@, i),
                !.node = [n \in Address |-> IF n \in P THEN Zeroed ELSE @[n]],
                !.free_count = CountWithout(swept)]

(* After a pool is given back, chain_free ends the free list where it      *)
(* ended before, and nothing outside the pool has changed.                 *)
LEMMA DropPoolIs ==
  ASSUME NEW t \in Table, t = table, sweep \in Sweeps,
         NEW i \in 1..Len(t.bddmemory), i # Len(t.bddmemory), i = sweep.i,
         NEW P, P = Range(Memory(t.bddmemory[i])), P \cap sweep.flagged = {},
         NEW c, c = sweep.chain_free, c \notin P,
         c = NULL => t.free = NULL, c # NULL => t.node[c].next = NULL,
         NEW swept, swept = SweptNodes(i).t, NEW ended, ended = Link(swept, c, NULL),
         NEW t2, t2 = PoolFreed(ended, swept, i, P)
  PROVE  DropsPool(t, t2, i, P)
<1>1. PoolSize \in Nat /\ t.bddmemory \in Seq(Pool) /\ i \in DOMAIN t.bddmemory
  BY BddTableAssumption DEF Table
<1>2. PICK p : p = t.bddmemory[i]
  OBVIOUS
<1>3. p \in Pool /\ UsedLength(t, i) = PoolSize /\ P = {Cell(p, j) : j \in 1..PoolSize}
  BY <1>1, <1>2, MemoryIs DEF UsedLength
<1>4. P \subseteq Address
  BY <1>3, CellAddress
<1>5. PICK f : PassOver(t, i, f)
  BY <1>1, PassIs
<1>6. /\ f \in [0..PoolSize -> Acc] /\ f[0] = [t |-> t, chain_free |-> c]
      /\ \A j \in 1..PoolSize : f[j] = Sweep(f[j - 1], Cell(p, j))
      /\ SweptNodes(i) = f[PoolSize]
  BY <1>2, <1>3, <1>5 DEF PassOver
<1> DEFINE D(k) == {Cell(p, j) : j \in 1..k}
           Bad == {k \in 0..PoolSize : ~Dropping(t, f[k], D(k), c, k)}
<1>7. Bad = {}
  <2> SUFFICES ASSUME Bad # {} PROVE FALSE
    OBVIOUS
  <2>1. PICK k \in Bad : \A j \in Bad : k <= j
    <3>1. Bad \subseteq Nat
      OBVIOUS
    <3> HIDE DEF Bad
    <3> QED
      BY <3>1, LeastNumber
  <2>2. k # 0
    <3> SUFFICES ASSUME k = 0 PROVE FALSE
      OBVIOUS
    <3>1. D(0) = {}
      OBVIOUS
    <3>2. f[0].t = t /\ f[0].chain_free = c /\ f[0] \in Acc /\ t.free_count + 0 = t.free_count
      BY <1>1, <1>6 DEF Table
    <3>3. \A m \in Address : SameFields(t.node, t.node, m)
      BY DEF SameFields
    <3>4. Dropping(t, f[0], {}, c, 0)
      BY <3>2, <3>3 DEF Dropping
    <3> QED
      BY <2>1, <3>1, <3>4
  <2>3. k \in 1..PoolSize /\ k - 1 \in 0..PoolSize /\ k - 1 \notin Bad
    <3>1. k \in 0..PoolSize
      BY <2>1
    <3>2. k \in 1..PoolSize /\ k - 1 \in 0..PoolSize /\ ~(k <= k - 1)
      BY <1>1, <2>2, <3>1
    <3> HIDE DEF Bad
    <3> QED
      BY <2>1, <3>2
  <2>4. PICK acc, E, n, l : acc = f[k - 1] /\ E = D(k - 1) /\ n = Cell(p, k) /\ l = k - 1
    OBVIOUS
  <2>5. Dropping(t, acc, E, c, l)
    BY <2>3, <2>4
  <2>6. n \in P /\ n \in Address /\ E \subseteq P
    <3>1. \A j \in 1..k - 1 : j \in 1..PoolSize
      BY <1>1, <2>3
    <3> QED
      BY <1>3, <1>4, <2>3, <2>4, <3>1
  <2>7. n \notin E
    <3>1. ASSUME NEW j \in 1..k - 1, n = Cell(p, j) PROVE FALSE
      <4>1. j \in 1..PoolSize /\ j # k
        BY <1>1, <2>3
      <4>2. p \in Pool /\ k \in 1..PoolSize /\ Cell(p, j) = Cell(p, k)
        BY <1>3, <2>3, <2>4, <3>1
      <4>3. j = k
        BY ONLY <4>1, <4>2, CellOnce
      <4> QED
        BY <4>1, <4>3
    <3> QED
      BY <2>4, <3>1
  <2>8. l \in Nat /\ l + 1 = k /\ E \subseteq Address /\ n \notin sweep.flagged /\ n # c
    BY <1>1, <1>4, <2>3, <2>4, <2>6
  <2>9. Dropping(t, Sweep(acc, n), E \cup {n}, c, l + 1)
    BY <2>5, <2>6, <2>7, <2>8, DropNext
  <2>10. E \cup {n} = D(k)
    <3>1. \A j : j \in 1..k <=> j \in 1..k - 1 \/ j = k
      BY <1>1, <2>3
    <3> QED
      BY <2>4, <3>1
  <2>11. f[k] = Sweep(acc, n)
    BY <1>6, <2>3, <2>4
  <2> QED
    BY <2>1, <2>8, <2>9, <2>10, <2>11
<1>8. PICK acc : acc = f[PoolSize]
  OBVIOUS
<1>9. Dropping(t, acc, P, c, PoolSize)
  <2>1. PoolSize \in 0..PoolSize /\ D(PoolSize) = P
    BY <1>1, <1>3
  <2> QED
    BY <1>7, <1>8, <2>1
<1>10. /\ swept = acc.t /\ swept \in Table
       /\ swept.hash_memory = t.hash_memory
       /\ swept.bddmemory = t.bddmemory /\ swept.curBDDPos = t.curBDDPos
       /\ swept.free_count = t.free_count + PoolSize
       /\ c # NULL => swept.free = t.free
       /\ \A m \in Address \ P : /\ SameFields(t.node, swept.node, m)
                                 /\ m # c => swept.node[m].next = t.node[m].next
  BY <1>6, <1>8, <1>9 DEF Dropping, Acc
<1>11. c \in Address \cup {NULL}
  BY DEF Sweeps
<1>12. Linking(swept, ended, c, NULL)
  BY <1>10, <1>11, LinkIs
<1>13. /\ ended \in Table /\ ended.hash_memory = t.hash_memory
       /\ ended.bddmemory = t.bddmemory /\ ended.curBDDPos = t.curBDDPos
       /\ ended.free = t.free
       /\ \A m \in Address : SameFields(swept.node, ended.node, m)
       /\ \A m \in Address : ended.node[m].next = IF m = c THEN NULL ELSE swept.node[m].next
  BY <1>10, <1>12 DEF Linking
<1>14. CountWithout(swept) = t.free_count /\ t.free_count \in Nat
  <2>1. t.free_count \in Nat
    BY DEF Table
  <2> QED
    BY <1>1, <1>10, <2>1 DEF CountWithout
<1>15. PICK node : node = [n \in Address |-> IF n \in P THEN Zeroed ELSE ended.node[n]]
  OBVIOUS
<1>16. node \in Nodes
  <2>1. Zeroed \in Node
    <3>1. 0 \in -1..NumVars
      BY BddTableAssumption
    <3> QED
      BY <3>1 DEF Zeroed, Node
  <2>2. ended.node \in Nodes
    BY <1>13 DEF Table
  <2> QED
    BY <1>15, <2>1, <2>2 DEF Nodes
<1>17. PICK left : left = RemoveAt(t.bddmemory, i)
  OBVIOUS
<1>18. left \in Seq(Pool)
  <2>1. PICK s : s = t.bddmemory /\ s \in Seq(Pool)
    BY <1>1
  <2>2. PICK a : a = SubSeq(s, 1, i - 1)
    OBVIOUS
  <2>3. PICK b : b = SubSeq(s, i + 1, Len(s))
    OBVIOUS
  <2>4. i \in 1..Len(s) /\ Len(s) \in Nat
    BY <2>1
  <2>5. a \in Seq(Pool)
    BY ONLY <2>1, <2>2, <2>4
  <2>6. b \in Seq(Pool)
    BY ONLY <2>1, <2>3, <2>4
  <2>7. left = a \o b
    BY <1>17, <2>1, <2>2, <2>3 DEF RemoveAt
  <2> QED
    BY ONLY <2>5, <2>6, <2>7
<1>19. t2 = [node |-> node, bddmemory |-> left, curBDDPos |-> t.curBDDPos,
             hash_memory |-> t.hash_memory, free |-> t.free, free_count |-> t.free_count]
  BY <1>13, <1>14, <1>15, <1>17 DEF Table, PoolFreed
<1>20. t2 \in Table
  <2>1. /\ t.curBDDPos \in 0..PoolSize /\ t.hash_memory \in [Hash -> Address \cup {NULL}]
        /\ t.free \in Address \cup {NULL}
    BY DEF Table
  <2> QED
    BY <1>14, <1>16, <1>18, <1>19, <2>1 DEF Table
<1>21. ASSUME NEW m \in Address \ P
       PROVE  SameFields(t.node, node, m) /\ node[m].next = t.node[m].next
  <2>1. m \in Address /\ node[m] = ended.node[m]
    BY <1>15
  <2>2. SameFields(t.node, swept.node, m) /\ SameFields(swept.node, ended.node, m)
    BY <1>10, <1>13, <2>1
  <2>3. SameFields(t.node, node, m)
    BY <2>1, <2>2 DEF SameFields
  <2>4. ended.node[m].next = t.node[m].next
    <3>1. CASE m = c
      BY <1>13, <2>1, <3>1, AddressFinite
    <3>2. CASE m # c
      BY <1>10, <1>13, <2>1, <3>2
    <3> QED
      BY <3>1, <3>2
  <2> QED
    BY <2>1, <2>3, <2>4
<1>22. /\ t2.node = node /\ t2.hash_memory = t.hash_memory /\ t2.bddmemory = left
       /\ t2.curBDDPos = t.curBDDPos /\ t2.free = t.free /\ t2.free_count = t.free_count
  BY <1>19
<1> QED
  BY <1>17, <1>20, <1>21, <1>22 DEF DropsPool

(* The collection goes on with the same chains and the same free list. *)
LEMMA DropPoolCollects ==
  ASSUME NEW t, t = table, NEW fs, sweep \in Sweeps, NEW rank, Collecting(t, fs, sweep, rank),
         NEW i, i = sweep.i, i <= Len(t.bddmemory), i # Len(t.bddmemory),
         NEW P, P = Range(Memory(t.bddmemory[i])), P \cap sweep.flagged = {},
         NEW swept, swept = SweptNodes(i).t,
         NEW ended, ended = Link(swept, sweep.chain_free, NULL),
         NEW t2, t2 = PoolFreed(ended, swept, i, P)
  PROVE  /\ Collecting(t2, fs, sweep, rank)
         /\ \A m \in sweep.flagged : SameFields(t.node, t2.node, m)
<1>1. PICK S, c : S = sweep.flagged /\ c = sweep.chain_free
  OBVIOUS
<1>2. PICK live, fr : live = S \cap Before(t, i) /\ fr = Before(t, i) \ S
  OBVIOUS
<1>3. /\ i \in 1..Len(t.bddmemory) + 1 /\ Linkage(t, live, fr, rank)
      /\ EndsAt(t.node, fr, c)
      /\ S \subseteq Handed(t) /\ Reduced(t.node, S) /\ fs \subseteq S
  BY <1>1, <1>2 DEF Collecting
<1>4. /\ t \in Table /\ IsInjective(t.bddmemory) /\ rank \in Ranks
      /\ live \subseteq Handed(t) /\ fr \subseteq Handed(t) /\ live \cap fr = {}
  BY <1>3 DEF Linkage
<1>5. /\ Before(t, i) \cap Used(t, i) = {} /\ i \in DOMAIN t.bddmemory
      /\ Before(t, i) \subseteq Handed(t) /\ Handed(t) \subseteq Address
  BY <1>3, <1>4, BeforeIs, HandedIs
<1>6. Len(t.bddmemory) \in Nat /\ i \in 1..Len(t.bddmemory)
  <2>1. Len(t.bddmemory) \in Nat
    BY <1>4 DEF Table
  <2> QED
    BY <1>3, <2>1
<1>7. Used(t, i) = P
  <2>1. PICK p : p = t.bddmemory[i] /\ p \in Pool
    BY <1>4, <1>5, UsedIs
  <2>2. UsedLength(t, i) = PoolSize
    BY DEF UsedLength
  <2>3. Used(t, i) = {Cell(p, j) : j \in 1..PoolSize}
    BY <1>4, <1>5, <2>1, <2>2, UsedIs
  <2> QED
    BY <2>1, <2>3, MemoryIs
<1>8. c \notin P /\ (c = NULL => t.free = NULL) /\ (c # NULL => t.node[c].next = NULL)
  <2>1. c \in fr \cup {NULL} /\ (c = NULL <=> fr = {}) /\ (c # NULL => t.node[c].next = NULL)
    BY <1>4, <1>5, <1>3, AddressFinite DEF EndsAt
  <2>2. NULL \notin P
    BY <1>4, <1>5, <1>7, UsedIs, AddressFinite
  <2>3. fr = {} => t.free = NULL
    BY <1>3 DEF Linkage, IsList
  <2> QED
    BY <1>2, <1>5, <1>7, <2>1, <2>2, <2>3
<1>9. DropsPool(t, t2, i, P)
  <2>1. ended = Link(swept, c, NULL) /\ P \cap sweep.flagged = {} /\ c = sweep.chain_free
    BY <1>1
  <2> QED
    BY <1>4, <1>6, <1>8, <2>1, DropPoolIs
<1>10. /\ t2 \in Table /\ t2.hash_memory = t.hash_memory
       /\ t2.bddmemory = RemoveAt(t.bddmemory, i) /\ t2.curBDDPos = t.curBDDPos
       /\ t2.free = t.free /\ t2.free_count = t.free_count
       /\ \A m \in Address \ P : /\ SameFields(t.node, t2.node, m)
                                 /\ t2.node[m].next = t.node[m].next
  BY <1>9 DEF DropsPool
<1>11. /\ IsInjective(t2.bddmemory) /\ Len(t2.bddmemory) = Len(t.bddmemory) - 1
       /\ Handed(t2) = Handed(t) \ P /\ Before(t2, i) = Before(t, i)
  <2>1. /\ IsInjective(t2.bddmemory) /\ Len(t2.bddmemory) = Len(t.bddmemory) - 1
        /\ Handed(t2) = Handed(t) \ Used(t, i) /\ Before(t2, i) = Before(t, i)
    BY <1>4, <1>6, <1>10, PoolGone
  <2> QED
    BY <1>7, <2>1
<1>12. /\ S \subseteq Address \ P /\ live \subseteq Address \ P /\ fr \subseteq Address \ P
       /\ S \subseteq Handed(t2) /\ live \subseteq Handed(t2) /\ fr \subseteq Handed(t2)
  BY <1>1, <1>2, <1>3, <1>4, <1>5, <1>7, <1>11
<1>13. \A m \in S : SameFields(t.node, t2.node, m)
  BY <1>10, <1>12
<1>14. Reduced(t2.node, S)
  BY <1>3, <1>13, SameReduced
<1>15. ASSUME NEW h \in Hash
       PROVE  IsList(t2.node, t2.hash_memory[h], OfHash(t2, live, h), rank)
  <2>1. PICK L, start : L = OfHash(t, live, h) /\ start = t.hash_memory[h]
    OBVIOUS
  <2>2. \A m \in live : HashOf(t2, m) = HashOf(t, m)
    BY <1>10, <1>12, SameHash
  <2>3. OfHash(t2, live, h) = L /\ L \subseteq Address /\ L \subseteq Address \ P
    BY <1>12, <2>1, <2>2 DEF OfHash
  <2>4. IsList(t.node, start, L, rank)
    BY <1>3, <2>1 DEF Linkage
  <2>5. IsList(t2.node, start, L, rank)
    BY <1>10, <2>3, <2>4, SameList
  <2> QED
    BY <1>10, <2>1, <2>3, <2>5
<1>16. IsList(t2.node, t2.free, fr, rank)
  <2>1. PICK start : start = t.free
    OBVIOUS
  <2>2. IsList(t.node, start, fr, rank) /\ fr \subseteq Address
    BY <1>3, <1>12, <2>1 DEF Linkage
  <2>3. IsList(t2.node, start, fr, rank)
    BY <1>10, <1>12, <2>2, SameList
  <2> QED
    BY <1>10, <2>1, <2>3
<1>17. t2.free_count = Cardinality(fr) /\ \A m \in fr : t2.node[m].variable = 0
  <2>1. t.free_count = Cardinality(fr) /\ \A m \in fr : t.node[m].variable = 0
    BY <1>3 DEF Linkage
  <2>2. \A m \in fr : SameFields(t.node, t2.node, m)
    BY <1>10, <1>12
  <2>3. \A m \in fr : t2.node[m].variable = t.node[m].variable
    BY <2>2 DEF SameFields
  <2> QED
    BY <1>10, <2>1, <2>3
<1>18. Linkage(t2, live, fr, rank)
  BY <1>4, <1>10, <1>11, <1>12, <1>15, <1>16, <1>17 DEF Linkage
<1>19. EndsAt(t2.node, fr, c)
  BY <1>3, <1>10, <1>12 DEF EndsAt
<1>20. i \in 1..Len(t2.bddmemory) + 1
  BY <1>6, <1>11
<1>21. Collecting(t2, fs, sweep, rank)
  BY <1>1, <1>2, <1>3, <1>11, <1>12, <1>14, <1>18, <1>19, <1>20 DEF Collecting
<1> QED
  BY <1>1, <1>13, <1>21

(* The inductive invariant *)
IInv ==
  /\ sweep \in Sweeps
  /\ IF sweep.running
     THEN \E rank : Collecting(table, functions, sweep, rank)
     ELSE /\ sweep = Idle
          /\ \E live, fr, rank : AtRest(table, functions, itetable, live, fr, rank)

(* The nodes of fs, and what is below them, keep their fields. *)
KeepsNodes(node, node2, fs) ==
  /\ node \in Nodes /\ node2 \in Nodes
  /\ \E A : /\ fs \subseteq A /\ Reduced(node, A)
            /\ \A m \in A : SameFields(node, node2, m)

(* Nodes that keep their fields keep their meaning. *)
LEMMA KeepsMeanings ==
  ASSUME NEW node, NEW node2, NEW fs, KeepsNodes(node, node2, fs)
  PROVE  \A n \in fs : MeaningOf(node2)[n] = MeaningOf(node)[n]
<1>1. PICK A : /\ fs \subseteq A /\ Reduced(node, A)
               /\ \A m \in A : SameFields(node, node2, m)
  BY DEF KeepsNodes
<1>2. node \in Nodes /\ node2 \in Nodes
  BY DEF KeepsNodes
<1>3. PICK F, G : F = MeaningOf(node) /\ G = MeaningOf(node2)
  OBVIOUS
<1>4. IsMeaning(node, F) /\ IsMeaning(node2, G)
  BY <1>2, <1>3, MeaningOfIs
<1>5. \A n \in A : F[n] = G[n]
  BY <1>1, <1>2, <1>4, SameMeanings
<1> QED
  BY <1>1, <1>3, <1>5

(* Between collections, the functions are nodes in use. *)
LEMMA RestKeeps ==
  ASSUME NEW t, NEW t2, NEW fs, NEW results, NEW live, NEW fr, NEW rank,
         AtRest(t, fs, results, live, fr, rank), t2.node \in Nodes,
         \A m \in Handed(t) \ fr : SameFields(t.node, t2.node, m)
  PROVE  KeepsNodes(t.node, t2.node, fs)
<1>1. t.node \in Nodes
  BY DEF AtRest, Linkage, Table
<1>2. fs \subseteq Handed(t) \ fr /\ Reduced(t.node, Handed(t) \ fr)
  BY DEF AtRest
<1> QED
  BY <1>1, <1>2 DEF KeepsNodes

(* Between collections, what the chains and the free list of the model     *)
(* hold                                                                    *)
LEMMA RestIs ==
  ASSUME IInv, ~sweep.running
  PROVE  \E live, fr, rank :
           /\ AtRest(table, functions, itetable, live, fr, rank)
           /\ Linkage(table, live, fr, rank)
           /\ Free = fr /\ Allocated = Handed(table) \ fr
           /\ \A h \in Hash : Chain(h) = OfHash(table, live, h)
<1>1. PICK live, fr, rank : AtRest(table, functions, itetable, live, fr, rank)
  BY DEF IInv
<1>2. Linkage(table, live, fr, rank)
  BY <1>1 DEF AtRest
<1>3. PICK t : t = table
  OBVIOUS
<1>4. Linkage(t, live, fr, rank)
  BY <1>2, <1>3
<1>5. /\ Free = fr /\ Allocated = Handed(t) \ fr
      /\ \A h \in Hash : Chain(h) = OfHash(t, live, h)
  BY <1>3, <1>4, AllocatedIs
<1> QED
  BY <1>1, <1>2, <1>3, <1>5

(* The type of the memory between collections *)
LEMMA AtRestNodes ==
  ASSUME NEW t, NEW fs, NEW results, NEW live, NEW fr, NEW rank,
         AtRest(t, fs, results, live, fr, rank)
  PROVE  t.node \in Nodes
BY DEF AtRest, Linkage, Table

Kept == KeepsNodes(table.node, table'.node, functions)

(* Each action keeps the invariant, and the fields of the functions and of *)
(* what is below them.                                                     *)
LEMMA FindNodeStep ==
  ASSUME IInv, ~sweep.running, NEW n \in Allocated \ Constants, NEW before \in Allocated,
         FindNode(n, before)
  PROVE  IInv' /\ Kept
<1>1. PICK live, fr, rank : /\ AtRest(table, functions, itetable, live, fr, rank)
                            /\ Allocated = Handed(table) \ fr
  BY RestIs
<1>2. PICK t : t = table
  OBVIOUS
<1>3. PICK t2 : t2 = Swapped(t, n, before)
  OBVIOUS
<1>4. /\ AtRest(t, functions, itetable, live, fr, rank)
      /\ n \in (Handed(t) \ fr) \ Constants /\ before \in Handed(t) \ fr
      /\ HashOf(t, before) = HashOf(t, n) /\ t.node[before].next = n
      /\ table' = t2 /\ functions' = functions /\ itetable' = itetable /\ sweep' = sweep
  BY <1>1, <1>2, <1>3 DEF FindNode
<1>5. /\ \E rank2 : AtRest(t2, functions, itetable, live, fr, rank2)
      /\ \A m \in Address : SameFields(t.node, t2.node, m)
  BY <1>3, <1>4, FindNodeRest
<1>6. \A m \in Handed(t) \ fr : SameFields(t.node, t2.node, m)
  <2>1. Handed(t) \subseteq Address
    BY <1>4, HandedIs DEF AtRest, Linkage
  <2> QED
    BY <1>5, <2>1
<1>7. t2.node \in Nodes
  BY <1>5, AtRestNodes
<1>8. KeepsNodes(t.node, t2.node, functions)
  BY <1>4, <1>6, <1>7, RestKeeps
<1>9. IInv'
  BY <1>4, <1>5 DEF IInv
<1> QED
  BY <1>2, <1>4, <1>8, <1>9 DEF Kept

(* What is not found on its chain is no key of a node in use. *)
LEMMA NoSuchKey ==
  ASSUME NEW live, NEW fr, NEW rank, Linkage(table, live, fr, rank),
         \A h \in Hash : Chain(h) = OfHash(table, live, h),
         NEW v, NEW r, NEW e, Found(v, r, e) = {}, NEW m \in live
  PROVE  ~( /\ table.node[m].variable = v
            /\ table.node[m].thenCase = r /\ table.node[m].elseCase = e)
<1> SUFFICES ASSUME table.node[m].variable = v, table.node[m].thenCase = r,
                    table.node[m].elseCase = e
             PROVE  FALSE
  OBVIOUS
<1>1. table \in Table /\ m \in Address
  BY HandedIs DEF Linkage
<1>2. PICK h : h = hash_fn(v, r, e)
  OBVIOUS
<1>3. HashOf(table, m) = h
  BY <1>2 DEF HashOf
<1>4. h \in Hash
  BY <1>1, <1>3, HashIs
<1>5. m \in Chain(h)
  BY <1>3, <1>4 DEF OfHash
<1> QED
  BY <1>2, <1>5 DEF Found, HasKey

(* find_or_add_node adds a node. *)
LEMMA AddNodeStep ==
  ASSUME IInv, ~sweep.running, NEW v \in B!Var, NEW r \in Allocated, NEW e \in Allocated,
         NEW p \in NextPool, AddNode(v, r, e, p)
  PROVE  IInv' /\ Kept
<1>1. PICK live, fr, rank :
        /\ AtRest(table, functions, itetable, live, fr, rank)
        /\ Linkage(table, live, fr, rank)
        /\ Free = fr /\ Allocated = Handed(table) \ fr
        /\ \A h \in Hash : Chain(h) = OfHash(table, live, h)
  BY RestIs
<1>2. PICK t : t = table
  OBVIOUS
<1>3. PICK new : new = AllocNode(t, v, r, e, p)
  OBVIOUS
<1>4. PICK t2 : t2 = alloc_not_node(AtEnd(new.t, new.n), new.n, p)
  OBVIOUS
<1>5. /\ AtRest(t, functions, itetable, live, fr, rank)
      /\ r \in Handed(t) \ fr /\ e \in Handed(t) \ fr /\ r # e
      /\ v > t.node[r].variable /\ v > t.node[e].variable
      /\ table' = t2 /\ functions' = functions /\ itetable' = itetable /\ sweep' = sweep
      /\ Found(v, r, e) = {}
  BY <1>1, <1>2, <1>3, <1>4 DEF AddNode
<1>6. \A m \in live :
        ~(t.node[m].variable = v /\ t.node[m].thenCase = r /\ t.node[m].elseCase = e)
  <2>1. \A m \in live :
          ~( /\ table.node[m].variable = v
             /\ table.node[m].thenCase = r /\ table.node[m].elseCase = e)
    BY <1>1, <1>5, NoSuchKey
  <2> QED
    BY <1>2, <2>1
<1>7. Room(t, fr, p)
  BY <1>1, <1>2 DEF NextPool, Fresh, Room, Unowned
<1>8. /\ \E live2, fr2, rank2 : AtRest(t2, functions, itetable, live2, fr2, rank2)
      /\ \A m \in Handed(t) \ fr : SameFields(t.node, t2.node, m)
  BY <1>3, <1>4, <1>5, <1>6, <1>7, AddNodeRest
<1>9. t2.node \in Nodes
  BY <1>8, AtRestNodes
<1>10. KeepsNodes(t.node, t2.node, functions)
  BY <1>5, <1>8, <1>9, RestKeeps
<1>11. IInv'
  BY <1>5, <1>8 DEF IInv
<1> QED
  BY <1>2, <1>5, <1>10, <1>11 DEF Kept

(* A step that leaves the table alone keeps the functions. *)
LEMMA SameFieldsKept ==
  ASSUME IInv, table' = table
  PROVE  Kept
<1>1. \A m : SameFields(table.node, table.node, m)
  BY DEF SameFields
<1>2. \E A : functions \subseteq A /\ Reduced(table.node, A)
  BY DEF IInv, Collecting, AtRest
<1>3. table.node \in Nodes
  BY DEF IInv, Collecting, AtRest, Linkage, Table
<1> QED
  BY <1>1, <1>2, <1>3 DEF Kept, KeepsNodes

(* The meaning of the nodes depends on the memory alone. *)
LEMMA MeaningIs ==
  Meaning = MeaningOf(table.node)
BY DEF Meaning, MeaningOf

(* A result of ite is stored. *)
LEMMA AddResultStep ==
  ASSUME IInv, ~sweep.running, NEW x \in Allocated \ Constants, NEW y \in Allocated \ Constants,
         itetable_add_node(x, y)
  PROVE  IInv' /\ Kept
<1>1. PICK live, fr, rank : /\ AtRest(table, functions, itetable, live, fr, rank)
                            /\ Allocated = Handed(table) \ fr
  BY RestIs
<1>2. PICK z \in Allocated :
        /\ Meaning[z] = Result(Meaning[x], Meaning[y])
        /\ itetable' = itetable \cup {[x |-> x, y |-> y, cached_ite |-> z]}
  BY DEF itetable_add_node
<1>3. /\ table' = table /\ functions' = functions /\ sweep' = sweep
  BY DEF itetable_add_node
<1>4. PICK t, node : t = table /\ node = table.node
  OBVIOUS
<1>5. MeaningOf(t.node)[z] = Result(MeaningOf(t.node)[x], MeaningOf(t.node)[y])
  BY <1>2, <1>4, MeaningIs
<1>6. AtRest(t, functions, itetable', live, fr, rank)
  <2>1. x \in Handed(t) \ fr /\ y \in Handed(t) \ fr /\ z \in Handed(t) \ fr
    BY <1>1, <1>2, <1>4
  <2>2. AtRest(t, functions, itetable, live, fr, rank)
    BY <1>1, <1>4
  <2>3. AtRest(t, functions, itetable \cup {[x |-> x, y |-> y, cached_ite |-> z]}, live, fr, rank)
    BY <1>5, <2>1, <2>2, AddResultRest
  <2> QED
    BY <1>2, <2>3
<1>7. IInv'
  BY <1>3, <1>4, <1>6 DEF IInv
<1> QED
  BY <1>3, <1>7, SameFieldsKept

(* A function is replaced. *)
LEMMA SetFunctionStep ==
  ASSUME IInv, ~sweep.running, NEW old \in functions \cup {NULL}, NEW new \in Allocated,
         SetFunction(old, new)
  PROVE  IInv' /\ Kept
<1>1. PICK live, fr, rank : /\ AtRest(table, functions, itetable, live, fr, rank)
                            /\ Allocated = Handed(table) \ fr
  BY RestIs
<1>2. /\ functions' = (functions \ {old}) \cup {new}
      /\ table' = table /\ itetable' = itetable /\ sweep' = sweep
  BY DEF SetFunction
<1>3. functions' \subseteq functions \cup (Handed(table) \ fr)
  BY <1>1, <1>2
<1>4. AtRest(table, functions', itetable, live, fr, rank)
  <2>1. PICK t, fs2 : t = table /\ fs2 = functions'
    OBVIOUS
  <2>2. AtRest(t, functions, itetable, live, fr, rank) /\ fs2 \subseteq functions \cup (Handed(t) \ fr)
    BY <1>1, <1>3, <2>1
  <2>3. AtRest(t, fs2, itetable, live, fr, rank)
    BY <2>2, SetFunctionRest
  <2> QED
    BY <2>1, <2>3
<1>5. IInv'
  BY <1>2, <1>4 DEF IInv
<1> QED
  BY <1>2, <1>5, SameFieldsKept

(* bdd_gc flags the nodes. *)
LEMMA StartGcStep ==
  ASSUME IInv, ~sweep.running, StartGc
  PROVE  IInv' /\ Kept
<1>1. PICK live, fr, rank : AtRest(table, functions, itetable, live, fr, rank)
  BY RestIs
<1>2. PICK t : t = table
  OBVIOUS
<1>3. PICK t2 : t2 = GcStarted(t)
  OBVIOUS
<1>4. PICK sw : sw = [running |-> TRUE, flagged |-> Flagged, i |-> 1, chain_free |-> NULL]
  OBVIOUS
<1>5. table' = t2 /\ sweep' = sw /\ functions' = functions /\ itetable' = itetable
  BY <1>2, <1>3, <1>4 DEF StartGc, GcStarted
<1>6. PICK fs : fs = functions
  OBVIOUS
<1>7. AtRest(t, fs, itetable, live, fr, rank)
  BY <1>1, <1>2, <1>6
<1>8. Collecting(t2, fs, sw, rank) /\ \A m \in Address : t2.node[m] = t.node[m]
  BY <1>2, <1>3, <1>4, <1>6, <1>7, StartGcCollects
<1>9. sw \in Sweeps /\ sw.running
  <2>1. Flagged \subseteq Address
    <3>1. sw.flagged \subseteq Address
      BY <1>8 DEF Collecting, Reduced
    <3> QED
      BY <1>4, <3>1
  <2> QED
    BY <1>4, <2>1 DEF Sweeps
<1>10. IInv'
  BY <1>5, <1>6, <1>8, <1>9 DEF IInv
<1>11. t2.node \in Nodes
  BY <1>8 DEF Collecting, Linkage, Table
<1>12. \A m \in Handed(t) \ fr : SameFields(t.node, t2.node, m)
  <2>1. Handed(t) \subseteq Address
    BY <1>7, HandedIs DEF AtRest, Linkage
  <2> QED
    BY <1>8, <2>1 DEF SameFields
<1>13. KeepsNodes(t.node, t2.node, functions)
  BY <1>1, <1>2, <1>11, <1>12, RestKeeps
<1> QED
  BY <1>2, <1>5, <1>10, <1>13 DEF Kept

(* During a collection, the functions are flagged nodes. *)
LEMMA CollectingKeeps ==
  ASSUME NEW t, NEW t2, NEW fs, NEW sw, NEW rank, Collecting(t, fs, sw, rank),
         t2.node \in Nodes, \A m \in sw.flagged : SameFields(t.node, t2.node, m)
  PROVE  KeepsNodes(t.node, t2.node, fs)
<1>1. t.node \in Nodes /\ fs \subseteq sw.flagged /\ Reduced(t.node, sw.flagged)
  BY DEF Collecting, Linkage, Table
<1> QED
  BY <1>1 DEF KeepsNodes

(* bdd_gc sweeps a pool. *)
LEMMA SweepPoolStep ==
  ASSUME IInv, SweepPool
  PROVE  IInv' /\ Kept
<1>1. PICK rank : sweep.running /\ sweep \in Sweeps /\ Collecting(table, functions, sweep, rank)
  BY DEF IInv, SweepPool
<1>2. PICK t, fs : t = table /\ fs = functions
  OBVIOUS
<1>3. PICK t2 : t2 = SweptNodes(sweep.i).t
  OBVIOUS
<1>4. PICK sw : sw = [sweep EXCEPT !.i = @ + 1, !.chain_free = SweptNodes(sweep.i).chain_free]
  OBVIOUS
<1>5. /\ table' = t2 /\ sweep' = sw /\ functions' = fs /\ itetable' = itetable
      /\ sweep.i <= Len(t.bddmemory)
  BY <1>2, <1>3, <1>4 DEF SweepPool
<1>6. Collecting(t, fs, sweep, rank)
  BY <1>1, <1>2
<1>7. /\ sw \in Sweeps /\ sw.running = sweep.running
      /\ \E rank2 : Collecting(t2, fs, sw, rank2)
      /\ \A m \in sweep.flagged : SameFields(t.node, t2.node, m)
  BY <1>1, <1>2, <1>3, <1>4, <1>5, <1>6, SweepPoolCollects
<1>8. t2.node \in Nodes
  BY <1>7 DEF Collecting, Linkage, Table
<1>9. KeepsNodes(t.node, t2.node, fs)
  BY <1>6, <1>7, <1>8, CollectingKeeps
<1>10. IInv'
  BY <1>1, <1>5, <1>7 DEF IInv
<1> QED
  BY <1>2, <1>5, <1>9, <1>10 DEF Kept

(* bdd_gc gives a pool back. *)
LEMMA DropPoolStep ==
  ASSUME IInv, DropPool
  PROVE  IInv' /\ Kept
<1>1. PICK rank : sweep.running /\ sweep \in Sweeps /\ Collecting(table, functions, sweep, rank)
  BY DEF IInv, DropPool
<1>2. PICK t, fs, i : t = table /\ fs = functions /\ i = sweep.i
  OBVIOUS
<1>3. PICK P : P = Range(Memory(t.bddmemory[i]))
  OBVIOUS
<1>4. PICK swept : swept = SweptNodes(i).t
  OBVIOUS
<1>5. PICK ended : ended = Link(swept, sweep.chain_free, NULL)
  OBVIOUS
<1>6. PICK t2 : t2 = PoolFreed(ended, swept, i, P)
  OBVIOUS
<1>7. /\ i <= Len(t.bddmemory) /\ Unused(i) /\ table' = t2
      /\ functions' = fs /\ itetable' = itetable /\ sweep' = sweep
  BY <1>2, <1>3, <1>4, <1>5, <1>6 DEF DropPool, PoolFreed
<1>8. i # Len(t.bddmemory) /\ P \cap sweep.flagged = {}
  BY <1>2, <1>3, <1>7 DEF Unused
<1>9. Collecting(t, fs, sweep, rank)
  BY <1>1, <1>2
<1>10. /\ Collecting(t2, fs, sweep, rank)
       /\ \A m \in sweep.flagged : SameFields(t.node, t2.node, m)
  BY <1>1, <1>2, <1>3, <1>4, <1>5, <1>6, <1>7, <1>8, <1>9, DropPoolCollects
<1>11. t2.node \in Nodes
  BY <1>10 DEF Collecting, Linkage, Table
<1>12. KeepsNodes(t.node, t2.node, fs)
  BY <1>9, <1>10, <1>11, CollectingKeeps
<1>13. IInv'
  BY <1>1, <1>7, <1>10 DEF IInv
<1> QED
  BY <1>2, <1>7, <1>12, <1>13 DEF Kept

(* bdd_gc ends. *)
LEMMA EndGcStep ==
  ASSUME IInv, EndGc
  PROVE  IInv' /\ Kept
<1>1. PICK rank : sweep.running /\ Collecting(table, functions, sweep, rank)
  BY DEF IInv, EndGc
<1>2. /\ table' = table /\ functions' = functions /\ itetable' = {} /\ sweep' = Idle
      /\ sweep.i > Len(table.bddmemory)
  BY DEF EndGc, itetable_removeall
<1>3. PICK t, sw : t = table /\ sw = sweep
  OBVIOUS
<1>4. AtRest(t, functions, {}, sw.flagged, Handed(t) \ sw.flagged, rank)
  BY <1>1, <1>2, <1>3, EndGcRests
<1>5. Idle \in Sweeps /\ ~Idle.running
  BY DEF Idle, Sweeps
<1>6. IInv'
  BY <1>2, <1>3, <1>4, <1>5 DEF IInv
<1> QED
  BY <1>2, <1>6, SameFieldsKept

-----------------------------------------------------------------------------
(* The beginning *)

(* The table of the beginning holds the two constants. *)
LEMMA InitRests ==
  ASSUME Init
  PROVE  IInv
<1>1. PICK node : node = [n \in Address |->
                            CASE n = false_ptr -> ConstantNode(n, true_ptr)
                              [] n = true_ptr  -> ConstantNode(n, false_ptr)
                              [] OTHER         -> Zeroed]
  OBVIOUS
<1>2. PICK chains : chains = [h \in Hash |-> NULL]
  OBVIOUS
<1>3. PICK t : t = table
  OBVIOUS
<1>4. t = [node |-> node, bddmemory |-> <<1>>, curBDDPos |-> 2,
           hash_memory |-> chains, free |-> NULL, free_count |-> 0]
  BY <1>1, <1>2, <1>3 DEF Init, Hash
<1>5. functions = {} /\ itetable = {} /\ sweep = Idle
  BY DEF Init
<1>6. Constants \subseteq Address /\ false_ptr # true_ptr /\ NULL \notin Address
  BY AddressFinite DEF false_ptr, true_ptr
<1>7. /\ node[false_ptr] = ConstantNode(false_ptr, true_ptr)
      /\ node[true_ptr] = ConstantNode(true_ptr, false_ptr)
      /\ \A n \in Address \ Constants : node[n] = Zeroed
  BY <1>1, <1>6 DEF Constants
<1>8. \A n, m : /\ ConstantNode(n, m).variable = -1 /\ ConstantNode(n, m).next = NULL
                /\ ConstantNode(n, m).thenCase = n /\ ConstantNode(n, m).elseCase = n
                /\ ConstantNode(n, m).notCase = m
  BY DEF ConstantNode, Zeroed
<1>9. Zeroed \in Node /\ \A n, m \in Address : ConstantNode(n, m) \in Node
  <2>1. 0 \in -1..NumVars /\ -1 \in -1..NumVars
    BY BddTableAssumption
  <2> QED
    BY <2>1 DEF ConstantNode, Zeroed, Node
<1>10. node \in Nodes
  <2>1. \A n \in Address : node[n] \in Node
    BY <1>6, <1>7, <1>9 DEF Constants
  <2> QED
    BY <1>1, <2>1 DEF Nodes
<1>11. t \in Table
  <2>1. 1 \in Pool /\ 2 \in 0..PoolSize /\ chains \in [Hash -> Address \cup {NULL}]
    BY <1>2, BddTableAssumption DEF Pool
  <2>2. <<1>> \in Seq(Pool)
    BY <2>1
  <2> QED
    BY <1>4, <1>10, <2>1, <2>2 DEF Table
<1>12. /\ t.node = node /\ t.bddmemory = <<1>> /\ t.curBDDPos = 2
       /\ t.hash_memory = chains /\ t.free = NULL /\ t.free_count = 0
  BY <1>4
<1>13. Handed(t) = Constants
  <2>1. DOMAIN t.bddmemory = {1} /\ t.bddmemory[1] = 1 /\ Len(t.bddmemory) = 1
    BY <1>12
  <2>2. Used(t, 1) = {Cell(1, j) : j \in 1..2}
    <3>1. UsedLength(t, 1) = 2
      BY <1>12, <2>1 DEF UsedLength
    <3> QED
      BY <1>11, <2>1, <3>1, UsedIs
  <2>3. Cell(1, 1) = 1 /\ Cell(1, 2) = 2
    BY BddTableAssumption DEF Cell
  <2>4. Used(t, 1) = {1, 2}
    <3>1. \A j : j \in 1..2 <=> j = 1 \/ j = 2
      OBVIOUS
    <3> QED
      BY <2>2, <2>3, <3>1
  <2> QED
    BY <2>1, <2>4 DEF Handed, Constants, false_ptr, true_ptr
<1>14. PICK rank : rank = [n \in Address |-> 0]
  OBVIOUS
<1>15. Linkage(t, {}, {}, rank)
  <2>1. rank \in Ranks
    BY <1>14 DEF Ranks
  <2>2. IsInjective(t.bddmemory)
    BY <1>12 DEF IsInjective
  <2>3. \A h \in Hash : IsList(t.node, t.hash_memory[h], OfHash(t, {}, h), rank)
    BY <1>2, <1>12, NoList DEF OfHash
  <2>4. IsList(t.node, t.free, {}, rank)
    BY <1>12, NoList
  <2>5. t.free_count = Cardinality({})
    BY <1>12, FS_EmptySet
  <2> QED
    BY <1>11, <2>1, <2>2, <2>3, <2>4, <2>5 DEF Linkage
<1>16. Reduced(node, Constants)
  <2>1. ASSUME NEW c \in Constants
        PROVE  /\ node[c].variable = -1 /\ node[c].notCase \in Constants \ {c}
               /\ node[c].thenCase = c /\ node[c].elseCase = c
    BY <1>6, <1>7, <1>8 DEF Constants
  <2> QED
    BY <1>6, <2>1 DEF Reduced
<1>17. AtRest(t, {}, {}, {}, {}, rank)
  <2>1. \A c \in Constants : t.node[c].next = NULL
    BY <1>7, <1>8, <1>12 DEF Constants
  <2>2. ResultsOf(t.node, Handed(t), {})
    BY DEF ResultsOf
  <2> QED
    BY <1>12, <1>13, <1>15, <1>16, <2>1, <2>2 DEF AtRest
<1>18. Idle \in Sweeps /\ ~Idle.running
  BY DEF Idle, Sweeps
<1> QED
  BY <1>3, <1>5, <1>17, <1>18 DEF IInv

(* Every step keeps the invariant. *)
LEMMA NextKeeps ==
  ASSUME IInv, [Next]_vars
  PROVE  IInv' /\ Kept
<1>1. CASE ~sweep.running /\ \E n \in Allocated \ Constants, before \in Allocated :
             FindNode(n, before)
  BY <1>1, FindNodeStep
<1>2. CASE ~sweep.running /\ \E v \in B!Var, r, e \in Allocated, p \in NextPool :
             AddNode(v, r, e, p)
  BY <1>2, AddNodeStep
<1>3. CASE ~sweep.running /\ \E x, y \in Allocated \ Constants : itetable_add_node(x, y)
  BY <1>3, AddResultStep
<1>4. CASE ~sweep.running /\ \E old \in functions \cup {NULL}, new \in Allocated :
             SetFunction(old, new)
  BY <1>4, SetFunctionStep
<1>5. CASE ~sweep.running /\ StartGc
  BY <1>5, StartGcStep
<1>6. CASE SweepPool
  BY <1>6, SweepPoolStep
<1>7. CASE DropPool
  BY <1>7, DropPoolStep
<1>8. CASE EndGc
  BY <1>8, EndGcStep
<1>9. CASE UNCHANGED vars
  <2>1. table' = table /\ functions' = functions /\ itetable' = itetable /\ sweep' = sweep
    BY <1>9 DEF vars
  <2>2. IInv'
    BY <2>1 DEF IInv
  <2> QED
    BY <2>1, <2>2, SameFieldsKept
<1> QED
  BY <1>1, <1>2, <1>3, <1>4, <1>5, <1>6, <1>7, <1>8, <1>9 DEF Next

-----------------------------------------------------------------------------
(* What follows from the invariant *)

(* There are no more pools than malloc has room for. *)
LEMMA FewPools ==
  ASSUME NEW t \in Table, IsInjective(t.bddmemory)
  PROVE  Len(t.bddmemory) <= MaxPools
<1>1. PICK l \in Nat : l = Len(t.bddmemory) /\ DOMAIN t.bddmemory = 1..l
  BY DEF Table
<1>2. PICK s, S : s = t.bddmemory /\ S = 1..l
  OBVIOUS
<1>3. s \in [S -> Pool]
  BY <1>1, <1>2 DEF Table
<1>4. IsFiniteSet(S) /\ Cardinality(S) = l
  <2>1. IsFiniteSet(1..l) /\ Cardinality(1..l) = IF 1 > l THEN 0 ELSE l - 1 + 1
    BY FS_Interval
  <2> QED
    BY <1>2, <2>1
<1>5. IsFiniteSet(Pool) /\ Cardinality(Pool) = MaxPools /\ MaxPools \in Nat
  <2>1. MaxPools \in Nat \ {0}
    BY BddTableAssumption
  <2>2. IsFiniteSet(1..MaxPools) /\ Cardinality(1..MaxPools) = IF 1 > MaxPools THEN 0 ELSE MaxPools - 1 + 1
    BY <2>1, FS_Interval
  <2> QED
    BY <2>1, <2>2 DEF Pool
<1>6. ASSUME l > MaxPools PROVE FALSE
  <2>1. Cardinality(Pool) < Cardinality(S)
    BY <1>4, <1>5, <1>6
  <2>2. \E x, y \in S : x # y /\ s[x] = s[y]
    BY ONLY <1>3, <1>4, <1>5, <2>1, FS_PigeonHole
  <2> QED
    BY <1>1, <1>2, <2>2 DEF IsInjective
<1> QED
  BY <1>1, <1>5, <1>6

(* The invariant implies the types, ... *)
LEMMA IInvType ==
  ASSUME IInv
  PROVE  TypeOK
<1>1. table \in Table /\ IsInjective(table.bddmemory)
  BY DEF IInv, Collecting, AtRest, Linkage
<1>2. functions \subseteq Address
  <2>1. CASE sweep.running
    BY <2>1 DEF IInv, Collecting, Reduced
  <2>2. CASE ~sweep.running
    BY <2>2 DEF IInv, AtRest, Reduced
  <2> QED
    BY <2>1, <2>2
<1>3. sweep.i \in 0..MaxPools + 1
  <2>1. MaxPools \in Nat
    BY BddTableAssumption
  <2>2. CASE sweep.running
    <3>1. PICK l \in Nat : l = Len(table.bddmemory)
      BY <1>1 DEF Table
    <3>2. sweep.i \in 1..l + 1
      BY <2>2, <3>1 DEF IInv, Collecting
    <3>3. l <= MaxPools
      BY <1>1, <3>1, FewPools
    <3> QED
      BY <2>1, <3>2, <3>3
  <2>3. CASE ~sweep.running
    BY <2>1, <2>3 DEF IInv, Idle
  <2> QED
    BY <2>2, <2>3
<1>4. Range(table.bddmemory) \subseteq Pool
  BY <1>1 DEF Table, Range
<1> QED
  BY <1>1, <1>2, <1>3, <1>4 DEF TypeOK, Table, Nodes, Hash

(* ... that chains and free list are intact, ... *)
LEMMA IInvIntact ==
  ASSUME IInv
  PROVE  TableIntact
<1>1. TypeOK
  BY IInvType
<1> SUFFICES ASSUME ~sweep.running
             PROVE  /\ \A h \in DOMAIN table.hash_memory :
                         LET at == Links(table, table.hash_memory[h])
                         IN  /\ \A i, j \in DOMAIN at : at[i] = at[j] => i = j \/ at[i] = NULL
                             /\ \A n \in Chain(h) : n \in Allocated /\ HashOf(table, n) = h
                    /\ \A n \in Allocated \ Constants : n \in Chain(HashOf(table, n))
                    /\ \A n \in Free : table.node[n].variable = 0
                    /\ Links(table, table.free)[Cardinality(Address)] = NULL
                    /\ table.free_count = Cardinality(Free)
  BY <1>1 DEF TableIntact
<1>2. PICK live, fr, rank :
        /\ AtRest(table, functions, itetable, live, fr, rank)
        /\ Linkage(table, live, fr, rank)
        /\ Free = fr /\ Allocated = Handed(table) \ fr
        /\ \A h \in Hash : Chain(h) = OfHash(table, live, h)
  BY RestIs
<1>3. /\ table \in Table /\ live \subseteq Handed(table) \ fr
      /\ (Handed(table) \ fr) \ Constants \subseteq live
      /\ rank \in Ranks /\ fr \subseteq Address /\ Handed(table) \subseteq Address
  <2>1. table \in Table
    BY <1>2 DEF Linkage
  <2> QED
    BY <1>2, <2>1, HandedIs DEF AtRest, Linkage
<1>4. DOMAIN table.hash_memory = Hash /\ table.node \in Nodes
  BY <1>3 DEF Table
<1>5. ASSUME NEW h \in Hash
      PROVE  /\ \A i, j \in DOMAIN Links(table, table.hash_memory[h]) :
                  Links(table, table.hash_memory[h])[i] = Links(table, table.hash_memory[h])[j]
                    => i = j \/ Links(table, table.hash_memory[h])[i] = NULL
             /\ \A n \in Chain(h) : n \in Allocated /\ HashOf(table, n) = h
  <2>1. PICK S, start : S = OfHash(table, live, h) /\ start = table.hash_memory[h]
    OBVIOUS
  <2>2. S \subseteq Address /\ S \subseteq live /\ \A n \in S : HashOf(table, n) = h
    BY <1>3, <2>1 DEF OfHash
  <2>3. IsList(table.node, start, S, rank)
    BY <1>2, <2>1 DEF Linkage
  <2>4. \A i, j \in DOMAIN Links(table, start) :
          Links(table, start)[i] = Links(table, start)[j]
            => i = j \/ Links(table, start)[i] = NULL
    BY <1>3, <1>4, <2>2, <2>3, ListLinks
  <2>5. Chain(h) = S
    BY <1>2, <2>1
  <2> QED
    BY <1>2, <1>3, <2>1, <2>2, <2>4, <2>5
<1>6. ASSUME NEW n \in Allocated \ Constants PROVE n \in Chain(HashOf(table, n))
  <2>1. n \in live /\ n \in Address
    BY <1>2, <1>3
  <2>2. HashOf(table, n) \in Hash
    BY <1>3, <2>1, HashIs
  <2> QED
    BY <1>2, <2>1, <2>2 DEF OfHash
<1>7. \A n \in Free : table.node[n].variable = 0
  BY <1>2 DEF Linkage
<1>8. Links(table, table.free)[Cardinality(Address)] = NULL
  <2>1. PICK start : start = table.free
    OBVIOUS
  <2>2. IsList(table.node, start, fr, rank)
    BY <1>2, <2>1 DEF Linkage
  <2>3. Links(table, start)[Cardinality(Address)] = NULL
    BY <1>3, <1>4, <2>2, ListLinks
  <2> QED
    BY <2>1, <2>3
<1>9. table.free_count = Cardinality(Free)
  BY <1>2 DEF Linkage
<1> QED
  BY <1>4, <1>5, <1>6, <1>7, <1>8, <1>9

(* ... one node for each function, ... *)
LEMMA IInvCanonical ==
  ASSUME IInv
  PROVE  Canonical
<1> SUFFICES ASSUME ~sweep.running, NEW n \in Allocated
             PROVE  /\ table.node[n].notCase \in Allocated
                    /\ table.node[table.node[n].notCase].notCase = n
                    /\ Meaning[table.node[n].notCase] = B!Assignment \ Meaning[n]
                    /\ \A m \in Allocated : Meaning[n] = Meaning[m] => n = m
  BY DEF Canonical
<1>1. PICK live, fr, rank : /\ AtRest(table, functions, itetable, live, fr, rank)
                            /\ Allocated = Handed(table) \ fr
  BY RestIs
<1>2. PICK A, node, F : A = Allocated /\ node = table.node /\ F = Meaning
  OBVIOUS
<1>3. node \in Nodes /\ Reduced(node, A)
  BY <1>1, <1>2, AtRestNodes DEF AtRest
<1>4. IsMeaning(node, F)
  BY <1>2, <1>3, MeaningIs, MeaningOfIs
<1>5. n \in A
  BY <1>2
<1>6. /\ node[n].notCase \in A /\ node[node[n].notCase].notCase = n
      /\ F[node[n].notCase] = B!Assignment \ F[n]
  BY <1>3, <1>4, <1>5, NotMeans
<1>7. ASSUME NEW m \in A, F[n] = F[m] PROVE n = m
  BY <1>3, <1>4, <1>5, <1>7, OneNode
<1> QED
  BY <1>2, <1>6, <1>7

(* ... and right results. *)
LEMMA IInvResults ==
  ASSUME IInv
  PROVE  ResultsRight
<1> SUFFICES ASSUME ~sweep.running, NEW c \in itetable
             PROVE  /\ {c.x, c.y, c.cached_ite} \subseteq Allocated
                    /\ Meaning[c.cached_ite] = Result(Meaning[c.x], Meaning[c.y])
  BY DEF ResultsRight
<1>1. PICK live, fr, rank : /\ AtRest(table, functions, itetable, live, fr, rank)
                            /\ Allocated = Handed(table) \ fr
  BY RestIs
<1>2. ResultsOf(table.node, Allocated, itetable)
  BY <1>1 DEF AtRest
<1> QED
  BY <1>2, MeaningIs DEF ResultsOf

(* The invariant holds in every state. *)
LEMMA InvariantHolds == Spec => []IInv
<1>1. Init => IInv
  BY InitRests
<1>2. IInv /\ [Next]_vars => IInv'
  BY NextKeeps
<1> QED
  BY <1>1, <1>2, PTL DEF Spec

-----------------------------------------------------------------------------
(* The theorems *)

(* Chains and the free list are intact whenever no collection runs: each   *)
(* node in use is on the chain of its own key, once, the free list ends,   *)
(* holds just the other nodes and is as long as free_count says            *)
(* (bddtable_find_or_add_node, bddtable_alloc_node, bdd_gc).               *)
THEOREM TableStaysIntact == Spec => []TableIntact
<1>1. IInv => TableIntact
  BY IInvIntact
<1> QED
  BY <1>1, InvariantHolds, PTL

(* There is one node for each function, and notCase is the node of its     *)
(* negation, so that comparing addresses compares functions                *)
(* (bddtable_find_or_add_node, alloc_not_node).                            *)
THEOREM StaysCanonical == Spec => []Canonical
<1>1. IInv => Canonical
  BY IInvCanonical
<1> QED
  BY <1>1, InvariantHolds, PTL

(* A result in the table of ite is the one of its operands, although the   *)
(* table keeps no node alive: the collector empties it                     *)
(* (itetable_find_or_add_node, itetable_removeall).                        *)
THEOREM ResultsStayRight == Spec => []ResultsRight
<1>1. IInv => ResultsRight
  BY IInvResults
<1> QED
  BY <1>1, InvariantHolds, PTL

(* No step, in particular no step of a collection, changes what one of the *)
(* functions means (bdd_gc, bdd_flag_nodes).                               *)
THEOREM FunctionsStay == Spec => FunctionsKept
<1>1. IInv /\ [Next]_vars => [\A n \in functions : Meaning'[n] = Meaning[n]]_vars
  <2> SUFFICES ASSUME IInv, [Next]_vars, NEW n \in functions
               PROVE  Meaning'[n] = Meaning[n]
    OBVIOUS
  <2>1. KeepsNodes(table.node, table'.node, functions)
    BY NextKeeps DEF Kept
  <2>2. PICK node, node2 : node = table.node /\ node2 = table'.node
    OBVIOUS
  <2>3. MeaningOf(node2)[n] = MeaningOf(node)[n]
    BY <2>1, <2>2, KeepsMeanings
  <2>4. Meaning' = MeaningOf(node2)
    BY <2>2 DEF Meaning, MeaningOf
  <2> QED
    BY <2>2, <2>3, <2>4, MeaningIs
<1> QED
  BY <1>1, InvariantHolds, PTL DEF Spec, FunctionsKept
=============================================================================
