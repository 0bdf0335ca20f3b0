------------------------------ MODULE BddTable ------------------------------
(***************************************************************************)
(* The memory of the BDD package: the table of nodes, which hands out one  *)
(* node for each function, always together with the node of its negation,  *)
(* and the garbage collector (src/src/utils/bddtable.cc).                  *)
(*                                                                         *)
(* A node is its address.  Pools of nodes are filled one after the other;  *)
(* the collector links the nodes not reachable from functions[] in a free  *)
(* list, puts the others on new hash chains, gives pools without a         *)
(* reachable node back to malloc, and empties the table of results of ite, *)
(* whose entries keep no node alive.  Sweeping a pool is one action.       *)
(***************************************************************************)
EXTENDS Integers, FiniteSetsExt, SequencesExt

CONSTANTS NumVars,
          Buckets,        \* size of hash_memory
          MaxPools,       \* bound on the pools malloc has room for
          PoolSize,       \* max of the pools
          Built,          \* the functions the program builds, as sets of assignments
          MaxFunctions,   \* bound on functions[]
          MaxCached       \* bound on the results in the itetable

ASSUME BddTableAssumption ==
  /\ NumVars \in Nat /\ Buckets \in Nat \ {0}
  /\ MaxPools \in Nat \ {0} /\ PoolSize \in Nat /\ PoolSize > 2
  /\ MaxFunctions \in Nat /\ MaxCached \in Nat

B == INSTANCE BoolFn

Pool    == 1..MaxPools
Address == 1..MaxPools * PoolSize
NULL    == 0

false_ptr == 1
true_ptr  == 2
Constants == {false_ptr, true_ptr}

Memory(p) == [j \in 1..PoolSize |-> (p - 1) * PoolSize + j]

Zeroed == [variable |-> 0, thenCase |-> NULL, elseCase |-> NULL,
           notCase |-> NULL, next |-> NULL]

VARIABLES
  table,       \* node: the memory; bddmemory: the pools, curBDDPos: how many
               \* nodes of the last were handed out; hash_memory; free,
               \* free_count: the free list
  functions,   \* functions[] and original_functions[]
  itetable,    \* the results of ite_and: operands and result
  sweep        \* the variables of bdd_gc while it runs

vars == <<table, functions, itetable, sweep>>

Node == [variable : -1..NumVars, thenCase : Address \cup {NULL},
         elseCase : Address \cup {NULL}, notCase : Address \cup {NULL},
         next : Address \cup {NULL}]

Idle == [running |-> FALSE, flagged |-> {}, i |-> 0, chain_free |-> NULL]

hash_fn(v, r, e) == (v + r + e) % Buckets

HashOf(t, n) == hash_fn(t.node[n].variable, t.node[n].thenCase, t.node[n].elseCase)

ConstantNode(n, not) == [Zeroed EXCEPT !.variable = -1, !.thenCase = n,
                                       !.elseCase = n, !.notCase = not]

Init ==
  /\ table = [node |-> [n \in Address |->
                          CASE n = false_ptr -> ConstantNode(n, true_ptr)
                            [] n = true_ptr  -> ConstantNode(n, false_ptr)
                            [] OTHER         -> Zeroed],
              bddmemory |-> <<1>>, curBDDPos |-> 2,
              hash_memory |-> [h \in 0..Buckets - 1 |-> NULL],
              free |-> NULL, free_count |-> 0]
  /\ functions = {}
  /\ itetable = {}
  /\ sweep = Idle

-----------------------------------------------------------------------------
(* Chains and lists: what is linked from start on. *)

Links(t, start) ==
  LET at[i \in 0..Cardinality(Address)] ==
        IF i = 0 THEN start
        ELSE IF at[i - 1] = NULL THEN NULL ELSE t.node[at[i - 1]].next
  IN  at

Linked(t, start) == Range(Links(t, start)) \ {NULL}

Chain(h) == Linked(table, table.hash_memory[h])

Free == Linked(table, table.free)

(* The nodes of a pool that were ever handed out. *)
Used(t, i) == Range(SubSeq(Memory(t.bddmemory[i]), 1,
                           IF i = Len(t.bddmemory) THEN t.curBDDPos ELSE PoolSize))

Allocated == (UNION {Used(table, i) : i \in DOMAIN table.bddmemory}) \ Free

HasKey(n, v, r, e) ==
  table.node[n].variable = v /\ table.node[n].thenCase = r /\ table.node[n].elseCase = e

Found(v, r, e) == {n \in Chain(hash_fn(v, r, e)) : HasKey(n, v, r, e)}

(* The function of each node that is in use *)
Meaning ==
  LET means[n \in Address] ==
        LET v == table.node[n].variable
            Below(m) == m # NULL /\ table.node[m].variable < v
            r == table.node[n].thenCase
            e == table.node[n].elseCase
        IN  IF n = true_ptr THEN B!true_ptr
            ELSE IF n = false_ptr \/ ~Below(r) \/ ~Below(e) THEN B!false_ptr
            ELSE {m \in B!Assignment : m \in IF m[v] = B!BOOL_TRUE THEN means[r]
                                                                    ELSE means[e]}
  IN  means

-----------------------------------------------------------------------------
(* find_or_add_node *)

(* A node found below the head of its chain changes places with the one    *)
(* before it: what pointed to that points to n. *)
Swapped(t, n, before) ==
  LET h == HashOf(t, n)
      Pointing == {m \in Address : t.node[m].next = before /\ m # before}
      atHead   == t.hash_memory[h] = before
  IN  [t EXCEPT !.node = [m \in Address |->
                            CASE m = n      -> [@[m] EXCEPT !.next = before]
                              [] m = before -> [@[m] EXCEPT !.next = t.node[n].next]
                              [] ~atHead /\ m \in Pointing -> [@[m] EXCEPT !.next = n]
                              [] OTHER -> @[m]],
                !.hash_memory[h] = IF atHead THEN n ELSE @]

(* find_or_add_node(v, r, e) finds n, and before is in front of it. *)
FindNode(n, before) ==
  /\ HashOf(table, before) = HashOf(table, n) /\ table.node[before].next = n
  /\ table' = Swapped(table, n, before)
  /\ UNCHANGED <<functions, itetable, sweep>>

Fresh == Pool \ Range(table.bddmemory)

(* The memory malloc may hand out for the next pool, if there is a next    *)
(* one. *)
NextPool == IF Cardinality(Free) + PoolSize - table.curBDDPos >= 2 THEN {NULL} ELSE Fresh

(* bddtable_alloc_node, before the node is linked *)
AllocNode(t, v, r, e, p) ==
  LET grown == IF t.free # NULL \/ t.curBDDPos < PoolSize THEN t
               ELSE [t EXCEPT !.bddmemory = Append(@, p), !.curBDDPos = 0]
      taken == t.free # NULL
      n     == IF taken THEN t.free
               ELSE Memory(Last(grown.bddmemory))[grown.curBDDPos + 1]
  IN  [n |-> n,
       t |-> [grown EXCEPT !.free       = IF taken THEN t.node[n].next ELSE NULL,
                           !.free_count = IF taken THEN @ - 1 ELSE @,
                           !.curBDDPos  = IF taken THEN @ ELSE @ + 1,
                           !.node[n] = [Zeroed EXCEPT !.variable = v, !.thenCase = r,
                                                      !.elseCase = e]]]

(* The new node is put at the end of its chain ... *)
AtEnd(t, n) ==
  LET h    == HashOf(t, n)
      tail == {m \in Linked(t, t.hash_memory[h]) : t.node[m].next = NULL}
  IN  IF tail = {} THEN [t EXCEPT !.hash_memory[h] = n]
      ELSE [t EXCEPT !.node = [m \in Address |->
                                 IF m \in tail THEN [@[m] EXCEPT !.next = n] ELSE @[m]]]

(* ... and the node of its negation at the head of its own. *)
AtHead(t, n) ==
  LET h == HashOf(t, n)
  IN  [t EXCEPT !.node[n].next = t.hash_memory[h], !.hash_memory[h] = n]

alloc_not_node(t, n, p) ==
  LET Not(m) == t.node[m].notCase
      new == AllocNode(t, t.node[n].variable, Not(t.node[n].thenCase),
                        Not(t.node[n].elseCase), p)
  IN  AtHead([new.t EXCEPT !.node[n].notCase = new.n, !.node[new.n].notCase = n], new.n)

AddNode(v, r, e, p) ==
  LET new   == AllocNode(table, v, r, e, p)
      means == Meaning
  IN  /\ r # e
      /\ v > table.node[r].variable /\ v > table.node[e].variable
      /\ Found(v, r, e) = {}
      /\ {m \in B!Assignment : m \in IF m[v] = B!BOOL_TRUE THEN means[r] ELSE means[e]}
           \in Built
      /\ table' = alloc_not_node(AtEnd(new.t, new.n), new.n, p)
      /\ UNCHANGED <<functions, itetable, sweep>>

-----------------------------------------------------------------------------
(* The program that uses the nodes *)

Result(F, G) == F \cap G

(* The end of ite_and, when the node of the result was found. *)
itetable_add_node(x, y) ==
  LET means == Meaning
  IN  /\ table.node[x].variable >= table.node[y].variable
      /\ x # y /\ table.node[x].notCase # y
      /\ ~\E c \in itetable : c.x = x /\ c.y = y
      /\ Cardinality(itetable) < MaxCached
      /\ \E result \in Allocated :
           /\ means[result] = Result(means[x], means[y])
           /\ itetable' = itetable \cup {[x |-> x, y |-> y, cached_ite |-> result]}
      /\ UNCHANGED <<table, functions, sweep>>

(* Preprocessing replaces functions. *)
SetFunction(old, new) ==
  /\ functions' = (functions \ {old}) \cup {new}
  /\ Cardinality(functions') <= MaxFunctions
  /\ functions' # functions
  /\ UNCHANGED <<table, itetable, sweep>>

-----------------------------------------------------------------------------
(* bdd_gc *)

(* Mutant: negations are not followed. *)
ChildrenOnly(n) == {table.node[n].thenCase, table.node[n].elseCase}

(* Mutant: else links are not followed. *)
NotElse(n) == {table.node[n].thenCase, table.node[n].notCase}

FlaggedNext(n) == {table.node[n].thenCase, table.node[n].elseCase, table.node[n].notCase}

(* bdd_flag_nodes, called for each function *)
Flagged ==
  LET upto[k \in 0..Cardinality(Address)] ==
        IF k = 0 THEN functions \cup Constants
        ELSE upto[k - 1] \cup UNION {FlaggedNext(n) : n \in upto[k - 1]}
  IN  upto[Cardinality(Address)]

StartGc ==
  /\ sweep' = [running |-> TRUE, flagged |-> Flagged, i |-> 1, chain_free |-> NULL]
  /\ table' = [table EXCEPT !.hash_memory = [h \in DOMAIN @ |-> NULL],
                            !.free = NULL, !.free_count = 0]
  /\ UNCHANGED <<functions, itetable>>

(* chain_free, which is NULL while it points to bddtable_free, is written. *)
Link(t, chain_free, n) ==
  IF chain_free = NULL THEN [t EXCEPT !.free = n]
                       ELSE [t EXCEPT !.node[chain_free].next = n]

(* One node: acc is the table and chain_free. *)
Sweep(acc, n) ==
  IF n \in sweep.flagged
  THEN [acc EXCEPT !.t = AtHead(@, n)]
  ELSE [t |-> Link([acc.t EXCEPT !.node[n] = Zeroed, !.free_count = @ + 1],
                   acc.chain_free, n),
        chain_free |-> n]

SweptNodes(i) ==
  LET max == IF i = Len(table.bddmemory) THEN table.curBDDPos ELSE PoolSize
  IN  FoldLeft(Sweep, [t |-> table, chain_free |-> sweep.chain_free],
               SubSeq(Memory(table.bddmemory[i]), 1, max))

Unused(i) == i # Len(table.bddmemory)
             /\ Range(Memory(table.bddmemory[i])) \cap sweep.flagged = {}

SweepPool ==
  LET swept == SweptNodes(sweep.i)
  IN  /\ sweep.running /\ sweep.i <= Len(table.bddmemory)
      /\ ~Unused(sweep.i)
      /\ table' = swept.t
      /\ sweep' = [sweep EXCEPT !.i = @ + 1, !.chain_free = swept.chain_free]
      /\ UNCHANGED <<functions, itetable>>

(* Mutant: the nodes of the pool still count as free. *)
CountKept(t) == t.free_count

CountWithout(t) == t.free_count - PoolSize

(* A pool without a flagged node: chain_free returns to what it was before *)
(* the pool, and ends the list there.  What malloc hands out again is      *)
(* zeroed by calloc. *)
DropPool ==
  LET i     == sweep.i
      swept == SweptNodes(i).t
      ended == Link(swept, sweep.chain_free, NULL)
  IN  /\ sweep.running /\ i <= Len(table.bddmemory)
      /\ Unused(i)
      /\ table' = [ended EXCEPT !.bddmemory = RemoveAt(@, i),
                                !.node = [n \in Address |->
                                  IF n \in Range(Memory(table.bddmemory[i])) THEN Zeroed
                                                                             ELSE @[n]],
                                !.free_count = CountWithout(swept)]
      /\ UNCHANGED <<functions, itetable, sweep>>

(* Mutant: the results of ite are kept. *)
AllKept == itetable

itetable_removeall == {}

EndGc ==
  /\ sweep.running /\ sweep.i > Len(table.bddmemory)
  /\ itetable' = itetable_removeall
  /\ sweep' = Idle
  /\ UNCHANGED <<table, functions>>

Next ==
  \/ /\ ~sweep.running
     /\ \/ \E n \in Allocated \ Constants, before \in Allocated : FindNode(n, before)
        \/ \E v \in B!Var, r, e \in Allocated, p \in NextPool : AddNode(v, r, e, p)
        \/ \E x, y \in Allocated \ Constants : itetable_add_node(x, y)
        \/ \E old \in functions \cup {NULL}, new \in Allocated : SetFunction(old, new)
        \/ StartGc
  \/ SweepPool \/ DropPool \/ EndGc

Spec == Init /\ [][Next]_vars

-----------------------------------------------------------------------------
TypeOK ==
  /\ table.node \in [Address -> Node]
  /\ IsInjective(table.bddmemory) /\ Range(table.bddmemory) \subseteq Pool
  /\ table.curBDDPos \in 0..PoolSize
  /\ table.hash_memory \in [0..Buckets - 1 -> Address \cup {NULL}]
  /\ table.free \in Address \cup {NULL}
  /\ functions \subseteq Address
  /\ sweep.i \in 0..MaxPools + 1

(* Whenever the program runs, each node in use is on the chain of its own  *)
(* key, once, and no other node is on any; the free list ends, is as long  *)
(* as it is counted, and holds just the other nodes of the pools.          *)
TableIntact ==
  TypeOK /\ (~sweep.running =>
    /\ \A h \in DOMAIN table.hash_memory :
         LET at == Links(table, table.hash_memory[h])
         IN  /\ \A i, j \in DOMAIN at : at[i] = at[j] => i = j \/ at[i] = NULL
             /\ \A n \in Chain(h) : n \in Allocated /\ HashOf(table, n) = h
    /\ \A n \in Allocated \ Constants : n \in Chain(HashOf(table, n))
    /\ \A n \in Free : table.node[n].variable = 0
    /\ Links(table, table.free)[Cardinality(Address)] = NULL
    /\ table.free_count = Cardinality(Free))

(* There is one node for each function, at any time, after any collection, *)
(* and notCase is the node of the negation, so that nodes can be compared  *)
(* by their addresses.                                                     *)
Canonical ==
  ~sweep.running =>
    LET means == Meaning
        in_use == Allocated
    IN  \A n \in in_use :
          LET not == table.node[n].notCase
          IN  /\ not \in in_use /\ table.node[not].notCase = n
              /\ means[not] = B!Assignment \ means[n]
              /\ \A m \in in_use : means[n] = means[m] => n = m

(* What a function means is not changed by anything, in particular by      *)
(* collections and by reuse of nodes.                                      *)
FunctionsKept == [][\A n \in functions : Meaning'[n] = Meaning[n]]_vars

(* A result found in the itetable is the one of its operands as they are   *)
(* now, although the table keeps no node alive and compares addresses.     *)
ResultsRight ==
  ~sweep.running =>
    \A c \in itetable :
      /\ {c.x, c.y, c.cached_ite} \subseteq Allocated
      /\ Meaning[c.cached_ite] = Result(Meaning[c.x], Meaning[c.y])
=============================================================================
