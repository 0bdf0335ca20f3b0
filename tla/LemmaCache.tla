----------------------------- MODULE LemmaCache -----------------------------
(***************************************************************************)
(* The lemma cache (src/src/solv_smurf/fn_lemma/lemmacache.cc).  A lemma   *)
(* waits in a list of unit lemmas until backtracking hands it to the       *)
(* cache, three doubly linked queues.  Each queue has a bound; enqueueing  *)
(* above it first takes lemmas off the tail, skipping those the backtrack  *)
(* stack refers to.  A lemma taken off queue 0 or 1 that is short or was   *)
(* used goes to the next queue, whose own tail may have to give way (the   *)
(* calls nest three deep); every other one is freed.                       *)
(*                                                                         *)
(* One thread runs this code.  The loop of RemoveLemmasFromCache is        *)
(* modelled turn by turn, because a turn changes the links that the next   *)
(* turn follows.  calls holds the activations of L0-, L1- and L2PQEnqueue. *)
(***************************************************************************)
EXTENDS Integers, Sequences, FiniteSets

CONSTANTS Lemma,                 \* the LemmaInfoStructs; bounds the lemmas
          NULL,
          MAX_NUM_CACHED_LEMMAS,
          MaxPinned              \* bound on the references, one for each
                                 \* assigned variable at most

ASSUME LemmaAssumption  == IsFiniteSet(Lemma) /\ NULL \notin Lemma
ASSUME MaxAssumption    == MAX_NUM_CACHED_LEMMAS \in Nat \ {0}
ASSUME PinnedAssumption == MaxPinned \in Nat

Queue == 0..2

Bound == [c \in Queue |->
            CASE c = 0 -> MAX_NUM_CACHED_LEMMAS \div 5
              [] c = 1 -> MAX_NUM_CACHED_LEMMAS
              [] c = 2 -> (MAX_NUM_CACHED_LEMMAS * 4) \div 5]

(* An activation of PQEnqueue: the queue, the lemma to enqueue, and the    *)
(* cursor and counter of RemoveLemmasFromCache. *)
Call == [c : Queue, lemma : Lemma, p : Lemma \cup {NULL}, toRemove : Nat]

VARIABLES pLPQFirst, pLPQLast, nNumCachedLemmas,   \* of each queue
          pLPQPrev, pLPQNext, cache,               \* of each lemma
          nBacktrackStackReferences,
          lastUsed,      \* nLemmaLastUsed # 0
          short,         \* arrLits[0] < 7
          freeLemmas,    \* pFreeLemmaInfoStructPool
          unitLemmas,    \* in the unit lemma list of a choice point
          calls

queues == <<pLPQFirst, pLPQLast, nNumCachedLemmas, pLPQPrev, pLPQNext, cache>>
usage  == <<nBacktrackStackReferences, lastUsed, short>>
vars   == <<queues, usage, freeLemmas, unitLemmas, calls>>

Init ==
  /\ pLPQFirst = [c \in Queue |-> NULL]
  /\ pLPQLast = [c \in Queue |-> NULL]
  /\ nNumCachedLemmas = [c \in Queue |-> 0]
  /\ pLPQPrev = [l \in Lemma |-> NULL]
  /\ pLPQNext = [l \in Lemma |-> NULL]
  /\ cache = [l \in Lemma |-> 0]
  /\ nBacktrackStackReferences = [l \in Lemma |-> 0]
  /\ lastUsed = [l \in Lemma |-> FALSE]
  /\ short = [l \in Lemma |-> FALSE]
  /\ freeLemmas = Lemma
  /\ unitLemmas = {}
  /\ calls = <<>>

Enqueuing == {calls[i].lemma : i \in DOMAIN calls}

InQueue(c) ==
  {l \in Lemma \ (freeLemmas \cup unitLemmas \cup Enqueuing) : cache[l] = c}

Cached == UNION {InQueue(c) : c \in Queue}

-----------------------------------------------------------------------------
(* The queues *)

(* f with every value of the set of pairs us written into it; a pair at    *)
(* NULL, where the code tests the pointer first, writes nothing. *)
Written(f, us) ==
  [x \in DOMAIN f |->
     IF \E u \in us : u[1] = x THEN (CHOOSE u \in us : u[1] = x)[2] ELSE f[x]]

LPQEnqueue(c, p) ==
  /\ nNumCachedLemmas' = [nNumCachedLemmas EXCEPT ![c] = @ + 1]
  /\ pLPQPrev' = Written(pLPQPrev, {<<pLPQFirst[c], p>>, <<p, NULL>>})
  /\ pLPQNext' = [pLPQNext EXCEPT ![p] = pLPQFirst[c]]
  /\ pLPQLast' = IF pLPQFirst[c] = NULL THEN [pLPQLast EXCEPT ![c] = p]
                                        ELSE pLPQLast
  /\ pLPQFirst' = [pLPQFirst EXCEPT ![c] = p]
  /\ cache' = [cache EXCEPT ![p] = c]

(* Mutant: the tail of the queue is not looked after. *)
LPQDequeueNotTail(p) ==
  LET c == cache[p]
  IN  /\ nNumCachedLemmas' = [nNumCachedLemmas EXCEPT ![c] = @ - 1]
      /\ pLPQNext' = Written(pLPQNext, {<<pLPQPrev[p], pLPQNext[p]>>})
      /\ pLPQPrev' = Written(pLPQPrev, {<<pLPQNext[p], pLPQPrev[p]>>})
      /\ pLPQFirst' = IF p = pLPQFirst[c]
                        THEN [pLPQFirst EXCEPT ![c] = pLPQNext[p]]
                        ELSE pLPQFirst
      /\ UNCHANGED <<pLPQLast, cache>>

(* The links of p itself stay as they are. *)
LPQDequeue(p) ==
  LET c == cache[p]
  IN  /\ nNumCachedLemmas' = [nNumCachedLemmas EXCEPT ![c] = @ - 1]
      /\ pLPQNext' = Written(pLPQNext, {<<pLPQPrev[p], pLPQNext[p]>>})
      /\ pLPQPrev' = Written(pLPQPrev, {<<pLPQNext[p], pLPQPrev[p]>>})
      /\ pLPQLast' = IF p = pLPQLast[c] THEN [pLPQLast EXCEPT ![c] = pLPQPrev[p]]
                                        ELSE pLPQLast
      /\ pLPQFirst' = IF p = pLPQFirst[c]
                        THEN [pLPQFirst EXCEPT ![c] = pLPQNext[p]]
                        ELSE pLPQFirst
      /\ UNCHANGED cache

(* L0PQEnqueue, L1PQEnqueue or L2PQEnqueue is called, with n lemmas in the *)
(* queue and last at its tail. *)
PQEnqueue(c, lemma, n, last) ==
  [c |-> c, lemma |-> lemma, p |-> last,
   toRemove |-> IF n > Bound[c] THEN n - Bound[c] + 1 ELSE 0]

-----------------------------------------------------------------------------
(* The loop of RemoveLemmasFromCache, in the latest call *)

Top == calls[Len(calls)]

Removing == calls # <<>> /\ Top.toRemove > 0 /\ Top.p # NULL

(* Mutant: the references are not looked at. *)
FreeableAnyway(l) == TRUE

Freeable(l) == nBacktrackStackReferences[l] <= 0

(* Mutant: the loop stays at a lemma that is referred to. *)
SkipPinnedStays ==
  /\ Removing
  /\ ~Freeable(Top.p)
  /\ UNCHANGED vars

(* Mutant: the loop ends at a lemma that is referred to. *)
SkipPinnedStops ==
  /\ Removing
  /\ ~Freeable(Top.p)
  /\ calls' = [calls EXCEPT ![Len(calls)].p = NULL]
  /\ UNCHANGED <<queues, usage, freeLemmas, unitLemmas>>

SkipPinned ==
  /\ Removing
  /\ ~Freeable(Top.p)
  /\ calls' = [calls EXCEPT ![Len(calls)].p = pLPQPrev[@]]
  /\ UNCHANGED <<queues, usage, freeLemmas, unitLemmas>>

(* L0Filter, L1Filter and L2Filter *)
Kept(c, p) == c < 2 /\ (short[p] \/ lastUsed[p])

(* The filter frees the lemma; the loop goes on from the link it still has.*)
RemoveFree ==
  /\ Removing
  /\ Freeable(Top.p)
  /\ ~Kept(Top.c, Top.p)
  /\ LPQDequeue(Top.p)
  /\ freeLemmas' = freeLemmas \cup {Top.p}
  /\ calls' = [calls EXCEPT ![Len(calls)].p = pLPQPrev[@],
                            ![Len(calls)].toRemove = @ - 1]
  /\ UNCHANGED <<usage, unitLemmas>>

(* Mutant: the filter does not return after it has kept the lemma. *)
RemoveKeepAndFree ==
  LET c == Top.c  p == Top.p
  IN  /\ Removing
      /\ Freeable(p)
      /\ Kept(c, p)
      /\ LPQDequeue(p)
      /\ lastUsed' = [lastUsed EXCEPT ![p] = FALSE]
      /\ freeLemmas' = freeLemmas \cup {p}
      /\ calls' = Append([calls EXCEPT ![Len(calls)].toRemove = @ - 1],
                         PQEnqueue(c + 1, p, nNumCachedLemmas[c + 1],
                                   pLPQLast[c + 1]))
      /\ UNCHANGED <<nBacktrackStackReferences, short, unitLemmas>>

(* The filter passes the lemma on to the next queue. *)
RemoveKeep ==
  LET c == Top.c  p == Top.p
  IN  /\ Removing
      /\ Freeable(p)
      /\ Kept(c, p)
      /\ LPQDequeue(p)
      /\ lastUsed' = [lastUsed EXCEPT ![p] = FALSE]
      /\ calls' = Append([calls EXCEPT ![Len(calls)].toRemove = @ - 1],
                         PQEnqueue(c + 1, p, nNumCachedLemmas[c + 1],
                                   pLPQLast[c + 1]))
      /\ UNCHANGED <<nBacktrackStackReferences, short, freeLemmas, unitLemmas>>

(* The loop is over: the call enqueues its lemma and returns.  A caller    *)
(* goes on from the link that the lemma it was about has now. *)
EndEnqueue ==
  LET rest == SubSeq(calls, 1, Len(calls) - 1)
  IN  /\ calls # <<>>
      /\ ~Removing
      /\ LPQEnqueue(Top.c, Top.lemma)
      /\ calls' = IF rest = <<>> THEN <<>>
                  ELSE [rest EXCEPT ![Len(rest)].p = pLPQPrev'[@]]
      /\ UNCHANGED <<usage, freeLemmas, unitLemmas>>

CacheStep == SkipPinned \/ RemoveFree \/ RemoveKeep \/ EndEnqueue

-----------------------------------------------------------------------------
(* The solver's use of the cache *)

Idle == calls = <<>>

(* BackTrack derives a lemma and puts it into its list of unit lemmas. *)
AddLemma(l, isShort) ==
  /\ Idle
  /\ l \in freeLemmas
  /\ freeLemmas' = freeLemmas \ {l}
  /\ unitLemmas' = unitLemmas \cup {l}
  /\ short' = [short EXCEPT ![l] = isShort]
  /\ nBacktrackStackReferences' = [nBacktrackStackReferences EXCEPT ![l] = 0]
  /\ UNCHANGED <<queues, lastUsed, calls>>

(* A unit lemma whose inference was undone goes into the cache. *)
AddLemmaIntoCache(l) ==
  /\ Idle
  /\ l \in unitLemmas
  /\ unitLemmas' = unitLemmas \ {l}
  /\ lastUsed' = [lastUsed EXCEPT ![l] = FALSE]
  /\ calls' = <<PQEnqueue(0, l, nNumCachedLemmas[0], pLPQLast[0])>>
  /\ UNCHANGED <<queues, nBacktrackStackReferences, short, freeLemmas>>

(* A cached lemma has one literal left: it infers it, and must be kept     *)
(* until the inference is undone.  It cannot infer again before. *)
LemmaInfers(l) ==
  /\ Idle
  /\ l \in Cached
  /\ nBacktrackStackReferences[l] = 0
  /\ Cardinality({k \in Lemma : nBacktrackStackReferences[k] > 0}) < MaxPinned
  /\ nBacktrackStackReferences' = [nBacktrackStackReferences EXCEPT ![l] = @ + 1]
  /\ lastUsed' = [lastUsed EXCEPT ![l] = TRUE]
  /\ UNCHANGED <<queues, short, freeLemmas, unitLemmas, calls>>

(* A cached lemma is violated. *)
LemmaConflict(l) ==
  /\ Idle
  /\ l \in Cached
  /\ nBacktrackStackReferences[l] = 0
  /\ lastUsed' = [lastUsed EXCEPT ![l] = TRUE]
  /\ UNCHANGED <<queues, nBacktrackStackReferences, short, freeLemmas,
                 unitLemmas, calls>>

(* BackTrack undoes an inference that the lemma made and that plays no     *)
(* part in the conflict.  Unit lemmas infer too, without being counted. *)
PopInference(l) ==
  /\ Idle
  /\ l \notin freeLemmas
  /\ nBacktrackStackReferences[l] > 0
  /\ nBacktrackStackReferences' = [nBacktrackStackReferences EXCEPT ![l] = @ - 1]
  /\ UNCHANGED <<queues, lastUsed, short, freeLemmas, unitLemmas, calls>>

(* BackTrack undoes an inference that played a part (MoveToFrontOfLPQ). *)
PopAndMoveToFront(l) ==
  /\ Idle
  /\ l \notin freeLemmas
  /\ nBacktrackStackReferences[l] > 0
  /\ nBacktrackStackReferences' = [nBacktrackStackReferences EXCEPT ![l] = @ - 1]
  /\ lastUsed' = [lastUsed EXCEPT ![l] = TRUE]
  /\ LPQDequeue(l)
  /\ calls' = <<PQEnqueue(1, l, nNumCachedLemmas'[1], pLPQLast'[1])>>
  /\ UNCHANGED <<short, freeLemmas, unitLemmas>>

SolverStep ==
  \E l \in Lemma :
    \/ \E isShort \in BOOLEAN : AddLemma(l, isShort)
    \/ AddLemmaIntoCache(l)
    \/ LemmaInfers(l)
    \/ LemmaConflict(l)
    \/ PopInference(l)
    \/ PopAndMoveToFront(l)

Next == CacheStep \/ SolverStep

Spec == Init /\ [][Next]_vars

(* The program runs on while it is inside the cache. *)
FairSpec == Spec /\ WF_vars(CacheStep)

-----------------------------------------------------------------------------
TypeOK ==
  /\ pLPQFirst \in [Queue -> Lemma \cup {NULL}]
  /\ pLPQLast \in [Queue -> Lemma \cup {NULL}]
  /\ nNumCachedLemmas \in [Queue -> Nat]
  /\ pLPQPrev \in [Lemma -> Lemma \cup {NULL}]
  /\ pLPQNext \in [Lemma -> Lemma \cup {NULL}]
  /\ cache \in [Lemma -> Queue]
  /\ nBacktrackStackReferences \in [Lemma -> {0, 1}]
  /\ lastUsed \in [Lemma -> BOOLEAN]
  /\ short \in [Lemma -> BOOLEAN]
  /\ freeLemmas \in SUBSET Lemma
  /\ unitLemmas \in SUBSET Lemma
  /\ calls \in Seq(Call)

(* The first lemmas, up to n, that a chain of links leads to. *)
Follow(n, start, link) ==
  LET at[i \in 0..n] == IF i = 0 THEN start
                        ELSE IF at[i - 1] = NULL THEN NULL
                        ELSE link[at[i - 1]]
  IN  at

(* Each queue is one chain, the same read from either end, of exactly the  *)
(* lemmas that are in it, and its counter is their number, also between    *)
(* the turns of nested removals (asserts lemmacache.cc:145, 200, 204, 209).*)
Linked(c) ==
  LET n    == Cardinality(InQueue(c))
      down == Follow(n, pLPQFirst[c], pLPQNext)
      up   == Follow(n, pLPQLast[c], pLPQPrev)
  IN  /\ nNumCachedLemmas[c] = n
      /\ {down[i] : i \in 0..n - 1} = InQueue(c)
      /\ down[n] = NULL /\ up[n] = NULL
      /\ \A i \in 0..n - 1 : up[i] = down[n - 1 - i]

QueuesLinked == TypeOK /\ \A c \in Queue : Linked(c)

(* A lemma is in one place: it is free, or waits as a unit lemma, or is    *)
(* being passed on by one call, or is cached; and what the backtrack stack *)
(* refers to is cached (assert lemmas.cc:77). *)
OnePlace ==
  /\ freeLemmas \cap unitLemmas = {}
  /\ Enqueuing \cap (freeLemmas \cup unitLemmas) = {}
  /\ \A i, j \in DOMAIN calls : i # j => calls[i].lemma # calls[j].lemma
  /\ \A l \in Lemma : nBacktrackStackReferences[l] > 0 => l \in Cached

(* Trimming a queue frees no lemma that an inference on the backtrack      *)
(* stack refers to, nor the lemma for whose sake it is trimmed, which      *)
(* BackTrack resolves with next (lemmacache.cc:153, br_backtrack.cc:171).  *)
InUseKept ==
  [][\A l \in Lemma :
       (nBacktrackStackReferences[l] > 0 \/ l \in Enqueuing)
         => l \notin freeLemmas']_vars

(* A queue outgrows its bound by one lemma, or else has no more lemmas     *)
(* than can be referred to at one time and one.  A removal that ends early *)
(* still makes room for the lemma it is called for (lemmacache.cc:166-191).*)
CacheBounded ==
  \A c \in Queue :
    \/ nNumCachedLemmas[c] <= Bound[c] + 1
    \/ nNumCachedLemmas[c] <= MaxPinned + 1

(* Every call of the cache ends. *)
CallsEnd == calls # <<>> ~> calls = <<>>

(* The loop gives up before it has removed what it was asked to only when  *)
(* there are "not enough free-able lemmas" (lemmacache.cc:150). *)
StopsOnlyIfNoneFreeable ==
  (calls # <<>> /\ Top.p = NULL /\ Top.toRemove > 0)
    => \A l \in InQueue(Top.c) : ~Freeable(l)
=============================================================================
