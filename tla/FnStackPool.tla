---------------------------- MODULE FnStackPool -----------------------------
(***************************************************************************)
(* The memory of the function stack (src/src/solv_smurf/fn_stack.cc): a    *)
(* chain of chunks, arrays of newsize cells, allocated when the stack      *)
(* outgrows the newest chunk and kept when it shrinks.  A chunk starts and *)
(* ends with bookkeeping cells:                                            *)
(*                                                                         *)
(*   0          index_pool: the stack index to return to                   *)
(*   1          next_pool:  the chunk below                                *)
(*   2          nFnId = POOL_START                                         *)
(*   newsize-2  nFnId = POOL_END                                           *)
(*   newsize-1  next_pool: the chunk above                                 *)
(*                                                                         *)
(* The stack is crossed from chunk to chunk by comparing nFnId with these  *)
(* marks.  This implements the sequence that FnStack works with.           *)
(***************************************************************************)
EXTENDS Integers, Sequences

CONSTANTS Fn,         \* function numbers
          newsize,    \* cells of a chunk, (nNumFuncs+1)*MULT + 10000 there
          MaxDepth    \* bound on the depth of the stack

ASSUME FnAssumption    == Fn \subseteq Nat
ASSUME SizeAssumption  == newsize \in Nat /\ newsize >= 6
ASSUME DepthAssumption == MaxDepth \in Nat

LEVEL_START == -1
POOL_START  == -2
POOL_END    == -3

NULL == 0

Item == Fn \cup {LEVEL_START}

(* link is the union's index_pool or next_pool, wherever one is used. *)
Cell == [nFnId : Item \cup {POOL_START, POOL_END, 0}, link : Nat]

VARIABLES chunks,     \* the chunks, in the order of their allocation
          arrFnStack, \* the number of the current one
          nFnStackIdx,
          last        \* the last item pushed or handed to procRestoreFromStack

vars == <<chunks, arrFnStack, nFnStackIdx, last>>

CellAt(i) == chunks[arrFnStack][i]

(* calloc, and what AllocateFnStack writes. *)
NewChunk(index, below) ==
  [i \in 0..newsize - 1 |->
     [nFnId |-> CASE i = 2 -> POOL_START
                  [] i = newsize - 2 -> POOL_END
                  [] OTHER -> 0,
      link  |-> CASE i = 0 -> index
                  [] i = 1 -> below
                  [] OTHER -> NULL]]

Init ==
  /\ chunks = <<NewChunk(0, NULL)>>
  /\ arrFnStack = 1
  /\ nFnStackIdx = 2
  /\ last = [op |-> "none", item |-> LEVEL_START]

Write(cs, c, i, x) == [cs EXCEPT ![c][i].nFnId = x]

(* Mutant: the end of the chunk is not looked for. *)
PushHereUnchecked(x) ==
  /\ nFnStackIdx' = nFnStackIdx + 1
  /\ chunks' = Write(chunks, arrFnStack, nFnStackIdx', x)
  /\ UNCHANGED arrFnStack

(* FnStackPush or FnStackMark while the chunk has room ... *)
PushHere(x) ==
  /\ CellAt(nFnStackIdx + 1).nFnId # POOL_END
  /\ nFnStackIdx' = nFnStackIdx + 1
  /\ chunks' = Write(chunks, arrFnStack, nFnStackIdx', x)
  /\ UNCHANGED arrFnStack

(* ... when FnStackNext finds a chunk that was allocated before ... *)
PushAbove(x) ==
  /\ CellAt(nFnStackIdx + 1).nFnId = POOL_END
  /\ CellAt(nFnStackIdx + 2).link # NULL
  /\ arrFnStack' = CellAt(nFnStackIdx + 2).link
  /\ nFnStackIdx' = 3
  /\ chunks' = Write(chunks, arrFnStack', nFnStackIdx', x)

(* Mutant: the new chunk is not linked to the one below it. *)
PushNewUnlinked(x) ==
  LET new == Len(chunks) + 1
  IN  /\ CellAt(nFnStackIdx + 1).nFnId = POOL_END
      /\ CellAt(nFnStackIdx + 2).link = NULL
      /\ arrFnStack' = new
      /\ nFnStackIdx' = 3
      /\ chunks' = Write(Append(chunks, NewChunk(nFnStackIdx + 1, arrFnStack)),
                         new, nFnStackIdx', x)

(* ... and when it has to allocate one (AllocateFnStack). *)
PushNew(x) ==
  LET new == Len(chunks) + 1
      linked == [chunks EXCEPT ![arrFnStack][newsize - 1].link = new]
  IN  /\ CellAt(nFnStackIdx + 1).nFnId = POOL_END
      /\ CellAt(nFnStackIdx + 2).link = NULL
      /\ arrFnStack' = new
      /\ nFnStackIdx' = 3
      /\ chunks' = Write(Append(linked, NewChunk(nFnStackIdx + 1, arrFnStack)),
                         new, nFnStackIdx', x)

(* The entries below the current index, in the current and the chunks below.*)
Room == newsize - 5

Depth == (arrFnStack - 1) * Room + nFnStackIdx - 2

Contents ==
  [d \in 1..Depth |->
     chunks[1 + ((d - 1) \div Room)][3 + ((d - 1) % Room)].nFnId]

Push(x) ==
  /\ Depth < MaxDepth
  /\ PushHere(x) \/ PushAbove(x) \/ PushNew(x)
  /\ last' = [op |-> "push", item |-> x]

(* One turn of the loop of pop_state_information, which runs only while    *)
(* there is a mark to reach: it takes an entry off ...                     *)
Pop ==
  /\ Depth > 0
  /\ CellAt(nFnStackIdx).nFnId # POOL_START
  /\ nFnStackIdx' = nFnStackIdx - 1
  /\ last' = [op |-> "pop", item |-> CellAt(nFnStackIdx).nFnId]
  /\ UNCHANGED <<chunks, arrFnStack>>

(* Mutant: one cell too many is skipped. *)
PopChunkSkips ==
  /\ Depth > 0
  /\ CellAt(nFnStackIdx).nFnId = POOL_START
  /\ arrFnStack' = CellAt(1).link
  /\ nFnStackIdx' = CellAt(0).link - 2
  /\ UNCHANGED <<chunks, last>>

(* ... or returns to the chunk below.  There it is at POOL_END, and the    *)
(* turn ends one cell lower. *)
PopChunk ==
  /\ Depth > 0
  /\ CellAt(nFnStackIdx).nFnId = POOL_START
  /\ arrFnStack' = CellAt(1).link
  /\ nFnStackIdx' = CellAt(0).link - 1
  /\ UNCHANGED <<chunks, last>>

Next == (\E x \in Item : Push(x)) \/ Pop \/ PopChunk

Spec == Init /\ [][Next]_vars

L == INSTANCE LifoStack WITH stack <- Contents

-----------------------------------------------------------------------------
TypeOK ==
  /\ chunks \in Seq([0..newsize - 1 -> Cell])
  /\ arrFnStack \in DOMAIN chunks
  /\ nFnStackIdx \in 2..newsize - 3
  /\ last \in [op : {"none", "push", "pop"}, item : Item]

(* Entries overwrite no bookkeeping, and the links stay those of one chain *)
(* in both directions, so a chunk that is used again is entered and left   *)
(* at the right cells (asserts in fn_stack.cc:80, 127 and 231).            *)
ChainIntact ==
  /\ TypeOK
  /\ \A c \in DOMAIN chunks :
       /\ chunks[c][0].link = IF c = 1 THEN 0 ELSE newsize - 2
       /\ chunks[c][1].link = c - 1
       /\ chunks[c][newsize - 1].link = IF c = Len(chunks) THEN NULL ELSE c + 1
       /\ \A i \in 2..newsize - 2 :
            /\ chunks[c][i].nFnId = POOL_START <=> i = 2
            /\ chunks[c][i].nFnId = POOL_END <=> i = newsize - 2

(* Memory is allocated only when every chunk is full. *)
ReusesChunks ==
  [][Len(chunks') > Len(chunks) => Depth = Len(chunks) * Room]_vars

(* The chunks behave as one stack: crossing a boundary, up into a new or   *)
(* a used chunk or down again, loses, repeats and reorders no entry, and   *)
(* the functions handed to procRestoreFromStack are the last ones saved.   *)
ImplementsLifo == L!Spec
=============================================================================
