------------------------- MODULE FnStackPool_proofs -------------------------
(***************************************************************************)
(* Theorems about the memory of the function stack, for any functions, any *)
(* size of a chunk and any bound on the depth: the chain of chunks stays   *)
(* intact, memory grows only when it is full, and the chunks behave as the *)
(* one sequence that LifoStack and FnStack speak of.                       *)
(***************************************************************************)
EXTENDS FnStackPool, SequenceTheorems, TLAPS

(* The cells of the stack hold entries: a cell that was never written holds*)
(* 0, and one may be handed out only if it is above the top.               *)
Filled ==
  \A c \in 1..arrFnStack, i \in 3..newsize - 3 :
    c < arrFnStack \/ i <= nFnStackIdx => chunks[c][i].nFnId \in Item

IInv == ChainIntact /\ Filled

(* Where the d-th entry of the stack is. *)
ChunkOf(d) == 1 + ((d - 1) \div Room)
CellOf(d)  == 3 + ((d - 1) % Room)

-----------------------------------------------------------------------------
(* Division with remainder. *)
LEMMA Division ==
  ASSUME NEW R \in Nat \ {0}, NEW a \in Nat
  PROVE  /\ a \div R \in Nat
         /\ a % R \in 0..R - 1
         /\ a = ((a \div R) * R) + (a % R)
<1>1. a \div R \in Nat /\ a % R \in 0..R - 1
  OBVIOUS
<1>2. a = (R * (a \div R)) + (a % R)
  OBVIOUS
<1>3. \A q \in Nat : R * q = q * R
  OBVIOUS
<1> QED
  BY <1>1, <1>2, <1>3

(* One more on the left is R more on the right. *)
LEMMA Multiples ==
  ASSUME NEW R \in Nat, NEW p \in Nat, NEW q \in Nat, p < q
  PROVE  (p * R) + R <= q * R
<1>1. PICK k \in Nat : q = p + 1 + k
  <2>1. q - p - 1 \in Nat /\ q = p + 1 + (q - p - 1)
    OBVIOUS
  <2> QED
    BY <2>1
<1>2. q * R = (p * R) + R + (k * R)
  BY <1>1
<1>3. k * R \in Nat
  BY <1>1
<1> QED
  BY <1>2, <1>3

(* Quotient and remainder are unique. *)
LEMMA DivisionUnique ==
  ASSUME NEW R \in Nat \ {0}, NEW q \in Nat, NEW r \in 0..R - 1
  PROVE  ((q * R) + r) \div R = q /\ ((q * R) + r) % R = r
<1> DEFINE a == (q * R) + r
<1>1. q * R \in Nat /\ a \in Nat
  OBVIOUS
<1>2. PICK p \in Nat : p = a \div R
  BY <1>1, Division
<1>3. PICK s \in 0..R - 1 : s = a % R
  BY <1>1, Division
<1>4. a = (p * R) + s
  BY <1>1, <1>2, <1>3, Division
<1>5. p = q
  <2>1. CASE p < q
    BY <1>4, <2>1, Multiples
  <2>2. CASE q < p
    BY <1>4, <2>2, Multiples
  <2> QED
    BY <2>1, <2>2
<1>6. s = r
  BY <1>4, <1>5
<1> QED
  BY <1>2, <1>3, <1>5, <1>6

-----------------------------------------------------------------------------
(* A chunk has room for at least one entry. *)
LEMMA RoomType == Room \in Nat \ {0} /\ newsize \in Nat /\ newsize = Room + 5
BY SizeAssumption DEF Room

(* The marks of a chunk are no entries. *)
LEMMA MarksAreNoItems ==
  /\ \A x \in Item : x # POOL_START /\ x # POOL_END
  /\ POOL_START # POOL_END /\ POOL_START # 0 /\ POOL_END # 0
BY FnAssumption DEF Item, LEVEL_START, POOL_START, POOL_END

LEMMA DepthType ==
  ASSUME TypeOK
  PROVE  /\ arrFnStack \in Nat \ {0}
         /\ nFnStackIdx \in Nat
         /\ (arrFnStack - 1) * Room \in Nat
         /\ Depth \in Nat
         /\ Depth = ((arrFnStack - 1) * Room) + (nFnStackIdx - 2)
<1>1. arrFnStack \in Nat \ {0} /\ nFnStackIdx \in 2..newsize - 3
  BY DEF TypeOK
<1>2. PICK p \in Nat : p = (arrFnStack - 1) * Room
  <2>1. \A a \in Nat \ {0}, r \in Nat : (a - 1) * r \in Nat
    OBVIOUS
  <2> QED
    BY <1>1, <2>1, RoomType
<1> QED
  BY <1>1, <1>2, RoomType DEF Depth

(* The entries lie in the chunks up to the current one, and there below the*)
(* top. *)
LEMMA Position ==
  ASSUME TypeOK, NEW d \in 1..Depth
  PROVE  /\ ChunkOf(d) \in 1..arrFnStack
         /\ CellOf(d) \in 3..newsize - 3
         /\ ChunkOf(d) < arrFnStack \/ CellOf(d) <= nFnStackIdx
         /\ d - 1 = ((ChunkOf(d) - 1) * Room) + (CellOf(d) - 3)
<1>1. d \in Nat /\ d - 1 \in Nat /\ d <= Depth
  BY DepthType
<1>2. PICK q \in Nat : q = (d - 1) \div Room
  BY <1>1, Division, RoomType
<1>3. PICK r \in 0..Room - 1 : r = (d - 1) % Room
  BY <1>1, Division, RoomType
<1>4. d - 1 = (q * Room) + r
  BY <1>1, <1>2, <1>3, Division, RoomType
<1>5. ChunkOf(d) = 1 + q /\ CellOf(d) = 3 + r /\ CellOf(d) \in 3..newsize - 3
  BY <1>2, <1>3, RoomType DEF ChunkOf, CellOf
<1>6. nFnStackIdx - 2 <= Room
  BY RoomType DEF TypeOK
<1>7. PICK a \in Nat : a = arrFnStack - 1
  BY DepthType
<1>8. PICK u \in Nat : u = a * Room
  BY <1>7, DepthType
<1>9. PICK w \in Nat : w = q * Room
  BY RoomType
<1>10. d <= u + (nFnStackIdx - 2)
  BY <1>1, <1>7, <1>8, DepthType
<1>11. q <= a
  <2> SUFFICES ASSUME a < q PROVE FALSE
    OBVIOUS
  <2>1. u + Room <= w
    BY <1>8, <1>9, Multiples, RoomType
  <2> QED
    BY <1>1, <1>4, <1>6, <1>9, <1>10, <2>1, RoomType, DepthType
<1>12. q = a => r + 3 <= nFnStackIdx
  BY <1>1, <1>4, <1>8, <1>9, <1>10, RoomType, DepthType
<1>13. ChunkOf(d) - 1 = q /\ CellOf(d) - 3 = r
  BY <1>5
<1> QED
  BY <1>4, <1>5, <1>7, <1>11, <1>12, <1>13, DepthType

(* The last entry is where the stack index points to. *)
LEMMA TopPosition ==
  ASSUME TypeOK, nFnStackIdx >= 3
  PROVE  ChunkOf(Depth) = arrFnStack /\ CellOf(Depth) = nFnStackIdx
<1>1. PICK a \in Nat : a = arrFnStack - 1
  BY DepthType
<1>2. PICK r \in 0..Room - 1 : r = nFnStackIdx - 3
  BY RoomType DEF TypeOK
<1>3. PICK u \in Nat : u = a * Room
  BY RoomType
<1>4. Depth - 1 = (a * Room) + r
  BY <1>1, <1>2, <1>3, DepthType
<1>5. (Depth - 1) \div Room = a /\ (Depth - 1) % Room = r
  BY <1>4, DivisionUnique, RoomType
<1> QED
  BY <1>1, <1>2, <1>5, DepthType DEF ChunkOf, CellOf

(* The contents are a sequence of entries. *)
LEMMA ContentsType ==
  ASSUME TypeOK, Filled
  PROVE  /\ Contents \in Seq(Item)
         /\ Len(Contents) = Depth
         /\ \A d \in 1..Depth :
              Contents[d] = chunks[ChunkOf(d)][CellOf(d)].nFnId
<1>1. Contents = [d \in 1..Depth |-> chunks[ChunkOf(d)][CellOf(d)].nFnId]
  BY DEF Contents, ChunkOf, CellOf
<1>2. \A d \in 1..Depth : chunks[ChunkOf(d)][CellOf(d)].nFnId \in Item
  BY Position DEF Filled
<1>3. Contents \in [1..Depth -> Item]
  BY <1>1, <1>2
<1>4. Depth \in Nat
  BY DepthType
<1>5. Contents \in Seq(Item)
  BY <1>3, <1>4, SeqDef
<1>6. Len(Contents) = Depth
  BY <1>3, <1>4, <1>5
<1> QED
  BY <1>1, <1>5, <1>6
(* The same facts about the state after a step. *)
LEMMA TopPositionNext ==
  (TypeOK /\ nFnStackIdx >= 3 =>
     ChunkOf(Depth) = arrFnStack /\ CellOf(Depth) = nFnStackIdx)'
<1>1. TypeOK /\ nFnStackIdx >= 3 =>
        ChunkOf(Depth) = arrFnStack /\ CellOf(Depth) = nFnStackIdx
  BY TopPosition
<1> QED
  BY <1>1, PTL

LEMMA DepthTypeNext ==
  (TypeOK => Depth = ((arrFnStack - 1) * Room) + (nFnStackIdx - 2))'
<1>1. TypeOK => Depth = ((arrFnStack - 1) * Room) + (nFnStackIdx - 2)
  BY DepthType
<1> QED
  BY <1>1, PTL

LEMMA ContentsTypeNext ==
  (TypeOK /\ Filled =>
     /\ Contents \in Seq(Item)
     /\ Len(Contents) = Depth
     /\ \A d \in 1..Depth :
          Contents[d] = chunks[ChunkOf(d)][CellOf(d)].nFnId)'
<1>1. TypeOK /\ Filled =>
        /\ Contents \in Seq(Item)
        /\ Len(Contents) = Depth
        /\ \A d \in 1..Depth :
             Contents[d] = chunks[ChunkOf(d)][CellOf(d)].nFnId
  BY ContentsType
<1> QED
  BY <1>1, PTL

-----------------------------------------------------------------------------
Chunk == [0..newsize - 1 -> Cell]

(* A new chunk has its bookkeeping cells and no entries. *)
LEMMA NewChunkIs ==
  ASSUME NEW index \in Nat, NEW below \in Nat, NEW k, k = NewChunk(index, below)
  PROVE  /\ k \in Chunk
         /\ k[0].link = index
         /\ k[1].link = below
         /\ k[newsize - 1].link = NULL
         /\ \A i \in 2..newsize - 2 : /\ k[i].nFnId = POOL_START <=> i = 2
                                      /\ k[i].nFnId = POOL_END <=> i = newsize - 2
<1> DEFINE id(i) == IF i = 2 THEN POOL_START
                    ELSE IF i = newsize - 2 THEN POOL_END ELSE 0
           to(i) == IF i = 0 THEN index ELSE IF i = 1 THEN below ELSE NULL
<1>2. k = [i \in 0..newsize - 1 |-> [nFnId |-> id(i), link |-> to(i)]]
  BY SizeAssumption DEF NewChunk
<1>3. \A i : id(i) \in Item \cup {POOL_START, POOL_END, 0} /\ to(i) \in Nat
  BY DEF NULL
<1>4. /\ to(0) = index /\ to(1) = below /\ to(newsize - 1) = NULL
      /\ \A i \in 2..newsize - 2 : /\ id(i) = POOL_START <=> i = 2
                                   /\ id(i) = POOL_END <=> i = newsize - 2
  <2>1. to(0) = index /\ to(1) = below /\ to(newsize - 1) = NULL
    BY SizeAssumption
  <2>2. ASSUME NEW i \in 2..newsize - 2
        PROVE  (id(i) = POOL_START <=> i = 2) /\ (id(i) = POOL_END <=> i = newsize - 2)
    BY SizeAssumption, MarksAreNoItems
  <2> QED
    BY <2>1, <2>2
<1> HIDE DEF id, to
<1>5. k \in Chunk
  BY <1>2, <1>3 DEF Chunk, Cell
<1>6. \A i \in 0..newsize - 1 : k[i].nFnId = id(i) /\ k[i].link = to(i)
  BY <1>2
<1>7. 0 \in 0..newsize - 1 /\ 1 \in 0..newsize - 1 /\ newsize - 1 \in 0..newsize - 1
      /\ \A i \in 2..newsize - 2 : i \in 0..newsize - 1
  BY SizeAssumption
<1>8. k[0].link = index /\ k[1].link = below /\ k[newsize - 1].link = NULL
  BY <1>4, <1>6, <1>7
<1>9. \A i \in 2..newsize - 2 : /\ k[i].nFnId = POOL_START <=> i = 2
                                /\ k[i].nFnId = POOL_END <=> i = newsize - 2
  BY <1>4, <1>6, <1>7
<1> QED
  BY <1>5, <1>8, <1>9

(* Writing an entry leaves the other cells and all links alone. *)
LEMMA WriteIs ==
  ASSUME NEW cs \in Seq(Chunk), NEW c \in 1..Len(cs), NEW i \in 0..newsize - 1,
         NEW x \in Item
  PROVE  /\ Write(cs, c, i, x) \in Seq(Chunk)
         /\ Len(Write(cs, c, i, x)) = Len(cs)
         /\ \A b \in 1..Len(cs), j \in 0..newsize - 1 :
              /\ Write(cs, c, i, x)[b][j].link = cs[b][j].link
              /\ Write(cs, c, i, x)[b][j].nFnId =
                   IF b = c /\ j = i THEN x ELSE cs[b][j].nFnId
<1> DEFINE k == [cs[c] EXCEPT ![i].nFnId = x]
<1>1. cs[c] \in Chunk
  BY ElementOfSeq
<1>2. /\ k \in Chunk
      /\ \A j \in 0..newsize - 1 :
           /\ k[j].link = cs[c][j].link
           /\ k[j].nFnId = IF j = i THEN x ELSE cs[c][j].nFnId
  BY <1>1 DEF Chunk, Cell
<1>3. Write(cs, c, i, x) = [cs EXCEPT ![c] = k]
  BY DEF Write
<1> HIDE DEF k
<1>4. /\ [cs EXCEPT ![c] = k] \in Seq(Chunk)
      /\ Len([cs EXCEPT ![c] = k]) = Len(cs)
      /\ \A b \in 1..Len(cs) : [cs EXCEPT ![c] = k][b] = IF b = c THEN k ELSE cs[b]
  BY <1>2, ExceptSeq
<1> QED
  BY <1>2, <1>3, <1>4

(* Linking a chunk to the one above changes that link only. *)
Linked(cs, c, n) == [cs EXCEPT ![c][newsize - 1].link = n]

LEMMA LinkIs ==
  ASSUME NEW cs \in Seq(Chunk), NEW c \in 1..Len(cs), NEW n \in Nat
  PROVE  /\ Linked(cs, c, n) \in Seq(Chunk)
         /\ Len(Linked(cs, c, n)) = Len(cs)
         /\ \A b \in 1..Len(cs), j \in 0..newsize - 1 :
              /\ Linked(cs, c, n)[b][j].nFnId = cs[b][j].nFnId
              /\ Linked(cs, c, n)[b][j].link =
                   IF b = c /\ j = newsize - 1 THEN n ELSE cs[b][j].link
<1> DEFINE k == [cs[c] EXCEPT ![newsize - 1].link = n]
<1>1. cs[c] \in Chunk
  BY ElementOfSeq
<1>2. /\ k \in Chunk
      /\ \A j \in 0..newsize - 1 :
           /\ k[j].nFnId = cs[c][j].nFnId
           /\ k[j].link = IF j = newsize - 1 THEN n ELSE cs[c][j].link
  BY <1>1, SizeAssumption DEF Chunk, Cell
<1>3. Linked(cs, c, n) = [cs EXCEPT ![c] = k]
  BY DEF Linked
<1> HIDE DEF k
<1>4. /\ [cs EXCEPT ![c] = k] \in Seq(Chunk)
      /\ Len([cs EXCEPT ![c] = k]) = Len(cs)
      /\ \A b \in 1..Len(cs) : [cs EXCEPT ![c] = k][b] = IF b = c THEN k ELSE cs[b]
  BY <1>2, ExceptSeq
<1> QED
  BY <1>2, <1>3, <1>4

-----------------------------------------------------------------------------
(* A push of x extends the contents when the stack grows by the cell that  *)
(* x was written to and the other entries stay. *)
LEMMA GrowsContents ==
  ASSUME TypeOK, Filled, TypeOK', Filled', NEW x \in Item,
         Depth' = Depth + 1, nFnStackIdx' >= 3,
         chunks'[arrFnStack'][nFnStackIdx'].nFnId = x,
         \A c \in 1..arrFnStack, i \in 3..newsize - 3 :
           c < arrFnStack \/ i <= nFnStackIdx =>
             chunks'[c][i].nFnId = chunks[c][i].nFnId
  PROVE  Contents' = Append(Contents, x)
<1>1. PICK n \in Nat : n = Depth
  BY DepthType
<1>2. /\ Contents \in Seq(Item)
      /\ Len(Contents) = n
      /\ \A d \in 1..n : Contents[d] = chunks[ChunkOf(d)][CellOf(d)].nFnId
  BY <1>1, ContentsType
<1>3. /\ Contents' \in Seq(Item)
      /\ Len(Contents') = n + 1
      /\ \A d \in 1..n + 1 :
           Contents'[d] = chunks'[ChunkOf(d)][CellOf(d)].nFnId
  <2>1. Depth' = n + 1
    BY <1>1
  <2>2. /\ Contents' \in Seq(Item)
        /\ Len(Contents') = Depth'
        /\ \A d \in 1..Depth' :
             Contents'[d] = chunks'[ChunkOf(d)'][CellOf(d)'].nFnId
    BY ContentsTypeNext
  <2> QED
    BY <2>1, <2>2 DEF ChunkOf, CellOf, Room
<1>4. ASSUME NEW d \in 1..n PROVE Contents'[d] = Contents[d]
  <2>1. d \in 1..n + 1
    BY <1>1
  <2>2. /\ ChunkOf(d) \in 1..arrFnStack
        /\ CellOf(d) \in 3..newsize - 3
        /\ ChunkOf(d) < arrFnStack \/ CellOf(d) <= nFnStackIdx
    BY <1>1, Position
  <2> QED
    BY <1>2, <1>3, <2>1, <2>2
<1>5. Contents'[n + 1] = x
  <2>1. ChunkOf(Depth)' = arrFnStack' /\ CellOf(Depth)' = nFnStackIdx'
    BY TopPositionNext
  <2>2. ChunkOf(n + 1) = arrFnStack' /\ CellOf(n + 1) = nFnStackIdx'
    BY <1>1, <2>1 DEF ChunkOf, CellOf, Room
  <2> QED
    BY <1>1, <1>3, <2>2
<1>6. /\ Append(Contents, x) \in Seq(Item)
      /\ Len(Append(Contents, x)) = n + 1
      /\ \A d \in 1..n : Append(Contents, x)[d] = Contents[d]
      /\ Append(Contents, x)[n + 1] = x
  BY <1>2, AppendProperties
<1>7. \A d \in 1..n + 1 : Contents'[d] = Append(Contents, x)[d]
  BY <1>4, <1>5, <1>6
<1> QED
  BY <1>1, <1>3, <1>6, <1>7, SeqEqual
-----------------------------------------------------------------------------
(* A chunk has its marks, and only there. *)
Marked(k) ==
  \A i \in 2..newsize - 2 : /\ k[i].nFnId = POOL_START <=> i = 2
                            /\ k[i].nFnId = POOL_END <=> i = newsize - 2

(* The chunks of cs are linked to one chain. *)
Chain(cs) ==
  \A c \in 1..Len(cs) :
    /\ cs[c][0].link = IF c = 1 THEN 0 ELSE newsize - 2
    /\ cs[c][1].link = c - 1
    /\ cs[c][newsize - 1].link = IF c = Len(cs) THEN NULL ELSE c + 1

AllMarked(cs) == \A c \in 1..Len(cs) : Marked(cs[c])

LEMMA ChainIntactIs ==
  ChainIntact <=> TypeOK /\ Chain(chunks) /\ AllMarked(chunks)
<1> SUFFICES ASSUME TypeOK PROVE ChainIntact <=> Chain(chunks) /\ AllMarked(chunks)
  BY DEF ChainIntact
<1>1. DOMAIN chunks = 1..Len(chunks)
  BY LenProperties DEF TypeOK
<1>2. ChainIntact => Chain(chunks)
  BY <1>1 DEF ChainIntact, Chain
<1>3. ChainIntact => AllMarked(chunks)
  BY <1>1 DEF ChainIntact, AllMarked, Marked
<1>4. Chain(chunks) /\ AllMarked(chunks) => ChainIntact
  BY <1>1 DEF ChainIntact, Chain, AllMarked, Marked
<1> QED
  BY <1>2, <1>3, <1>4

LEMMA ChainIntactIsNext ==
  (ChainIntact <=> TypeOK /\ Chain(chunks) /\ AllMarked(chunks))'
BY ChainIntactIs, PTL

(* Writing an entry into the cells for entries keeps the chain. *)
LEMMA WriteKeepsChain ==
  ASSUME NEW cs \in Seq(Chunk), Chain(cs), AllMarked(cs), NEW c \in 1..Len(cs),
         NEW i \in 3..newsize - 3, NEW x \in Item
  PROVE  Chain(Write(cs, c, i, x)) /\ AllMarked(Write(cs, c, i, x))
<1>1. PICK ws : ws = Write(cs, c, i, x)
  OBVIOUS
<1>2. i \in 0..newsize - 1
  BY SizeAssumption
<1>3. /\ Len(ws) = Len(cs)
      /\ \A b \in 1..Len(cs), j \in 0..newsize - 1 :
           /\ ws[b][j].link = cs[b][j].link
           /\ ws[b][j].nFnId = IF b = c /\ j = i THEN x ELSE cs[b][j].nFnId
  BY <1>1, <1>2, WriteIs
<1>4. /\ 0 \in 0..newsize - 1 /\ 1 \in 0..newsize - 1 /\ newsize - 1 \in 0..newsize - 1
      /\ \A j \in 2..newsize - 2 : j \in 0..newsize - 1
      /\ i # 2 /\ i # newsize - 2
  BY SizeAssumption
<1>5. ASSUME NEW b \in 1..Len(cs)
      PROVE  /\ ws[b][0].link = IF b = 1 THEN 0 ELSE newsize - 2
             /\ ws[b][1].link = b - 1
             /\ ws[b][newsize - 1].link = IF b = Len(cs) THEN NULL ELSE b + 1
  BY <1>3, <1>4 DEF Chain
<1>6. ASSUME NEW b \in 1..Len(cs) PROVE Marked(ws[b])
  <2>1. Marked(cs[b])
    BY DEF AllMarked
  <2>2. ASSUME NEW j \in 2..newsize - 2
        PROVE  /\ ws[b][j].nFnId = POOL_START <=> cs[b][j].nFnId = POOL_START
               /\ ws[b][j].nFnId = POOL_END <=> cs[b][j].nFnId = POOL_END
    <3>1. CASE b = c /\ j = i
      <4>1. ws[b][j].nFnId = x
        BY <1>3, <1>4, <3>1
      <4>2. cs[b][j].nFnId # POOL_START /\ cs[b][j].nFnId # POOL_END
        BY <1>4, <2>1, <3>1 DEF Marked
      <4> QED
        BY <4>1, <4>2, MarksAreNoItems
    <3>2. CASE ~(b = c /\ j = i)
      BY <1>3, <1>4, <3>2
    <3> QED
      BY <3>1, <3>2
  <2> QED
    BY <2>1, <2>2 DEF Marked
<1>7. Chain(ws) /\ AllMarked(ws)
  BY <1>3, <1>5, <1>6 DEF Chain, AllMarked
<1> QED
  BY <1>1, <1>7

(* Linking a new chunk to the last one keeps the chain. *)
Grown(cs) ==
  LET n == Len(cs)
  IN  Append(Linked(cs, n, n + 1), NewChunk(newsize - 2, n))

LEMMA NewChunkKeepsChain ==
  ASSUME NEW cs \in Seq(Chunk), Chain(cs), AllMarked(cs), Len(cs) # 0
  PROVE  /\ Grown(cs) \in Seq(Chunk)
         /\ Len(Grown(cs)) = Len(cs) + 1
         /\ Chain(Grown(cs)) /\ AllMarked(Grown(cs))
         /\ \A c \in 1..Len(cs), i \in 0..newsize - 1 :
              Grown(cs)[c][i].nFnId = cs[c][i].nFnId
<1>0. PICK ns : ns = Grown(cs)
  OBVIOUS
<1>1. PICK n \in Nat \ {0} : n = Len(cs)
  OBVIOUS
<1>2. PICK k : k = NewChunk(newsize - 2, n)
  OBVIOUS
<1>3. newsize - 2 \in Nat /\ newsize - 2 # 0
  BY SizeAssumption
<1>4. /\ k \in Chunk
      /\ k[0].link = newsize - 2
      /\ k[1].link = n
      /\ k[newsize - 1].link = NULL
      /\ Marked(k)
  BY <1>2, <1>3, NewChunkIs DEF Marked
<1>5. PICK ls : ls = Linked(cs, n, n + 1)
  OBVIOUS
<1>6. /\ ls \in Seq(Chunk)
      /\ Len(ls) = n
      /\ \A b \in 1..n, j \in 0..newsize - 1 :
           /\ ls[b][j].nFnId = cs[b][j].nFnId
           /\ ls[b][j].link = IF b = n /\ j = newsize - 1 THEN n + 1
                              ELSE cs[b][j].link
  BY <1>1, <1>5, LinkIs
<1>7. ns = Append(ls, k)
  BY <1>0, <1>1, <1>2, <1>5 DEF Grown
<1>8. /\ ns \in Seq(Chunk)
      /\ Len(ns) = n + 1
      /\ \A b \in 1..n : ns[b] = ls[b]
      /\ ns[n + 1] = k
  BY ONLY n \in Nat \ {0}, <1>4, <1>6, <1>7, AppendProperties
<1>9. /\ 0 \in 0..newsize - 1 /\ 1 \in 0..newsize - 1 /\ newsize - 1 \in 0..newsize - 1
      /\ newsize - 1 # 0 /\ newsize - 1 # 1
      /\ \A j \in 2..newsize - 2 : j \in 0..newsize - 1
  BY SizeAssumption
<1>10. ASSUME NEW b \in 1..n
       PROVE  /\ ns[b][0].link = IF b = 1 THEN 0 ELSE newsize - 2
              /\ ns[b][1].link = b - 1
              /\ ns[b][newsize - 1].link = b + 1
              /\ Marked(ns[b])
  <2>1. /\ cs[b][0].link = IF b = 1 THEN 0 ELSE newsize - 2
        /\ cs[b][1].link = b - 1
        /\ cs[b][newsize - 1].link = IF b = n THEN NULL ELSE b + 1
        /\ Marked(cs[b])
    BY <1>1 DEF Chain, AllMarked
  <2>2. \A j \in 2..newsize - 2 : ns[b][j].nFnId = cs[b][j].nFnId
    BY <1>6, <1>8, <1>9
  <2>3. Marked(ns[b])
    BY <2>1, <2>2 DEF Marked
  <2>4. ns[b] = ls[b]
    BY <1>8
  <2>5. ls[b][0].link = cs[b][0].link /\ ls[b][1].link = cs[b][1].link
    BY <1>6, <1>9
  <2>6. ls[b][newsize - 1].link = IF b = n THEN n + 1 ELSE cs[b][newsize - 1].link
    BY <1>6, <1>9
  <2> QED
    BY <2>1, <2>3, <2>4, <2>5, <2>6
<1>11. Chain(ns) /\ AllMarked(ns)
  <2>1. Chain(ns)
    <3> SUFFICES ASSUME NEW c \in 1..n + 1
                 PROVE  /\ ns[c][0].link = IF c = 1 THEN 0 ELSE newsize - 2
                        /\ ns[c][1].link = c - 1
                        /\ ns[c][newsize - 1].link = IF c = n + 1 THEN NULL ELSE c + 1
      BY <1>8 DEF Chain
    <3>1. CASE c = n + 1
      <4>1. ns[c] = k /\ c # 1 /\ c - 1 = n
        BY ONLY n \in Nat \ {0}, <1>8, <3>1
      <4> QED
        BY ONLY <1>4, <3>1, <4>1
    <3>2. CASE c \in 1..n
      <4>1. c # n + 1
        BY <3>2
      <4> QED
        BY ONLY <1>10, <3>2, <4>1
    <3> QED
      BY <3>1, <3>2
  <2>2. AllMarked(ns)
    BY <1>4, <1>8, <1>10 DEF AllMarked
  <2> QED
    BY <2>1, <2>2
<1>12. \A c \in 1..n, i \in 0..newsize - 1 : ns[c][i].nFnId = cs[c][i].nFnId
  BY <1>6, <1>8
<1> QED
  BY ONLY <1>0, <1>1, <1>8, <1>11, <1>12

-----------------------------------------------------------------------------
LEMMA InitInv == Init => IInv
<1> SUFFICES ASSUME Init PROVE IInv
  OBVIOUS
<1>1. PICK k : k = NewChunk(0, NULL)
  OBVIOUS
<1>2. /\ k \in Chunk /\ Marked(k)
      /\ k[0].link = 0 /\ k[1].link = NULL /\ k[newsize - 1].link = NULL
  BY <1>1, NewChunkIs DEF NULL, Marked
<1>3. chunks = <<k>> /\ arrFnStack = 1 /\ nFnStackIdx = 2
  BY <1>1 DEF Init
<1>4. chunks \in Seq(Chunk) /\ Len(chunks) = 1 /\ chunks[1] = k
  BY <1>2, <1>3
<1>5. Chain(chunks) /\ AllMarked(chunks)
  BY <1>2, <1>4 DEF Chain, AllMarked, NULL
<1>6. last \in [op : {"none", "push", "pop"}, item : Item]
  BY DEF Init, Item
<1>7. TypeOK
  BY <1>3, <1>4, <1>6, SizeAssumption DEF TypeOK, Chunk
<1>8. Filled
  BY <1>3 DEF Filled
<1> QED
  BY <1>5, <1>7, <1>8, ChainIntactIs DEF IInv

(* What a push needs of the chunks that it leaves behind. *)
LEMMA PushedInv ==
  ASSUME IInv, NEW x \in Item, NEW cs \in Seq(Chunk),
         Chain(cs), AllMarked(cs), Len(cs) >= Len(chunks),
         \A c \in 1..Len(chunks), i \in 0..newsize - 1 :
           cs[c][i].nFnId = chunks[c][i].nFnId,
         arrFnStack' \in 1..Len(cs), nFnStackIdx' \in 3..newsize - 3,
         \/ arrFnStack' = arrFnStack /\ nFnStackIdx' = nFnStackIdx + 1
         \/ /\ arrFnStack' = arrFnStack + 1 /\ nFnStackIdx' = 3
            /\ nFnStackIdx = newsize - 3,
         chunks' = Write(cs, arrFnStack', nFnStackIdx', x),
         last' = [op |-> "push", item |-> x]
  PROVE  /\ IInv'
         /\ Len(chunks') = Len(cs)
         /\ Contents' = Append(Contents, x)
<1>1. PICK a \in 1..Len(cs), i \in 3..newsize - 3 :
        a = arrFnStack' /\ i = nFnStackIdx'
  OBVIOUS
<1>2. a \in 1..Len(cs) /\ i \in 0..newsize - 1
  BY <1>1, SizeAssumption
<1>3. /\ chunks' \in Seq(Chunk)
      /\ Len(chunks') = Len(cs)
      /\ \A b \in 1..Len(cs), j \in 0..newsize - 1 :
           chunks'[b][j].nFnId = IF b = a /\ j = i THEN x ELSE cs[b][j].nFnId
  <2>1. PICK ws : ws = Write(cs, a, i, x)
    OBVIOUS
  <2>2. /\ ws \in Seq(Chunk)
        /\ Len(ws) = Len(cs)
        /\ \A b \in 1..Len(cs), j \in 0..newsize - 1 :
             ws[b][j].nFnId = IF b = a /\ j = i THEN x ELSE cs[b][j].nFnId
    BY ONLY cs \in Seq(Chunk), x \in Item, <1>2, <2>1, WriteIs
  <2>3. chunks' = ws
    BY <1>1, <2>1
  <2> QED
    BY <2>2, <2>3
<1>4. Chain(chunks') /\ AllMarked(chunks')
  BY <1>1, <1>2, WriteKeepsChain
<1>5. last' \in [op : {"none", "push", "pop"}, item : Item]
  OBVIOUS
<1>6. TypeOK'
  <2>1. DOMAIN chunks' = 1..Len(cs)
    BY <1>3, LenProperties
  <2>2. nFnStackIdx' \in 2..newsize - 3
    BY SizeAssumption
  <2> QED
    BY <1>1, <1>2, <1>3, <1>5, <2>1, <2>2 DEF TypeOK, Chunk
<1>7. TypeOK /\ Filled /\ arrFnStack \in 1..Len(chunks) /\ Len(chunks) \in Nat
  BY LenProperties DEF IInv, ChainIntact, TypeOK
<1>8. arrFnStack \in Nat \ {0} /\ nFnStackIdx \in 2..newsize - 3
  BY <1>7, DepthType DEF TypeOK
<1>9. \A c \in 1..arrFnStack, j \in 3..newsize - 3 :
        c < arrFnStack \/ j <= nFnStackIdx =>
          chunks'[c][j].nFnId = chunks[c][j].nFnId
  <2> SUFFICES ASSUME NEW c \in 1..arrFnStack, NEW j \in 3..newsize - 3,
                      c < arrFnStack \/ j <= nFnStackIdx
               PROVE  chunks'[c][j].nFnId = chunks[c][j].nFnId
    OBVIOUS
  <2>1. c \in 1..Len(chunks) /\ c \in 1..Len(cs) /\ j \in 0..newsize - 1
    BY <1>7, SizeAssumption
  <2>2. ~(c = a /\ j = i)
    BY <1>1, <1>8
  <2> QED
    BY <1>3, <2>1, <2>2
<1>10. chunks'[arrFnStack'][nFnStackIdx'].nFnId = x
  BY <1>1, <1>2, <1>3
<1>11. Filled'
  <2> SUFFICES ASSUME NEW c \in 1..a, NEW j \in 3..newsize - 3, c < a \/ j <= i
               PROVE  chunks'[c][j].nFnId \in Item
    BY <1>1 DEF Filled
  <2>1. CASE c = a /\ j = i
    BY <1>1, <1>10, <2>1
  <2>2. CASE ~(c = a /\ j = i)
    <3>1. c \in 1..arrFnStack /\ (c < arrFnStack \/ j <= nFnStackIdx)
      BY <1>1, <1>8, <2>2
    <3> QED
      BY <1>7, <1>9, <3>1 DEF Filled
  <2> QED
    BY <2>1, <2>2
<1>12. Depth' = Depth + 1
  <2>1. PICK p \in Nat : p = arrFnStack - 1
    BY <1>8
  <2>2. Depth = (p * Room) + (nFnStackIdx - 2)
    BY <1>7, <2>1, DepthType
  <2>3. Depth' = ((arrFnStack' - 1) * Room) + (nFnStackIdx' - 2)
    BY <1>6, DepthTypeNext DEF Room
  <2>4. (p + 1) * Room = (p * Room) + Room /\ p * Room \in Nat
    BY RoomType
  <2>5. CASE arrFnStack' = arrFnStack /\ nFnStackIdx' = nFnStackIdx + 1
    <3>1. arrFnStack' - 1 = p
      BY <1>8, <2>1, <2>5
    <3> QED
      BY <1>8, <2>2, <2>3, <2>4, <2>5, <3>1
  <2>6. CASE /\ arrFnStack' = arrFnStack + 1 /\ nFnStackIdx' = 3
             /\ nFnStackIdx = newsize - 3
    <3>1. arrFnStack' - 1 = p + 1
      BY <1>8, <2>1, <2>6
    <3>2. Depth' = ((p + 1) * Room) + 1 /\ Depth = (p * Room) + Room
      BY <2>2, <2>3, <2>6, <3>1, RoomType
    <3> QED
      BY <2>4, <3>2, RoomType
  <2> QED
    BY <2>5, <2>6
<1>13. Contents' = Append(Contents, x)
  BY <1>6, <1>7, <1>9, <1>10, <1>11, <1>12, GrowsContents
<1> QED
  BY <1>3, <1>4, <1>6, <1>11, <1>13, ChainIntactIsNext DEF IInv
(* What the marks and links of the current chunk tell. *)
LEMMA CurrentChunk ==
  ASSUME IInv
  PROVE  /\ arrFnStack \in 1..Len(chunks) /\ Len(chunks) \in Nat
         /\ nFnStackIdx \in 2..newsize - 3
         /\ chunks \in Seq(Chunk)
         /\ TypeOK /\ Filled /\ Chain(chunks) /\ AllMarked(chunks)
         /\ CellAt(nFnStackIdx).nFnId = POOL_START <=> nFnStackIdx = 2
         /\ CellAt(nFnStackIdx + 1).nFnId = POOL_END <=> nFnStackIdx = newsize - 3
         /\ CellAt(newsize - 1).link =
              IF arrFnStack = Len(chunks) THEN NULL ELSE arrFnStack + 1
         /\ CellAt(0).link = IF arrFnStack = 1 THEN 0 ELSE newsize - 2
         /\ CellAt(1).link = arrFnStack - 1
<1>1. TypeOK /\ Filled /\ Chain(chunks) /\ AllMarked(chunks)
  BY ChainIntactIs DEF IInv
<1>2. /\ arrFnStack \in 1..Len(chunks) /\ Len(chunks) \in Nat
      /\ nFnStackIdx \in 2..newsize - 3
      /\ chunks \in Seq(Chunk)
  BY <1>1, LenProperties DEF TypeOK, Chunk
<1>3. /\ CellAt(newsize - 1).link =
           IF arrFnStack = Len(chunks) THEN NULL ELSE arrFnStack + 1
      /\ CellAt(0).link = IF arrFnStack = 1 THEN 0 ELSE newsize - 2
      /\ CellAt(1).link = arrFnStack - 1
  BY <1>1, <1>2 DEF Chain, CellAt
<1>4. Marked(chunks[arrFnStack])
  BY <1>1, <1>2 DEF AllMarked
<1>5. /\ nFnStackIdx \in 2..newsize - 2 /\ nFnStackIdx + 1 \in 2..newsize - 2
      /\ nFnStackIdx + 1 = newsize - 2 <=> nFnStackIdx = newsize - 3
  BY <1>2, SizeAssumption
<1>6. /\ CellAt(nFnStackIdx).nFnId = POOL_START <=> nFnStackIdx = 2
      /\ CellAt(nFnStackIdx + 1).nFnId = POOL_END <=> nFnStackIdx = newsize - 3
  BY <1>4, <1>5 DEF Marked, CellAt
<1> QED
  BY <1>1, <1>2, <1>3, <1>6

(* A push keeps the invariant and extends the contents; memory grows only  *)
(* when there is no room left. *)
LEMMA PushStep ==
  ASSUME IInv, NEW x \in Item, Push(x)
  PROVE  /\ IInv'
         /\ Contents' = Append(Contents, x)
         /\ Len(chunks') > Len(chunks) => Depth = Len(chunks) * Room
<1> USE CurrentChunk
<1>1. last' = [op |-> "push", item |-> x]
  BY DEF Push
<1>2. CASE PushHere(x)
  <2>1. nFnStackIdx' \in 3..newsize - 3 /\ nFnStackIdx' = nFnStackIdx + 1
    BY <1>2, SizeAssumption DEF PushHere
  <2>2. arrFnStack' = arrFnStack /\ chunks' = Write(chunks, arrFnStack', nFnStackIdx', x)
    BY <1>2 DEF PushHere
  <2>3. /\ IInv'
        /\ Len(chunks') = Len(chunks)
        /\ Contents' = Append(Contents, x)
    BY <1>1, <2>1, <2>2, PushedInv
  <2> QED
    BY <2>3
<1>3. CASE PushAbove(x)
  <2>1. nFnStackIdx = newsize - 3 /\ nFnStackIdx' = 3 /\ 3 \in 3..newsize - 3
    BY <1>3, SizeAssumption DEF PushAbove
  <2>2. nFnStackIdx + 2 = newsize - 1
    BY <2>1, SizeAssumption
  <2>3. arrFnStack' = arrFnStack + 1 /\ arrFnStack' \in 1..Len(chunks)
    BY <1>3, <2>2 DEF PushAbove
  <2>4. chunks' = Write(chunks, arrFnStack', nFnStackIdx', x)
    BY <1>3 DEF PushAbove
  <2>5. /\ IInv'
        /\ Len(chunks') = Len(chunks)
        /\ Contents' = Append(Contents, x)
    BY <1>1, <2>1, <2>3, <2>4, PushedInv
  <2> QED
    BY <2>5
<1>4. CASE PushNew(x)
  <2>1. nFnStackIdx = newsize - 3 /\ nFnStackIdx' = 3 /\ 3 \in 3..newsize - 3
    BY <1>4, SizeAssumption DEF PushNew
  <2>2. nFnStackIdx + 2 = newsize - 1 /\ nFnStackIdx + 1 = newsize - 2
    BY <2>1, SizeAssumption
  <2>3. PICK n \in Nat \ {0} : n = Len(chunks) /\ n = arrFnStack
    BY <1>4, <2>2 DEF PushNew, NULL
  <2>4. PICK cs : cs = Grown(chunks)
    OBVIOUS
  <2>5. /\ arrFnStack' = n + 1
        /\ chunks' = Write(cs, arrFnStack', nFnStackIdx', x)
    BY <1>4, <2>2, <2>3, <2>4 DEF PushNew, Grown, Linked
  <2>6. /\ cs \in Seq(Chunk) /\ Len(cs) = n + 1
        /\ Chain(cs) /\ AllMarked(cs)
        /\ \A c \in 1..n, i \in 0..newsize - 1 : cs[c][i].nFnId = chunks[c][i].nFnId
    <3>1. /\ chunks \in Seq(Chunk) /\ Chain(chunks) /\ AllMarked(chunks)
          /\ Len(chunks) # 0 /\ n = Len(chunks)
      BY <2>3
    <3> QED
      BY ONLY <2>4, <3>1, NewChunkKeepsChain
  <2>7. /\ IInv'
        /\ Contents' = Append(Contents, x)
    BY <1>1, <2>1, <2>3, <2>5, <2>6, PushedInv
  <2>8. Depth = n * Room
    <3>1. PICK p \in Nat : n = p + 1
      BY <2>3
    <3>2. (p + 1) * Room = (p * Room) + Room /\ p * Room \in Nat /\ p = n - 1
      BY <3>1, RoomType
    <3>3. Depth = (p * Room) + (newsize - 3 - 2)
      BY <2>1, <2>3, <3>1, <3>2, DepthType
    <3> QED
      BY <3>1, <3>2, <3>3, RoomType
  <2> QED
    BY <2>3, <2>7, <2>8
<1> QED
  BY <1>2, <1>3, <1>4 DEF Push

(* Taking an entry off hands out the last one. *)
LEMMA PopStep ==
  ASSUME IInv, Pop
  PROVE  /\ IInv'
         /\ Contents # <<>>
         /\ last' = [op |-> "pop", item |-> Contents[Len(Contents)]]
         /\ Contents' = SubSeq(Contents, 1, Len(Contents) - 1)
         /\ chunks' = chunks
<1>1. /\ chunks' = chunks /\ arrFnStack' = arrFnStack
      /\ nFnStackIdx' = nFnStackIdx - 1
      /\ last' = [op |-> "pop", item |-> chunks[arrFnStack][nFnStackIdx].nFnId]
  BY DEF Pop, CellAt
<1>2. /\ TypeOK /\ Filled /\ nFnStackIdx \in 3..newsize - 3
      /\ arrFnStack \in Nat \ {0}
  BY CurrentChunk, SizeAssumption DEF Pop
<1>3. chunks[arrFnStack][nFnStackIdx].nFnId \in Item
  BY <1>2 DEF Filled
<1>4. TypeOK'
  BY <1>1, <1>2, <1>3, SizeAssumption DEF TypeOK
<1>5. Filled'
  BY <1>1, <1>2 DEF Filled
<1>6. IInv'
  BY <1>1, <1>4, <1>5 DEF IInv, ChainIntact
<1>7. PICK n \in Nat : n = Depth - 1 /\ n + 1 = Depth
  <2>1. Depth \in Nat /\ Depth > 0
    BY <1>2, DepthType DEF Pop
  <2> QED
    BY <2>1
<1>8. Depth' = n
  <2>1. PICK u \in Nat : u = (arrFnStack - 1) * Room
    BY <1>2, DepthType
  <2>2. Depth = u + (nFnStackIdx - 2)
    BY <1>2, <2>1, DepthType
  <2>3. Depth' = u + (nFnStackIdx' - 2)
    BY <1>1, <1>4, <2>1, DepthTypeNext DEF Room
  <2> QED
    BY <1>1, <1>2, <1>7, <2>2, <2>3
<1>9. /\ Contents \in Seq(Item)
      /\ Len(Contents) = n + 1
      /\ \A d \in 1..n + 1 :
           Contents[d] = chunks[ChunkOf(d)][CellOf(d)].nFnId
  BY <1>2, <1>7, ContentsType
<1>10. /\ Contents' \in Seq(Item)
       /\ Len(Contents') = n
       /\ \A d \in 1..n : Contents'[d] = Contents[d]
  <2>1. /\ Contents' \in Seq(Item)
        /\ Len(Contents') = Depth'
        /\ \A d \in 1..Depth' :
             Contents'[d] = chunks'[ChunkOf(d)'][CellOf(d)'].nFnId
    BY <1>4, <1>5, ContentsTypeNext
  <2>2. \A d \in 1..n : ChunkOf(d)' = ChunkOf(d) /\ CellOf(d)' = CellOf(d)
    BY DEF ChunkOf, CellOf, Room
  <2> QED
    BY <1>1, <1>8, <1>9, <2>1, <2>2
<1>11. Contents' = SubSeq(Contents, 1, n)
  <2>1. \A d \in 1..n : Contents[d] \in Item
    BY <1>9
  <2>2. /\ SubSeq(Contents, 1, n) \in Seq(Item)
        /\ Len(SubSeq(Contents, 1, n)) = IF 1 <= n THEN n - 1 + 1 ELSE 0
        /\ \A i \in 1..n - 1 + 1 : SubSeq(Contents, 1, n)[i] = Contents[1 + i - 1]
    BY ONLY n \in Nat, <2>1, SubSeqProperties
  <2>3. PICK t : t = SubSeq(Contents, 1, n)
    OBVIOUS
  <2>4. t \in Seq(Item) /\ Len(t) = n /\ \A i \in 1..n : t[i] = Contents[i]
    BY ONLY n \in Nat, <2>2, <2>3
  <2>5. Contents' = t
    BY <1>10, <2>4, SeqEqual
  <2> QED
    BY <2>3, <2>5
<1>12. Contents[n + 1] = chunks[arrFnStack][nFnStackIdx].nFnId
  <2>1. ChunkOf(n + 1) = arrFnStack /\ CellOf(n + 1) = nFnStackIdx
    BY <1>2, <1>7, TopPosition
  <2> QED
    BY <1>9, <2>1
<1>13. Contents # <<>>
  BY <1>9
<1>14. Len(Contents) - 1 = n
  BY <1>9
<1> QED
  BY <1>1, <1>6, <1>9, <1>11, <1>12, <1>13, <1>14

(* Returning to the chunk below changes nothing of the contents. *)
LEMMA PopChunkStep ==
  ASSUME IInv, PopChunk
  PROVE  IInv' /\ Contents' = Contents /\ chunks' = chunks /\ last' = last
<1> USE CurrentChunk
<1>1. chunks' = chunks /\ last' = last /\ nFnStackIdx = 2
  BY DEF PopChunk
<1>2. arrFnStack # 1
  <2> SUFFICES ASSUME arrFnStack = 1 PROVE FALSE
    OBVIOUS
  <2>1. Depth = ((1 - 1) * Room) + (2 - 2)
    BY <1>1, DepthType
  <2> QED
    BY <2>1, RoomType DEF PopChunk
<1>3. /\ arrFnStack' = arrFnStack - 1 /\ nFnStackIdx' = newsize - 3
      /\ arrFnStack' \in 1..Len(chunks) /\ nFnStackIdx' \in 2..newsize - 3
  BY <1>2, SizeAssumption DEF PopChunk
<1>4. TypeOK'
  <2>1. DOMAIN chunks = 1..Len(chunks)
    BY LenProperties
  <2> QED
    BY <1>1, <1>3, <2>1 DEF TypeOK
<1>5. Filled'
  BY <1>1, <1>3 DEF Filled
<1>6. IInv'
  BY <1>1, <1>4, <1>5 DEF IInv, ChainIntact
<1>7. Depth' = Depth
  <2>1. PICK p \in Nat : arrFnStack - 1 = p + 1 /\ arrFnStack' - 1 = p
    BY <1>2, <1>3
  <2>2. Depth = ((p + 1) * Room) + (2 - 2)
    BY <1>1, <2>1, DepthType
  <2>3. Depth' = (p * Room) + (newsize - 3 - 2)
    BY <1>3, <1>4, <2>1, DepthTypeNext DEF Room
  <2>4. (p + 1) * Room = (p * Room) + Room /\ p * Room \in Nat
    BY RoomType
  <2> QED
    BY <2>2, <2>3, <2>4, RoomType
<1>8. Contents' = Contents
  BY <1>1, <1>7 DEF Contents, Room
<1> QED
  BY <1>1, <1>6, <1>8

(* The invariant is kept by every step. *)
LEMMA NextInv == IInv /\ [Next]_vars => IInv'
<1> SUFFICES ASSUME IInv, [Next]_vars PROVE IInv'
  OBVIOUS
<1>1. CASE UNCHANGED vars
  BY <1>1 DEF vars, IInv, ChainIntact, TypeOK, Filled
<1>2. CASE \E x \in Item : Push(x)
  BY <1>2, PushStep
<1>3. CASE Pop
  BY <1>3, PopStep
<1>4. CASE PopChunk
  BY <1>4, PopChunkStep
<1> QED
  BY <1>1, <1>2, <1>3, <1>4 DEF Next

LEMMA SpecInv == Spec => []IInv
BY InitInv, NextInv, PTL DEF Spec

-----------------------------------------------------------------------------
(* Entries overwrite no bookkeeping, and the links stay those of one chain *)
(* in both directions: FnStackNext, AllocateFnStack and the crossing in    *)
(* pop_state_information keep the chunks together. *)
THEOREM ChainStaysIntact == Spec => []ChainIntact
<1>1. IInv => ChainIntact
  BY DEF IInv
<1> QED
  BY <1>1, SpecInv, PTL

(* FnStackNext calls AllocateFnStack only when every chunk is full. *)
THEOREM MemoryReused == Spec => ReusesChunks
<1>1. IInv /\ [Next]_vars =>
        [Len(chunks') > Len(chunks) => Depth = Len(chunks) * Room]_vars
  <2> SUFFICES ASSUME IInv, Next
               PROVE  Len(chunks') > Len(chunks) => Depth = Len(chunks) * Room
    OBVIOUS
  <2>1. Len(chunks) \in Nat
    BY CurrentChunk
  <2>2. CASE \E x \in Item : Push(x)
    BY <2>2, PushStep
  <2>3. CASE Pop \/ PopChunk
    BY <2>1, <2>3, PopStep, PopChunkStep
  <2> QED
    BY <2>2, <2>3 DEF Next
<1> QED
  BY <1>1, SpecInv, PTL DEF Spec, ReusesChunks

(* The chunks implement a stack: whatever chunk boundaries a push or a pop *)
(* crosses, the entries come back in reverse order, each once. *)
THEOREM PoolIsLifo == Spec => ImplementsLifo
<1>1. Init => L!Init
  <2> SUFFICES ASSUME Init PROVE L!Init
    OBVIOUS
  <2>1. Depth = 0
    BY RoomType DEF Init, Depth
  <2>2. Contents = <<>>
    BY <2>1 DEF Contents
  <2> QED
    BY <2>2 DEF Init, L!Init
<1>2. IInv /\ [Next]_vars => [L!Next]_(L!vars)
  <2> SUFFICES ASSUME IInv, [Next]_vars PROVE [L!Next]_(L!vars)
    OBVIOUS
  <2>1. CASE UNCHANGED vars
    BY <2>1 DEF vars, L!vars, Contents, Depth
  <2>2. CASE \E x \in Item : Push(x)
    <3>1. PICK x \in Item : Push(x)
      BY <2>2
    <3>2. Contents' = Append(Contents, x) /\ last' = [op |-> "push", item |-> x]
      BY <3>1, PushStep DEF Push
    <3> QED
      BY <3>2 DEF L!Next, L!Push
  <2>3. CASE Pop
    BY <2>3, PopStep DEF L!Next, L!Pop
  <2>4. CASE PopChunk
    BY <2>4, PopChunkStep DEF L!vars
  <2> QED
    BY <2>1, <2>2, <2>3, <2>4 DEF Next
<1> QED
  BY <1>1, <1>2, SpecInv, PTL DEF Spec, ImplementsLifo, L!Spec
=============================================================================
