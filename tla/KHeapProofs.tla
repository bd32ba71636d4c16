---------------------------- MODULE KHeapProofs ----------------------------
(***************************************************************************)
(* Proofs about KHeap, for every heap, every set of requests the kernel's  *)
(* pattern of use allows (KernelRequests) and whatever clients write.      *)
(***************************************************************************)
EXTENDS KHeap, NaturalsInduction, WellFoundedInduction, TLAPS

Words == 0 .. ADDRESS_WORDS - 1
Memory == [Addresses -> Words]

(***************************************************************************)
(* Words of memory.                                                        *)
(***************************************************************************)

\* The assumption on the constants in the form the proofs cite.
LEMMA HeapConstants ==
  /\ heap_start_vaddr \in Nat /\ heap_start_vaddr >= 1
  /\ HEAP_MAX_SIZE \in Nat /\ HEAP_MAX_SIZE >= 1
  /\ HeapEnd \in Nat /\ HeapEnd = heap_start_vaddr + HEAP_MAX_SIZE + 6
  /\ ADDRESS_WORDS \in Nat /\ Data \in Words /\ 0 \in Words /\ 1 \in Words
  /\ \A a \in Int : heap_start_vaddr <= a /\ a < HeapEnd + 6 => a \in Addresses
  /\ \A a \in Addresses : a \in Words /\ a \in Nat /\ heap_start_vaddr <= a
  /\ \A n \in Sizes : n \in Nat /\ 1 <= n /\ n <= HEAP_MAX_SIZE /\ n \in Words
  /\ HEAP_MAX_SIZE \in Words
BY KHeapAssumption DEF HeapEnd, Addresses, HEADER, TRAILER, Words

LEMMA NoWrap ==
  ASSUME NEW x \in Words
  PROVE  U(x) = x
BY HeapConstants DEF Words, U

LEMMA PutAt ==
  ASSUME NEW m \in Memory, NEW a \in Addresses, NEW v \in Words
  PROVE  /\ Put(m, a, v) \in Memory
         /\ \A y \in Addresses : Put(m, a, v)[y] = IF y = a THEN v ELSE m[y]
BY DEF Put, Memory

LEMMA TagAt ==
  ASSUME NEW m \in Memory, NEW a \in Addresses, a + 1 \in Addresses,
         NEW s \in Words, NEW u \in Words
  PROVE  /\ Tag(m, a, s, u) \in Memory
         /\ \A y \in Addresses : Tag(m, a, s, u)[y] =
              IF y = a THEN s ELSE IF y = a + 1 THEN u ELSE m[y]
<1>1. U(a + 1) = a + 1
  BY NoWrap, HeapConstants
<1>2. Put(m, a, s) \in Memory /\ \A y \in Addresses : Put(m, a, s)[y] = IF y = a THEN s ELSE m[y]
  BY PutAt
<1>3. /\ Put(Put(m, a, s), a + 1, u) \in Memory
      /\ \A y \in Addresses : Put(Put(m, a, s), a + 1, u)[y] =
           IF y = a + 1 THEN u ELSE Put(m, a, s)[y]
  BY <1>2, PutAt
<1>4. a + 1 # a
  BY HeapConstants
<1> QED
  BY <1>1, <1>2, <1>3, <1>4 DEF Tag

LEMMA LinkAt ==
  ASSUME NEW m \in Memory, NEW b \in Addresses, b + 2 \in Addresses, b + 3 \in Addresses,
         NEW p \in Words, NEW q \in Words
  PROVE  /\ Link(m, b, p, q) \in Memory
         /\ \A y \in Addresses : Link(m, b, p, q)[y] =
              IF y = b + 2 THEN p ELSE IF y = b + 3 THEN q ELSE m[y]
<1>1. U(b + 2) = b + 2 /\ U(b + 3) = b + 3
  BY NoWrap, HeapConstants
<1>2. /\ Put(m, b + 2, p) \in Memory
      /\ \A y \in Addresses : Put(m, b + 2, p)[y] = IF y = b + 2 THEN p ELSE m[y]
  BY PutAt
<1>3. /\ Put(Put(m, b + 2, p), b + 3, q) \in Memory
      /\ \A y \in Addresses : Put(Put(m, b + 2, p), b + 3, q)[y] =
           IF y = b + 3 THEN q ELSE Put(m, b + 2, p)[y]
  BY <1>2, PutAt
<1>4. b + 2 # b + 3
  BY HeapConstants
<1> QED
  BY <1>1, <1>2, <1>3, <1>4 DEF Link

LEMMA FillAt ==
  ASSUME NEW m \in Memory, NEW p \in Nat, NEW n \in Nat, NEW v \in Words
  PROVE  /\ Fill(m, p, n, v) \in Memory
         /\ \A y \in Addresses : Fill(m, p, n, v)[y] = IF p <= y /\ y < p + n THEN v ELSE m[y]
BY HeapConstants DEF Fill, Memory

\* heap_update_block writes the first two words of a block and its last two.
LEMMA UpdateAt ==
  ASSUME NEW m \in Memory, NEW b \in Addresses, NEW s \in Words, NEW u \in Words,
         s >= 1, b + s + 6 <= HeapEnd
  PROVE  /\ heap_update_block(m, b, s, u) \in Memory
         /\ \A y \in Addresses : heap_update_block(m, b, s, u)[y] =
              IF y = b \/ y = b + 4 + s THEN s
              ELSE IF y = b + 1 \/ y = b + 5 + s THEN u ELSE m[y]
<1>1. s \in Nat /\ b \in Nat
  BY HeapConstants DEF Words
<1>2. b + 1 \in Addresses /\ b + 4 + s \in Addresses /\ (b + 4 + s) + 1 \in Addresses
  BY <1>1, HeapConstants
<1>3. U(b + HEADER + s) = b + 4 + s
  BY <1>2, NoWrap, HeapConstants DEF HEADER
<1>4. /\ Tag(m, b, s, u) \in Memory
      /\ \A y \in Addresses : Tag(m, b, s, u)[y] =
           IF y = b THEN s ELSE IF y = b + 1 THEN u ELSE m[y]
  BY <1>2, TagAt
<1>5. /\ Tag(Tag(m, b, s, u), b + 4 + s, s, u) \in Memory
      /\ \A y \in Addresses : Tag(Tag(m, b, s, u), b + 4 + s, s, u)[y] =
           IF y = b + 4 + s THEN s ELSE IF y = (b + 4 + s) + 1 THEN u ELSE Tag(m, b, s, u)[y]
  BY <1>2, <1>4, TagAt
<1>6. (b + 4 + s) + 1 = b + 5 + s /\ b + 1 # b + 4 + s /\ b # b + 5 + s
  BY <1>1
<1> QED
  BY <1>3, <1>4, <1>5, <1>6 DEF heap_update_block

\* The fields of a header in the heap, or of the words behind its last block.
LEMMA Fields ==
  ASSUME NEW m \in Memory, NEW b \in heap_start_vaddr .. HeapEnd
  PROVE  /\ Size(m, b) = m[b] /\ Used(m, b) = m[b + 1]
         /\ Prev(m, b) = m[b + 2] /\ Succ(m, b) = m[b + 3]
         /\ b \in Addresses /\ b + 1 \in Addresses /\ b + 2 \in Addresses /\ b + 3 \in Addresses
<1>1. b \in Addresses /\ b + 1 \in Addresses /\ b + 2 \in Addresses /\ b + 3 \in Addresses
  BY HeapConstants
<1>2. U(b + 1) = b + 1 /\ U(b + 2) = b + 2 /\ U(b + 3) = b + 3
  BY <1>1, NoWrap, HeapConstants
<1> QED
  BY <1>1, <1>2 DEF Size, Used, Prev, Succ, At

(***************************************************************************)
(* Walks.  A recursive function exists when every length of it does.       *)
(***************************************************************************)

\* A set of naturals has a least element; a claim about every natural follows
\* by looking at the least one that would break it.
LEMMA NatMin ==
  ASSUME NEW T, T \subseteq Nat, T # {}
  PROVE  \E x \in T : \A y \in T : x <= y
<1>1. PICK x \in T : \A y \in T : ~ (<<y, x>> \in OpToRel(<, Nat))
  BY NatLessThanWellFounded, WFMin, Zenon
<1>2. \A y \in T : ~(y < x)
  BY <1>1 DEF OpToRel
<1> QED
  BY <1>2

\* Following a step function any number of times from a start.
IsPath(f, n, start, step) ==
  /\ f \in [0 .. n -> Words]
  /\ f[0] = start
  /\ \A k \in 1 .. n : f[k] = step[f[k - 1]]

LEMMA PathExists ==
  ASSUME NEW start \in Words, NEW step \in [Words -> Words], NEW n \in Nat
  PROVE  \E f : IsPath(f, n, start, step)
<1> DEFINE Missing == {k \in Nat : ~\E f : IsPath(f, k, start, step)}
<1> SUFFICES ASSUME Missing # {} PROVE FALSE
  OBVIOUS
<1>1. PICK k \in Missing : \A j \in Missing : k <= j
  <2>1. Missing \subseteq Nat
    OBVIOUS
  <2> HIDE DEF Missing
  <2> QED
    BY <2>1, NatMin
<1>2. k \in Nat /\ ~\E f : IsPath(f, k, start, step)
  OBVIOUS
<1>3. CASE k = 0
  <2>1. IsPath([j \in 0 .. 0 |-> start], 0, start, step)
    BY DEF IsPath
  <2> QED
    BY <1>2, <1>3, <2>1
<1>4. CASE k # 0
  <2>1. k - 1 \in Nat /\ ~(k <= k - 1)
    BY <1>2, <1>4
  <2>2. PICK f : IsPath(f, k - 1, start, step)
    BY <1>1, <2>1
  <2> DEFINE g == [j \in 0 .. k |-> IF j = k THEN step[f[k - 1]] ELSE f[j]]
  <2>3. g \in [0 .. k -> Words] /\ g[0] = start
    BY <1>2, <1>4, <2>1, <2>2 DEF IsPath
  <2>4. ASSUME NEW j \in 1 .. k PROVE g[j] = step[g[j - 1]]
    <3>1. j - 1 \in 0 .. k /\ j - 1 # k /\ j \in 0 .. k
      BY <1>2
    <3>2. g[j - 1] = f[j - 1] /\ g[j] = IF j = k THEN step[f[k - 1]] ELSE f[j]
      BY <3>1
    <3>3. j # k => j \in 1 .. k - 1
      BY <1>2
    <3> QED
      BY <2>2, <3>2, <3>3 DEF IsPath
  <2> HIDE DEF g
  <2>5. IsPath(g, k, start, step)
    BY <2>3, <2>4 DEF IsPath
  <2> QED
    BY <1>2, <2>5
<1> QED
  BY <1>3, <1>4

LastStep == HEAP_MAX_SIZE \div (HEADER + TRAILER) + 1

LEMMA WalkedRange ==
  /\ LastStep \in Nat /\ LastStep >= 1 /\ 6 * LastStep > HEAP_MAX_SIZE
  /\ Walked = 0 .. LastStep
BY HeapConstants DEF LastStep, Walked, HEADER, TRAILER

\* Where the header at b sends a walk, and a search of the free list.
StepOver(m, b) == IF Size(m, b) = 0 THEN b ELSE Adjacent(m, b)
StepOn(m, b) == IF b = NULL THEN NULL ELSE Succ(m, b)

LEMMA StepTypes ==
  ASSUME NEW m \in Memory, NEW b \in Words
  PROVE  StepOver(m, b) \in Words /\ StepOn(m, b) \in Words
<1>1. ASSUME NEW x \in Int PROVE U(x) \in Words
  BY HeapConstants DEF U, Words
<1>2. ASSUME NEW a PROVE At(m, a) \in Words
  BY HeapConstants DEF At, Memory
<1>3. Size(m, b) \in Int /\ b \in Int
  BY <1>2 DEF Size, Words
<1>4. TrailerOf(m, b) \in Words
  BY <1>1, <1>3 DEF TrailerOf, HEADER
<1>5. Adjacent(m, b) \in Words
  BY <1>1, <1>4 DEF Adjacent, TRAILER, Words
<1> QED
  BY <1>2, <1>5, HeapConstants DEF StepOver, StepOn, Succ, NULL

\* A function that satisfies the equation of a walk has words for values.
LEMMA WalkTyped ==
  ASSUME NEW f, NEW start \in Words, NEW step \in [Words -> Words],
         DOMAIN f = 0 .. LastStep, f = [k \in DOMAIN f |-> f[k]], f[0] = start,
         \A k \in 1 .. LastStep : f[k - 1] \in Words => f[k] = step[f[k - 1]]
  PROVE  IsPath(f, LastStep, start, step)
<1> DEFINE Wrong == {k \in 0 .. LastStep : f[k] \notin Words}
<1>1. Wrong = {}
  <2> SUFFICES ASSUME Wrong # {} PROVE FALSE
    OBVIOUS
  <2>1. PICK k \in Wrong : \A j \in Wrong : k <= j
    <3>1. Wrong \subseteq Nat
      BY WalkedRange
    <3> HIDE DEF Wrong
    <3> QED
      BY <3>1, NatMin
  <2>2. k \in 1 .. LastStep /\ k - 1 \in 0 .. LastStep /\ ~(k <= k - 1)
    BY WalkedRange
  <2>3. f[k - 1] \in Words
    BY <2>1, <2>2
  <2> QED
    BY <2>1, <2>2, <2>3
<1>2. \A k \in 0 .. LastStep : f[k] \in Words
  BY <1>1
<1>3. f \in [0 .. LastStep -> Words]
  BY <1>2
<1>4. \A k \in 1 .. LastStep : k - 1 \in 0 .. LastStep
  BY WalkedRange
<1> QED
  BY <1>2, <1>3, <1>4 DEF IsPath

\* The defining equations of Walk and FreeList.
LEMMA WalkEquation ==
  ASSUME NEW m \in Memory
  PROVE  /\ Walk(m) \in [0 .. LastStep -> Words]
         /\ Walk(m)[0] = heap_start_vaddr
         /\ \A k \in 1 .. LastStep : Walk(m)[k] = StepOver(m, Walk(m)[k - 1])
<1> DEFINE step == [b \in Words |-> StepOver(m, b)]
<1>1. step \in [Words -> Words] /\ heap_start_vaddr \in Words
  BY StepTypes, HeapConstants
<1>2. PICK f : IsPath(f, LastStep, heap_start_vaddr, step)
  <2> HIDE DEF step
  <2> QED
    BY <1>1, PathExists, WalkedRange
<1>3. ASSUME NEW k \in 1 .. LastStep PROVE f[k] = StepOver(m, f[k - 1])
  <2>1. k - 1 \in 0 .. LastStep
    BY WalkedRange
  <2> QED
    BY <1>2, <2>1 DEF IsPath
<1>4. f = [k \in Walked |-> IF k = 0 THEN heap_start_vaddr ELSE StepOver(m, f[k - 1])]
  BY <1>2, <1>3, WalkedRange DEF IsPath
<1>5. Walk(m) = [k \in Walked |-> IF k = 0 THEN heap_start_vaddr ELSE StepOver(m, Walk(m)[k - 1])]
  BY <1>4 DEF Walk, StepOver
<1>6. \A k \in 1 .. LastStep : Walk(m)[k] = StepOver(m, Walk(m)[k - 1])
  BY <1>5, WalkedRange
<1>7. /\ DOMAIN Walk(m) = 0 .. LastStep /\ Walk(m)[0] = heap_start_vaddr
      /\ Walk(m) = [k \in 0 .. LastStep |-> Walk(m)[k]]
  BY <1>5, WalkedRange
<1>8. \A k \in 1 .. LastStep : Walk(m)[k - 1] \in Words => Walk(m)[k] = step[Walk(m)[k - 1]]
  BY <1>6
<1> HIDE DEF step
<1>9. IsPath(Walk(m), LastStep, heap_start_vaddr, step)
  BY <1>1, <1>7, <1>8, WalkTyped
<1> QED
  BY <1>6, <1>9 DEF IsPath

LEMMA FreeListEquation ==
  ASSUME NEW m \in Memory
  PROVE  /\ FreeList(m) \in [0 .. LastStep -> Words]
         /\ FreeList(m)[0] = heap_start_vaddr
         /\ \A k \in 1 .. LastStep : FreeList(m)[k] = StepOn(m, FreeList(m)[k - 1])
<1> DEFINE step == [b \in Words |-> StepOn(m, b)]
<1>1. step \in [Words -> Words] /\ heap_start_vaddr \in Words
  BY StepTypes, HeapConstants
<1>2. PICK f : IsPath(f, LastStep, heap_start_vaddr, step)
  <2> HIDE DEF step
  <2> QED
    BY <1>1, PathExists, WalkedRange
<1>3. ASSUME NEW k \in 1 .. LastStep PROVE f[k] = StepOn(m, f[k - 1])
  <2>1. k - 1 \in 0 .. LastStep
    BY WalkedRange
  <2> QED
    BY <1>2, <2>1 DEF IsPath
<1>4. f = [k \in Walked |-> IF k = 0 THEN heap_start_vaddr ELSE StepOn(m, f[k - 1])]
  BY <1>2, <1>3, WalkedRange DEF IsPath
<1>5. FreeList(m) =
        [k \in Walked |-> IF k = 0 THEN heap_start_vaddr ELSE StepOn(m, FreeList(m)[k - 1])]
  BY <1>4 DEF FreeList, StepOn
<1>6. \A k \in 1 .. LastStep : FreeList(m)[k] = StepOn(m, FreeList(m)[k - 1])
  BY <1>5, WalkedRange
<1>7. /\ DOMAIN FreeList(m) = 0 .. LastStep /\ FreeList(m)[0] = heap_start_vaddr
      /\ FreeList(m) = [k \in 0 .. LastStep |-> FreeList(m)[k]]
  BY <1>5, WalkedRange
<1>8. \A k \in 1 .. LastStep : FreeList(m)[k - 1] \in Words => FreeList(m)[k] = step[FreeList(m)[k - 1]]
  BY <1>6
<1> HIDE DEF step
<1>9. IsPath(FreeList(m), LastStep, heap_start_vaddr, step)
  BY <1>1, <1>7, <1>8, WalkTyped
<1> QED
  BY <1>6, <1>9 DEF IsPath

(***************************************************************************)
(* Tiling: B is the set of headers, each block ends where another one, or  *)
(* the end of the heap, begins, and the word behind the heap reads as the  *)
(* size 0 that stops a walk.                                               *)
(***************************************************************************)
Behind(m, b) == b + HEADER + m[b] + TRAILER

Tiled(m, B) ==
  /\ B \subseteq heap_start_vaddr .. HeapEnd - 1 /\ heap_start_vaddr \in B
  /\ m[HeapEnd] = 0
  /\ \A b \in B : m[b] >= 1 /\ Behind(m, b) \in B \cup {HeapEnd}
  /\ \A b, c \in B : b < c => Behind(m, b) <= c

LEMMA TiledBlock ==
  ASSUME NEW m \in Memory, NEW B, Tiled(m, B), NEW b \in B
  PROVE  /\ b \in Nat /\ heap_start_vaddr <= b /\ b \in Addresses /\ m[b] \in Nat /\ m[b] >= 1
         /\ Behind(m, b) \in Nat /\ Behind(m, b) = b + 6 + m[b] /\ Behind(m, b) <= HeapEnd
         /\ \A y \in b .. Behind(m, b) : y \in Addresses
<1>1. b \in Nat /\ heap_start_vaddr <= b /\ b < HeapEnd /\ b \in Addresses
  BY HeapConstants DEF Tiled
<1>2. m[b] \in Nat /\ m[b] >= 1
  BY <1>1, HeapConstants DEF Tiled, Memory, Words
<1>3. Behind(m, b) = b + 6 + m[b]
  BY <1>1, <1>2 DEF Behind, HEADER, TRAILER
<1>4. Behind(m, b) <= HeapEnd
  <2>1. Behind(m, b) \in B \cup {HeapEnd}
    BY DEF Tiled
  <2>2. \A c \in B : c \in Int /\ c <= HeapEnd
    BY HeapConstants DEF Tiled
  <2> QED
    BY <2>1, <2>2, HeapConstants
<1> QED
  BY <1>1, <1>2, <1>3, <1>4, HeapConstants

LEMMA TiledStep ==
  ASSUME NEW m \in Memory, NEW B, Tiled(m, B)
  PROVE  /\ \A b \in B : StepOver(m, b) = Behind(m, b) /\ Adjacent(m, b) = Behind(m, b)
                           /\ TrailerOf(m, b) = Behind(m, b) - 2
         /\ StepOver(m, HeapEnd) = HeapEnd
<1>1. ASSUME NEW b \in B PROVE StepOver(m, b) = Behind(m, b) /\ Adjacent(m, b) = Behind(m, b)
                                 /\ TrailerOf(m, b) = Behind(m, b) - 2
  <2>1. /\ b \in Nat /\ heap_start_vaddr <= b /\ b \in Addresses /\ m[b] \in Nat /\ m[b] >= 1
        /\ Behind(m, b) = b + 6 + m[b] /\ Behind(m, b) <= HeapEnd
    BY <1>1, TiledBlock
  <2>2. b + 4 + m[b] \in Words /\ b + 4 + m[b] + 2 \in Words
    BY <2>1, HeapConstants
  <2>3. Size(m, b) = m[b]
    BY <2>1 DEF Size, At
  <2>4. TrailerOf(m, b) = b + 4 + m[b]
    BY <2>2, <2>3, NoWrap DEF TrailerOf, HEADER
  <2>5. Adjacent(m, b) = b + 4 + m[b] + 2
    BY <2>2, <2>4, NoWrap DEF Adjacent, TRAILER
  <2> QED
    BY <2>1, <2>3, <2>4, <2>5 DEF StepOver
<1>2. HeapEnd \in Addresses
  BY HeapConstants
<1> QED
  BY <1>1, <1>2 DEF StepOver, Size, At, Tiled

\* A walk goes from header to header, past at least seven words each time.
LEMMA TiledWalk ==
  ASSUME NEW m \in Memory, NEW B, Tiled(m, B), NEW k \in 0 .. LastStep
  PROVE  /\ Walk(m)[k] \in B \cup {HeapEnd}
         /\ Walk(m)[k] = HeapEnd \/ heap_start_vaddr + 7 * k <= Walk(m)[k]
<1> DEFINE Good(j) == /\ Walk(m)[j] \in B \cup {HeapEnd}
                      /\ Walk(m)[j] = HeapEnd \/ heap_start_vaddr + 7 * j <= Walk(m)[j]
           Wrong == {j \in 0 .. LastStep : ~Good(j)}
<1> SUFFICES ASSUME Wrong # {} PROVE FALSE
  OBVIOUS
<1>1. PICK j \in Wrong : \A i \in Wrong : j <= i
  <2>1. Wrong \subseteq Nat
    BY WalkedRange
  <2> HIDE DEF Wrong
  <2> QED
    BY <2>1, NatMin
<1>2. j \in 0 .. LastStep /\ ~Good(j)
  OBVIOUS
<1>3. j # 0
  <2>1. Walk(m)[0] = heap_start_vaddr /\ heap_start_vaddr + 7 * 0 = heap_start_vaddr
          /\ heap_start_vaddr <= heap_start_vaddr
    BY WalkEquation, HeapConstants
  <2>2. Good(0)
    BY <2>1 DEF Tiled
  <2> QED
    BY <1>2, <2>2
<1>4. j \in 1 .. LastStep /\ j - 1 \in 0 .. LastStep /\ ~(j <= j - 1) /\ j \in Nat
  BY <1>2, <1>3, WalkedRange
<1>5. Good(j - 1)
  BY <1>1, <1>4
<1>6. Walk(m)[j] = StepOver(m, Walk(m)[j - 1])
  BY <1>4, WalkEquation
<1> HIDE DEF Wrong
<1>7. CASE Walk(m)[j - 1] = HeapEnd
  BY <1>2, <1>6, <1>7, TiledStep
<1>8. CASE Walk(m)[j - 1] \in B /\ Walk(m)[j - 1] # HeapEnd
  <2>1. PICK b \in B : b = Walk(m)[j - 1] /\ heap_start_vaddr + 7 * (j - 1) <= b
    BY <1>5, <1>8
  <2>2. Walk(m)[j] = Behind(m, b) /\ Behind(m, b) \in B \cup {HeapEnd}
    BY <1>6, <2>1, TiledStep DEF Tiled
  <2>3. Behind(m, b) = b + 6 + m[b] /\ m[b] >= 1 /\ b \in Nat /\ m[b] \in Nat
    BY TiledBlock
  <2>4. heap_start_vaddr + 7 * j <= Behind(m, b)
    BY <1>4, <2>1, <2>3, HeapConstants
  <2> QED
    BY <1>2, <2>2, <2>4
<1> QED
  BY <1>5, <1>7, <1>8

LEMMA TiledEnds ==
  ASSUME NEW m \in Memory, NEW B, Tiled(m, B)
  PROVE  Walk(m)[LastStep] = HeapEnd
<1>1. LastStep \in 0 .. LastStep
  BY WalkedRange
<1>2. ASSUME Walk(m)[LastStep] # HeapEnd PROVE FALSE
  <2>1. PICK b \in B : b = Walk(m)[LastStep] /\ heap_start_vaddr + 7 * LastStep <= b
    BY <1>1, <1>2, TiledWalk
  <2>2. b \in Nat /\ b + 7 <= HeapEnd
    BY TiledBlock, HeapConstants
  <2> QED
    BY <2>1, <2>2, WalkedRange, HeapConstants
<1> QED
  BY <1>2

\* The blocks of a tiled heap are the tiles.
LEMMA TiledBlocks ==
  ASSUME NEW m \in Memory, NEW B, Tiled(m, B)
  PROVE  Blocks(m) = B
<1>1. ASSUME NEW b \in Blocks(m) PROVE b \in B
  <2>1. PICK k \in Walked : b = Walk(m)[k]
    BY DEF Blocks
  <2>2. b \in Addresses /\ Size(m, b) # 0
    BY DEF Blocks
  <2>3. b \in B \cup {HeapEnd}
    BY <2>1, TiledWalk, WalkedRange
  <2>4. Size(m, HeapEnd) = 0
    BY DEF Size, At, Tiled
  <2> QED
    BY <2>2, <2>3, <2>4
<1>2. ASSUME NEW b \in B PROVE b \in Blocks(m)
  <2> DEFINE Past == {k \in 0 .. LastStep : Walk(m)[k] > b}
  <2>1. b \in Nat /\ b < HeapEnd /\ heap_start_vaddr <= b /\ b \in Addresses
          /\ Size(m, b) = m[b] /\ m[b] >= 1 /\ m[b] \in Nat
    BY TiledBlock, HeapConstants DEF Size, At
  <2>2. LastStep \in Past
    BY <2>1, TiledEnds, WalkedRange
  <2>3. PICK k \in Past : \A j \in Past : k <= j
    <3>1. Past \subseteq Nat /\ Past # {}
      BY <2>2, WalkedRange
    <3> HIDE DEF Past
    <3> QED
      BY <3>1, NatMin
  <2>4. k \in 0 .. LastStep /\ Walk(m)[k] > b
    OBVIOUS
  <2>5. k \in 1 .. LastStep /\ k - 1 \in 0 .. LastStep /\ ~(k <= k - 1)
    BY <2>1, <2>4, WalkEquation, WalkedRange, HeapConstants
  <2>6. ~(Walk(m)[k - 1] > b)
    BY <2>3, <2>5
  <2>7. Walk(m)[k - 1] \in B
    BY <2>1, <2>5, <2>6, TiledWalk
  <2>8. PICK c \in B : c = Walk(m)[k - 1]
    BY <2>7
  <2>9. Walk(m)[k] = Behind(m, c)
    BY <2>5, <2>8, WalkEquation, TiledStep
  <2>10. c \in Nat /\ c <= b
    BY <2>1, <2>6, <2>8, TiledBlock
  <2>11. c = b
    <3>1. c < b => Behind(m, c) <= b
      BY DEF Tiled
    <3>2. Behind(m, c) \in Nat /\ Behind(m, c) > b
      BY <2>4, <2>9, TiledBlock
    <3> QED
      BY <2>1, <2>10, <3>1, <3>2
  <2>12. b \in {Walk(m)[j] : j \in Walked}
    BY <2>5, <2>8, <2>11, WalkedRange
  <2> QED
    BY <2>1, <2>12 DEF Blocks
<1> QED
  BY <1>1, <1>2

\* Every word of the heap is in a block.
LEMMA Containing ==
  ASSUME NEW m \in Memory, NEW B, Tiled(m, B), NEW y \in heap_start_vaddr .. HeapEnd - 1
  PROVE  \E b \in B : b <= y /\ y < Behind(m, b)
<1> DEFINE Distances == {d \in Nat : \E b \in B : b <= y /\ d = y - b}
<1>1. y \in Nat
  BY HeapConstants
<1>2. y - heap_start_vaddr \in Distances
  BY <1>1, HeapConstants DEF Tiled
<1>3. PICK d \in Distances : \A e \in Distances : d <= e
  <2>1. Distances \subseteq Nat /\ Distances # {}
    BY <1>2
  <2> HIDE DEF Distances
  <2> QED
    BY <2>1, NatMin
<1>4. PICK b \in B : b <= y /\ d = y - b
  OBVIOUS
<1>5. ASSUME Behind(m, b) <= y PROVE FALSE
  <2>1. b \in Nat /\ Behind(m, b) \in Nat /\ Behind(m, b) > b
    BY TiledBlock
  <2>2. Behind(m, b) \in B
    BY <1>5, <2>1, HeapConstants DEF Tiled
  <2>3. y - Behind(m, b) \in Distances
    BY <1>1, <1>5, <2>1, <2>2
  <2>4. d <= y - Behind(m, b)
    BY <1>3, <2>3
  <2> QED
    BY <1>1, <1>4, <2>1, <2>4
<1> QED
  BY <1>1, <1>4, <1>5, TiledBlock

(***************************************************************************)
(* What a change of the heap's words does to a tiling.                     *)
(***************************************************************************)

\* Only one block ends where another begins.
LEMMA OnePredecessor ==
  ASSUME NEW m \in Memory, NEW B, Tiled(m, B), NEW b \in B, NEW c \in B,
         Behind(m, b) = Behind(m, c)
  PROVE  b = c
<1>1. /\ b \in Nat /\ Behind(m, b) \in Nat /\ Behind(m, b) > b
      /\ c \in Nat /\ Behind(m, c) \in Nat /\ Behind(m, c) > c
  BY TiledBlock
<1>2. (b < c => Behind(m, b) <= c) /\ (c < b => Behind(m, c) <= b)
  BY DEF Tiled
<1> QED
  BY <1>1, <1>2

LEMMA TiledSame ==
  ASSUME NEW m \in Memory, NEW B, Tiled(m, B), NEW w, w[HeapEnd] = 0,
         \A b \in B : w[b] = m[b]
  PROVE  Tiled(w, B)
BY DEF Tiled, Behind

LEMMA TiledSplit ==
  ASSUME NEW m \in Memory, NEW B, Tiled(m, B), NEW b \in B, NEW n \in Nat,
         n >= 1, m[b] >= n + 7,
         NEW w, w[b] = m[b] - n - 6, w[b + m[b] - n] = n, w[HeapEnd] = 0,
         \A c \in B \ {b} : w[c] = m[c]
  PROVE  /\ Tiled(w, B \cup {b + m[b] - n})
         /\ Behind(w, b) = b + m[b] - n /\ Behind(w, b + m[b] - n) = Behind(m, b)
<1> DEFINE new == b + m[b] - n
<1>1. /\ b \in Nat /\ heap_start_vaddr <= b /\ m[b] \in Nat
      /\ Behind(m, b) = b + 6 + m[b] /\ Behind(m, b) <= HeapEnd
  BY TiledBlock
<1>2. /\ new \in Nat /\ b < new /\ new < Behind(m, b) /\ new < HeapEnd
      /\ heap_start_vaddr <= new
  BY <1>1, HeapConstants
<1>3. Behind(w, b) = new /\ Behind(w, new) = Behind(m, b)
  BY <1>1 DEF Behind, HEADER, TRAILER
<1>4. \A c \in B \ {b} : Behind(w, c) = Behind(m, c)
  BY DEF Behind
<1>5. w[new] >= 1 /\ w[b] >= 1
  BY <1>1
<1> HIDE DEF new
<1>6. ASSUME NEW c \in B PROVE Behind(m, c) \in Nat /\ c \in Nat /\ c < Behind(m, c)
                                /\ (c < b => Behind(m, c) <= b) /\ (b < c => Behind(m, b) <= c)
  <2>1. Behind(m, c) \in Nat /\ c \in Nat /\ c < Behind(m, c)
    BY TiledBlock
  <2>2. (c < b => Behind(m, c) <= b) /\ (b < c => Behind(m, b) <= c)
    BY DEF Tiled
  <2> QED
    BY <2>1, <2>2
<1>7. ASSUME NEW c \in B \cup {new}, NEW d \in B \cup {new}, c < d
      PROVE  Behind(w, c) <= d
  <2>1. CASE c = b
    BY <1>1, <1>2, <1>3, <1>6, <1>7, <2>1
  <2>2. CASE c = new
    BY <1>1, <1>2, <1>3, <1>6, <1>7, <2>2
  <2>3. CASE c \in B /\ c # b /\ d = new
    BY <1>1, <1>2, <1>4, <1>6, <1>7, <2>3
  <2>4. CASE c \in B /\ c # b /\ d \in B
    BY <1>4, <1>7, <2>4 DEF Tiled
  <2> QED
    BY <1>7, <2>1, <2>2, <2>3, <2>4
<1>8. B \cup {new} \subseteq heap_start_vaddr .. HeapEnd - 1 /\ heap_start_vaddr \in B \cup {new}
  BY <1>2, HeapConstants DEF Tiled
<1>9. ASSUME NEW c \in B \cup {new}
      PROVE  w[c] >= 1 /\ Behind(w, c) \in (B \cup {new}) \cup {HeapEnd}
  BY <1>3, <1>4, <1>5 DEF Tiled
<1>10. Tiled(w, B \cup {new})
  BY <1>7, <1>8, <1>9 DEF Tiled
<1> QED
  BY <1>3, <1>10 DEF new

LEMMA TiledMerge ==
  ASSUME NEW m \in Memory, NEW B, Tiled(m, B), NEW b \in B, NEW c \in B,
         Behind(m, c) = b,
         NEW w, w[c] = m[c] + 6 + m[b], w[HeapEnd] = 0,
         \A d \in B \ {b, c} : w[d] = m[d]
  PROVE  Tiled(w, B \ {b}) /\ Behind(w, c) = Behind(m, b)
<1>1. /\ b \in Nat /\ heap_start_vaddr <= b /\ m[b] \in Nat /\ m[b] >= 1
      /\ Behind(m, b) = b + 6 + m[b]
      /\ c \in Nat /\ heap_start_vaddr <= c /\ m[c] \in Nat /\ m[c] >= 1
      /\ b = c + 6 + m[c]
  BY TiledBlock
<1>2. Behind(w, c) = Behind(m, b)
  BY <1>1 DEF Behind, HEADER, TRAILER
<1>3. \A d \in B \ {b, c} : Behind(w, d) = Behind(m, d) /\ Behind(m, d) # b
  BY OnePredecessor DEF Behind
<1>4. heap_start_vaddr \in B \ {b}
  BY <1>1, HeapConstants DEF Tiled
<1>5. ASSUME NEW d \in B \ {b}
      PROVE  w[d] >= 1 /\ Behind(w, d) \in (B \ {b}) \cup {HeapEnd}
  <2>1. CASE d = c
    <3>1. Behind(m, b) \in B \cup {HeapEnd} /\ Behind(m, b) # b
      BY <1>1 DEF Tiled
    <3> QED
      BY <1>1, <1>2, <2>1, <3>1
  <2>2. CASE d # c
    BY <1>3, <2>2 DEF Tiled
  <2> QED
    BY <2>1, <2>2
<1>6. ASSUME NEW d \in B \ {b}, NEW e \in B \ {b}, d < e PROVE Behind(w, d) <= e
  <2>1. CASE d = c
    <3>1. Behind(m, c) <= e /\ e \in Nat
      BY <1>6, <2>1, TiledBlock DEF Tiled
    <3>2. b < e
      BY <1>1, <1>6, <3>1
    <3>3. Behind(m, b) <= e
      BY <3>2 DEF Tiled
    <3> QED
      BY <1>2, <2>1, <3>3
  <2>2. CASE d # c
    BY <1>3, <1>6, <2>2 DEF Tiled
  <2> QED
    BY <2>1, <2>2
<1>7. B \ {b} \subseteq heap_start_vaddr .. HeapEnd - 1
  BY DEF Tiled
<1> QED
  BY <1>2, <1>4, <1>5, <1>6, <1>7 DEF Tiled

(***************************************************************************)
(* The invariant.  The first block is always free; kfree, which the kernel *)
(* calls at most once, may leave one other.                                *)
(***************************************************************************)

\* A grain as KernelRequests has it.
IsGrain(g) ==
  /\ HEAP_MAX_SIZE % g \in 1 .. g - HEADER - TRAILER - 1
  /\ \A n \in Sizes : (n + HEADER + TRAILER) % g = 0

Grain == CHOOSE g \in 1 .. HEAP_MAX_SIZE : IsGrain(g)

\* Payloads that take a number of grains with their bookkeeping, and payloads
\* of the first block: a number of grains less than at the start.
Whole(s) == \E q \in Int : s + 6 = q * Grain
Rest(s) == \E q \in Int : s = q * Grain + (HEAP_MAX_SIZE % Grain)

Second(m) == m[heap_start_vaddr + 3]

FreeBlocks(m) == {heap_start_vaddr, Second(m)} \ {NULL}
UsedBlocks(held) == {a.ptr - HEADER : a \in held}
AllBlocks(m, held) == FreeBlocks(m) \cup UsedBlocks(held)

FirstInv(m) == m[heap_start_vaddr + 1] = BLOCK_FREE /\ Rest(m[heap_start_vaddr])

SecondInv(m, released) ==
  Second(m) # NULL =>
    /\ released # 0
    /\ Second(m) # heap_start_vaddr /\ Second(m) # Behind(m, heap_start_vaddr)
    /\ m[Second(m) + 1] = BLOCK_FREE /\ Whole(m[Second(m)])
    /\ m[Second(m) + 2] = heap_start_vaddr /\ m[Second(m) + 3] = NULL

LiveInv(m, held) ==
  \A a \in held :
    /\ m[a.ptr - 4] = a.size /\ m[a.ptr - 3] = BLOCK_USED
    /\ \A y \in a.ptr .. a.ptr + a.size - 1 : m[y] = Data

\* Every block's size again at its end.
TrailersAgree(m, B) == \A b \in B : m[Behind(m, b) - TRAILER] = m[b]

HeapInv(m, held, released) ==
  /\ Tiled(m, AllBlocks(m, held))
  /\ FirstInv(m) /\ SecondInv(m, released) /\ LiveInv(m, held)
  /\ released = 0 => TrailersAgree(m, AllBlocks(m, held))

IInv == TypeOK /\ ~fault /\ HeapInv(mem, live, frees)

(***************************************************************************)
(* Grains.                                                                 *)
(***************************************************************************)
LEMMA GrainExists ==
  ASSUME KernelRequests
  PROVE  /\ Grain \in Nat /\ Grain >= 8
         /\ HEAP_MAX_SIZE % Grain \in Nat /\ HEAP_MAX_SIZE % Grain >= 1
         /\ HEAP_MAX_SIZE % Grain <= Grain - 7
         /\ \A n \in Sizes : (n + 6) % Grain = 0
<1>1. \E g \in 1 .. HEAP_MAX_SIZE : IsGrain(g)
  BY DEF KernelRequests, IsGrain
<1>2. Grain \in 1 .. HEAP_MAX_SIZE /\ IsGrain(Grain)
  BY <1>1 DEF Grain
<1>3. \A n \in Sizes : n + HEADER + TRAILER = n + 6
  BY HeapConstants DEF HEADER, TRAILER
<1>4. Grain - HEADER - TRAILER - 1 = Grain - 7
  BY <1>2 DEF HEADER, TRAILER
<1> QED
  BY <1>2, <1>3, <1>4 DEF IsGrain

LEMMA Division ==
  ASSUME NEW a \in Nat, NEW d \in Nat, d >= 1
  PROVE  \E q \in Int : a = q * d + (a % d)
<1>1. a = d * (a \div d) + (a % d) /\ a \div d \in Int
  OBVIOUS
<1>2. a = (a \div d) * d + (a % d)
  BY <1>1
<1> QED
  BY <1>1, <1>2

\* A number of grains that is more than minus one is none or more.
LEMMA GrainSign ==
  ASSUME NEW q \in Int, NEW g \in Nat, g >= 1, q * g > 0 - g
  PROVE  q >= 0 /\ q * g >= 0 /\ (q # 0 => q * g >= g)
<1>1. ASSUME q <= 0 - 1 PROVE FALSE
  <2>1. (0 - 1 - q) * g >= 0
    BY <1>1
  <2>2. (0 - 1 - q) * g = 0 - g - q * g
    OBVIOUS
  <2> QED
    BY <2>1, <2>2
<1>2. q >= 0
  BY <1>1
<1>3. q # 0 => (q - 1) * g >= 0 /\ (q - 1) * g = q * g - g
  BY <1>2
<1> QED
  BY <1>2, <1>3

LEMMA Requests ==
  ASSUME KernelRequests
  PROVE  Rest(HEAP_MAX_SIZE) /\ \A n \in Sizes : Whole(n)
<1>1. Rest(HEAP_MAX_SIZE)
  <2>1. Grain \in Nat /\ Grain >= 1 /\ HEAP_MAX_SIZE \in Nat
    BY GrainExists, HeapConstants
  <2>2. \E q \in Int : HEAP_MAX_SIZE = q * Grain + (HEAP_MAX_SIZE % Grain)
    BY <2>1, Division
  <2> QED
    BY <2>2 DEF Rest
<1>2. ASSUME NEW n \in Sizes PROVE Whole(n)
  <2>1. n + 6 \in Nat /\ (n + 6) % Grain = 0 /\ Grain \in Nat /\ Grain >= 1
    BY HeapConstants, GrainExists
  <2>2. PICK q \in Int : n + 6 = q * Grain + ((n + 6) % Grain)
    BY <2>1, Division
  <2>3. q * Grain \in Int
    BY <2>1
  <2>4. n + 6 = q * Grain
    BY <2>1, <2>2, <2>3
  <2> QED
    BY <2>4 DEF Whole
<1> QED
  BY <1>1, <1>2

\* The first block never fits exactly, and what is left of it is a block.
LEMMA RestSplits ==
  ASSUME KernelRequests, NEW s \in Nat, NEW n \in Nat, Rest(s), Whole(n), s >= n
  PROVE  s >= n + 7 /\ Rest(s - n - 6)
<1>1. PICK p \in Int : s = p * Grain + (HEAP_MAX_SIZE % Grain)
  BY DEF Rest
<1>2. PICK q \in Int : n + 6 = q * Grain
  BY DEF Whole
<1> DEFINE r == HEAP_MAX_SIZE % Grain
<1>3. Grain \in Nat /\ Grain >= 8 /\ r \in Nat /\ r >= 1 /\ r <= Grain - 7
  BY GrainExists
<1> HIDE DEF r
<1>4. (p - q) * Grain = p * Grain - q * Grain /\ (p - q) * Grain \in Int
        /\ p * Grain \in Int /\ q * Grain \in Int
  BY <1>3
<1>5. s - n - 6 = (p - q) * Grain + r
  BY <1>1, <1>2, <1>4, <1>3 DEF r
<1>6. (p - q) * Grain > 0 - Grain
  BY <1>3, <1>4, <1>5
<1>7. (p - q) * Grain >= 0
  BY <1>3, <1>6, GrainSign
<1>8. s >= n + 7
  BY <1>3, <1>4, <1>5, <1>7
<1>9. Rest(s - n - 6)
  BY <1>5 DEF Rest, r
<1> QED
  BY <1>8, <1>9

\* A block that was given back fits exactly or leaves a block.
LEMMA WholeSplits ==
  ASSUME KernelRequests, NEW s \in Nat, NEW n \in Nat, Whole(s), Whole(n), s >= n, s # n
  PROVE  s >= n + 7 /\ Whole(s - n - 6)
<1>1. PICK p \in Int : s + 6 = p * Grain
  BY DEF Whole
<1>2. PICK q \in Int : n + 6 = q * Grain
  BY DEF Whole
<1>3. Grain \in Nat /\ Grain >= 8
  BY GrainExists
<1>4. (p - q) * Grain = p * Grain - q * Grain /\ (p - q) * Grain \in Int
        /\ p * Grain \in Int /\ q * Grain \in Int
  BY <1>3
<1>5. s - n = (p - q) * Grain
  BY <1>1, <1>2, <1>4
<1>6. (p - q) * Grain > 0 - Grain
  BY <1>3, <1>4, <1>5
<1>7. p - q # 0
  BY <1>3, <1>5
<1>8. s - n >= Grain
  BY <1>3, <1>5, <1>6, <1>7, GrainSign
<1>9. (s - n - 6) + 6 = (p - q) * Grain
  BY <1>5
<1> QED
  BY <1>3, <1>8, <1>9 DEF Whole

LEMMA RestGrows ==
  ASSUME KernelRequests, NEW s \in Nat, NEW n \in Nat, Rest(s), Whole(n)
  PROVE  Rest(s + 6 + n)
<1>1. PICK p \in Int : s = p * Grain + (HEAP_MAX_SIZE % Grain)
  BY DEF Rest
<1>2. PICK q \in Int : n + 6 = q * Grain
  BY DEF Whole
<1>3. Grain \in Nat /\ HEAP_MAX_SIZE % Grain \in Nat
  BY GrainExists
<1>4. (p + q) * Grain = p * Grain + q * Grain /\ p * Grain \in Int /\ q * Grain \in Int
  BY <1>3
<1>5. s + 6 + n = (p + q) * Grain + (HEAP_MAX_SIZE % Grain)
  BY <1>1, <1>2, <1>3, <1>4
<1> QED
  BY <1>5 DEF Rest

(***************************************************************************)
(* The free list.                                                          *)
(***************************************************************************)
LEMMA FreeListShape ==
  ASSUME NEW m \in Memory,
         Second(m) # NULL => Second(m) \in heap_start_vaddr .. HeapEnd /\ m[Second(m) + 3] = NULL
  PROVE  /\ FreeList(m)[0] = heap_start_vaddr /\ FreeList(m)[1] = Second(m)
         /\ \A k \in 2 .. LastStep : FreeList(m)[k] = NULL
<1>1. heap_start_vaddr \in heap_start_vaddr .. HeapEnd /\ heap_start_vaddr # NULL
        /\ NULL \in Words
  BY HeapConstants DEF NULL
<1>2. FreeList(m)[0] = heap_start_vaddr
  BY FreeListEquation
<1>3. FreeList(m)[1] = Second(m)
  <2>1. 1 \in 1 .. LastStep /\ 1 - 1 = 0
    BY WalkedRange
  <2>2. FreeList(m)[1] = StepOn(m, FreeList(m)[0])
    BY <2>1, FreeListEquation
  <2> QED
    BY <1>1, <1>2, <2>2, Fields DEF StepOn, Second
<1>4. ASSUME NEW k \in 1 .. LastStep, k + 1 \in 1 .. LastStep,
             FreeList(m)[k] = NULL \/ FreeList(m)[k] = Second(m)
      PROVE  FreeList(m)[k + 1] = NULL
  <2>1. FreeList(m)[k + 1] = StepOn(m, FreeList(m)[k])
    <3>1. (k + 1) - 1 = k
      OBVIOUS
    <3> QED
      BY <1>4, <3>1, FreeListEquation
  <2>2. CASE FreeList(m)[k] = NULL
    BY <2>1, <2>2 DEF StepOn
  <2>3. CASE FreeList(m)[k] # NULL
    BY <1>4, <2>1, <2>3, Fields DEF StepOn
  <2> QED
    BY <2>2, <2>3
<1> DEFINE Wrong == {k \in 2 .. LastStep : FreeList(m)[k] # NULL}
<1>5. Wrong = {}
  <2> SUFFICES ASSUME Wrong # {} PROVE FALSE
    OBVIOUS
  <2>1. PICK k \in Wrong : \A j \in Wrong : k <= j
    <3>1. Wrong \subseteq Nat
      BY WalkedRange
    <3> HIDE DEF Wrong
    <3> QED
      BY <3>1, NatMin
  <2>2. k \in 2 .. LastStep /\ FreeList(m)[k] # NULL
    OBVIOUS
  <2>3. k - 1 \in 1 .. LastStep /\ (k - 1) + 1 = k /\ ~(k <= k - 1) /\ k \in 1 .. LastStep
          /\ (k - 1 # 1 => k - 1 \in 2 .. LastStep)
    BY <2>2, WalkedRange
  <2>4. FreeList(m)[k - 1] = NULL \/ FreeList(m)[k - 1] = Second(m)
    BY <1>3, <2>1, <2>3
  <2> QED
    BY <1>4, <2>2, <2>3, <2>4
<1> QED
  BY <1>2, <1>3, <1>5

(***************************************************************************)
(* What the invariant says of blocks and requests.                         *)
(***************************************************************************)
LEMMA TypeFacts ==
  ASSUME TypeOK
  PROVE  /\ mem \in Memory
         /\ \A a \in live : /\ a.ptr \in Nat /\ a.size \in Sizes /\ a.size \in Nat
                            /\ a = [ptr |-> a.ptr, size |-> a.size]
                            /\ a.ptr - HEADER = a.ptr - 4 /\ a.ptr - 4 \in UsedBlocks(live)
<1>1. mem \in Memory
  BY DEF TypeOK, Memory, Words
<1>2. ASSUME NEW a \in live
      PROVE  /\ a.ptr \in Nat /\ a.size \in Sizes /\ a.size \in Nat
             /\ a = [ptr |-> a.ptr, size |-> a.size]
             /\ a.ptr - HEADER = a.ptr - 4 /\ a.ptr - 4 \in UsedBlocks(live)
  <2>1. a \in [ptr : Addresses, size : Sizes]
    BY DEF TypeOK
  <2>2. a.ptr \in Nat /\ a.size \in Sizes /\ a.size \in Nat /\ a = [ptr |-> a.ptr, size |-> a.size]
    BY <2>1, HeapConstants
  <2>3. a.ptr - HEADER = a.ptr - 4
    BY <2>2 DEF HEADER
  <2>4. a.ptr - 4 \in UsedBlocks(live)
    BY <2>3 DEF UsedBlocks
  <2> QED
    BY <2>2, <2>3, <2>4
<1> QED
  BY <1>1, <1>2

LEMMA UsedBlock ==
  ASSUME NEW held, NEW b \in UsedBlocks(held), \A a \in held : a.ptr \in Nat
  PROVE  \E a \in held : a.ptr = b + 4 /\ b = a.ptr - 4 /\ b + 1 = a.ptr - 3
<1>1. PICK a \in held : b = a.ptr - HEADER
  BY DEF UsedBlocks
<1> QED
  BY <1>1 DEF HEADER

\* Blocks are free or held, not both, and two clients hold two blocks.
LEMMA BlockFacts ==
  ASSUME IInv
  PROVE  /\ Tiled(mem, AllBlocks(mem, live))
         /\ heap_start_vaddr # NULL /\ heap_start_vaddr \in FreeBlocks(mem)
         /\ \A b \in FreeBlocks(mem) : /\ b \in AllBlocks(mem, live) /\ mem[b + 1] = BLOCK_FREE
                                       /\ b = heap_start_vaddr \/ b = Second(mem)
         /\ \A b \in UsedBlocks(live) : /\ b \in AllBlocks(mem, live) /\ mem[b + 1] = BLOCK_USED
                                        /\ b \notin FreeBlocks(mem)
         /\ Second(mem) # NULL => /\ Second(mem) \in FreeBlocks(mem)
                                  /\ Second(mem) \in heap_start_vaddr .. HeapEnd
                                  /\ mem[Second(mem) + 3] = NULL
         /\ \A a, c \in live : a.ptr = c.ptr => a = c
<1>1. Tiled(mem, AllBlocks(mem, live)) /\ FirstInv(mem) /\ SecondInv(mem, frees) /\ LiveInv(mem, live)
  BY DEF IInv, HeapInv
<1>2. heap_start_vaddr # NULL /\ heap_start_vaddr \in FreeBlocks(mem)
  BY HeapConstants DEF FreeBlocks, NULL
<1>3. \A b \in FreeBlocks(mem) : /\ b \in AllBlocks(mem, live) /\ mem[b + 1] = BLOCK_FREE
                                 /\ b = heap_start_vaddr \/ b = Second(mem)
  BY <1>1 DEF FreeBlocks, AllBlocks, FirstInv, SecondInv
<1>4. ASSUME NEW b \in UsedBlocks(live)
      PROVE  /\ b \in AllBlocks(mem, live) /\ mem[b + 1] = BLOCK_USED /\ b \notin FreeBlocks(mem)
  <2>1. PICK a \in live : b = a.ptr - 4 /\ b + 1 = a.ptr - 3
    BY UsedBlock, TypeFacts DEF IInv
  <2>2. mem[b + 1] = BLOCK_USED
    BY <1>1, <2>1 DEF LiveInv
  <2> QED
    BY <1>3, <2>2 DEF AllBlocks, BLOCK_USED, BLOCK_FREE
<1>5. ASSUME Second(mem) # NULL
      PROVE  /\ Second(mem) \in FreeBlocks(mem) /\ Second(mem) \in heap_start_vaddr .. HeapEnd
             /\ mem[Second(mem) + 3] = NULL
  <2>1. Second(mem) \in FreeBlocks(mem)
    BY <1>5 DEF FreeBlocks
  <2>2. Second(mem) \in AllBlocks(mem, live)
    BY <1>3, <2>1
  <2>3. Second(mem) \in heap_start_vaddr .. HeapEnd - 1
    BY <1>1, <2>2 DEF Tiled
  <2>4. Second(mem) \in heap_start_vaddr .. HeapEnd
    BY <2>3, HeapConstants
  <2> QED
    BY <1>1, <1>5, <2>1, <2>4 DEF SecondInv
<1>6. ASSUME NEW a \in live, NEW c \in live, a.ptr = c.ptr PROVE a = c
  <2>1. a.size = mem[a.ptr - 4] /\ c.size = mem[c.ptr - 4]
    BY <1>1 DEF LiveInv
  <2>2. a = [ptr |-> a.ptr, size |-> a.size] /\ c = [ptr |-> c.ptr, size |-> c.size]
    BY TypeFacts DEF IInv
  <2> QED
    BY <1>6, <2>1, <2>2
<1> QED
  BY <1>1, <1>2, <1>3, <1>4, <1>5, <1>6

\* kmalloc takes a free block that is large enough, and gives up only when
\* there is none.
LEMMA Searched ==
  ASSUME IInv, NEW n \in Sizes
  PROVE  /\ \A b : IsBest(b, n) => b \in FreeBlocks(mem) /\ mem[b] >= n
         /\ Candidates(n) = {} => \A b \in FreeBlocks(mem) : mem[b] < n
<1>1. mem \in Memory
  BY TypeFacts DEF IInv
<1>2. /\ FreeList(mem)[0] = heap_start_vaddr /\ FreeList(mem)[1] = Second(mem)
      /\ \A k \in 2 .. LastStep : FreeList(mem)[k] = NULL
  BY <1>1, BlockFacts, FreeListShape
<1>3. \A b \in FreeBlocks(mem) : /\ b \in heap_start_vaddr .. HeapEnd /\ Size(mem, b) = mem[b]
                                 /\ Used(mem, b) = BLOCK_FREE /\ b # NULL
  <2> SUFFICES ASSUME NEW b \in FreeBlocks(mem)
               PROVE  /\ b \in heap_start_vaddr .. HeapEnd /\ Size(mem, b) = mem[b]
                      /\ Used(mem, b) = BLOCK_FREE /\ b # NULL
    OBVIOUS
  <2>1. b \in heap_start_vaddr .. HeapEnd /\ mem[b + 1] = BLOCK_FREE
    BY BlockFacts, HeapConstants DEF FreeBlocks
  <2> QED
    BY <1>1, <2>1, Fields DEF FreeBlocks
<1>4. ASSUME NEW b, IsBest(b, n) PROVE b \in FreeBlocks(mem) /\ mem[b] >= n
  <2>1. PICK k \in Candidates(n) : b = FreeList(mem)[k]
    BY <1>4 DEF IsBest
  <2>2. k \in Walked /\ b # NULL /\ Size(mem, b) >= n
    BY <2>1 DEF Candidates
  <2>3. k = 0 \/ k = 1 \/ k \in 2 .. LastStep
    BY <2>2, WalkedRange
  <2>4. b \in FreeBlocks(mem)
    BY <1>2, <2>1, <2>2, <2>3 DEF FreeBlocks
  <2> QED
    BY <1>3, <2>2, <2>4
<1>5. ASSUME Candidates(n) = {}, NEW b \in FreeBlocks(mem) PROVE mem[b] < n
  <2>1. PICK k \in {0, 1} : b = FreeList(mem)[k]
    BY <1>2 DEF FreeBlocks
  <2>2. k \in Walked
    BY WalkedRange
  <2>3. ~(Size(mem, b) >= n)
    BY <1>3, <1>5, <2>1, <2>2 DEF Candidates
  <2>4. mem[b] \in Nat /\ n \in Nat
    BY <1>1, BlockFacts, TiledBlock, HeapConstants
  <2> QED
    BY <1>3, <2>3, <2>4
<1> QED
  BY <1>4, <1>5

(***************************************************************************)
(* heap_init.                                                              *)
(***************************************************************************)
LEMMA InitInvariant ==
  ASSUME KernelRequests, Init
  PROVE  IInv
<1> DEFINE zeros == [a \in Addresses |-> 0]
           linked == Link(zeros, heap_start_vaddr, NULL, NULL)
<1>1. zeros \in Memory /\ NULL \in Words /\ BLOCK_FREE \in Words /\ HEAP_MAX_SIZE \in Words
  BY HeapConstants DEF Memory, NULL, BLOCK_FREE
<1>2. /\ heap_start_vaddr \in Addresses /\ heap_start_vaddr + 2 \in Addresses
      /\ heap_start_vaddr + 3 \in Addresses /\ heap_start_vaddr + HEAP_MAX_SIZE + 6 <= HeapEnd
      /\ heap_start_vaddr + 4 + HEAP_MAX_SIZE \in Addresses /\ heap_start_vaddr + 1 \in Addresses
      /\ HeapEnd \in Addresses
  BY HeapConstants
<1>3. \A y \in Addresses : zeros[y] = 0
  OBVIOUS
<1> HIDE DEF zeros
<1>4. /\ linked \in Memory
      /\ \A y \in Addresses : linked[y] = IF y = heap_start_vaddr + 2 THEN NULL
                                          ELSE IF y = heap_start_vaddr + 3 THEN NULL ELSE zeros[y]
  BY <1>1, <1>2, LinkAt
<1> HIDE DEF linked
<1>5. mem = heap_update_block(linked, heap_start_vaddr, HEAP_MAX_SIZE, BLOCK_FREE)
  BY DEF Init, heap_create_new_block, linked, zeros
<1>6. /\ mem \in Memory
      /\ \A y \in Addresses : mem[y] =
           IF y = heap_start_vaddr \/ y = heap_start_vaddr + 4 + HEAP_MAX_SIZE THEN HEAP_MAX_SIZE
           ELSE IF y = heap_start_vaddr + 1 \/ y = heap_start_vaddr + 5 + HEAP_MAX_SIZE
                THEN BLOCK_FREE ELSE linked[y]
  <2>1. HEAP_MAX_SIZE >= 1
    BY HeapConstants
  <2> QED
    BY <1>1, <1>2, <1>4, <1>5, <2>1, UpdateAt
<1>7. mem[heap_start_vaddr] = HEAP_MAX_SIZE /\ mem[heap_start_vaddr + 4 + HEAP_MAX_SIZE] = HEAP_MAX_SIZE
  BY <1>2, <1>6
<1>8. mem[heap_start_vaddr + 1] = BLOCK_FREE
  <2>1. heap_start_vaddr + 1 # heap_start_vaddr + 4 + HEAP_MAX_SIZE /\ heap_start_vaddr + 1 # heap_start_vaddr
    BY HeapConstants
  <2> QED
    BY <1>2, <1>6, <2>1
<1>9. mem[heap_start_vaddr + 3] = NULL
  <2>1. /\ heap_start_vaddr + 3 # heap_start_vaddr + 4 + HEAP_MAX_SIZE
        /\ heap_start_vaddr + 3 # heap_start_vaddr /\ heap_start_vaddr + 3 # heap_start_vaddr + 1
        /\ heap_start_vaddr + 3 # heap_start_vaddr + 5 + HEAP_MAX_SIZE
    BY HeapConstants
  <2> QED
    BY <1>2, <1>4, <1>6, <2>1
<1>10. mem[HeapEnd] = 0
  <2>1. /\ HeapEnd # heap_start_vaddr + 4 + HEAP_MAX_SIZE /\ HeapEnd # heap_start_vaddr
        /\ HeapEnd # heap_start_vaddr + 1 /\ HeapEnd # heap_start_vaddr + 5 + HEAP_MAX_SIZE
    BY HeapConstants
  <2> QED
    BY <1>2, <1>3, <1>4, <1>6, <2>1 DEF NULL
<1>11. AllBlocks(mem, live) = {heap_start_vaddr}
  BY <1>9, HeapConstants DEF AllBlocks, FreeBlocks, UsedBlocks, Second, Init, NULL
<1>12. Behind(mem, heap_start_vaddr) = HeapEnd
  BY <1>7, HeapConstants DEF Behind, HEADER, TRAILER
<1>13. Tiled(mem, {heap_start_vaddr})
  BY <1>7, <1>10, <1>12, HeapConstants DEF Tiled
<1>14. FirstInv(mem) /\ SecondInv(mem, frees) /\ LiveInv(mem, live)
  BY <1>7, <1>8, <1>9, Requests DEF FirstInv, SecondInv, LiveInv, Second, Init
<1>15. TrailersAgree(mem, {heap_start_vaddr})
  <2>1. HeapEnd - TRAILER = heap_start_vaddr + 4 + HEAP_MAX_SIZE
    BY HeapConstants DEF TRAILER
  <2> QED
    BY <1>7, <1>12, <2>1 DEF TrailersAgree
<1>16. TypeOK /\ ~fault
  <2>1. mem \in [Addresses -> 0 .. ADDRESS_WORDS - 1]
    BY <1>6 DEF Memory, Words
  <2>2. live = {} /\ answer = [size |-> 0, ptr |-> NULL] /\ frees = 0 /\ fault = FALSE
    BY DEF Init
  <2>3. 0 \in 0 .. MaxFrees
    BY KHeapAssumption
  <2> QED
    BY <2>1, <2>2, <2>3 DEF TypeOK
<1> QED
  BY <1>11, <1>13, <1>14, <1>15, <1>16 DEF IInv, HeapInv

(***************************************************************************)
(* kmalloc.                                                                *)
(***************************************************************************)

\* The words after a split of a block of r + n + 6 words into one of r words
\* and, behind it, one of n.
SplitOf(m, b, r, n) ==
  LET rest == heap_update_block(m, b, r, BLOCK_FREE)
      new  == b + r + 6
  IN  Fill(heap_create_new_block(rest, new, n, BLOCK_USED, b, Succ(rest, b)),
           new + HEADER, n, Data)

LEMMA SplitWords ==
  ASSUME NEW m \in Memory, NEW b \in Nat, heap_start_vaddr <= b, NEW n \in Nat, n >= 1,
         NEW r \in Nat, r >= 1, m[b] = r + n + 6, b + 6 + m[b] <= HeapEnd
  PROVE  LET new == b + r + 6
             w   == SplitOf(m, b, r, n)
         IN  /\ w \in Memory
             /\ \A y \in Addresses : y < b \/ y >= b + 6 + m[b] => w[y] = m[y]
             /\ w[b] = r /\ w[b + 1] = BLOCK_FREE
             /\ w[b + 2] = m[b + 2] /\ w[b + 3] = m[b + 3]
             /\ w[new] = n /\ w[new + 1] = BLOCK_USED
             /\ w[new - 2] = r /\ w[b + 4 + m[b]] = n
             /\ \A y \in new + 4 .. new + 4 + n - 1 : w[y] = Data
<1> DEFINE rest == heap_update_block(m, b, r, BLOCK_FREE)
           new  == b + r + 6
           next == Succ(rest, b)
           linked == Link(rest, new, b, next)
           created == heap_update_block(linked, new, n, BLOCK_USED)
           w == Fill(created, new + HEADER, n, Data)
<1>0. new + n + 6 = b + 6 + m[b] /\ new \in Nat /\ new + 4 \in Nat /\ new + HEADER = new + 4
  BY DEF HEADER
<1>1. /\ BLOCK_FREE \in Words /\ BLOCK_USED \in Words /\ Data \in Words
      /\ b \in Addresses /\ b \in Words /\ r \in Words /\ n \in Words /\ b + r + 6 <= HeapEnd
      /\ b \in heap_start_vaddr .. HeapEnd
  BY HeapConstants DEF BLOCK_FREE, BLOCK_USED, Words
<1>2. /\ b + 1 \in Addresses /\ b + 2 \in Addresses /\ b + 3 \in Addresses
      /\ new \in Addresses /\ new + 1 \in Addresses /\ new + 2 \in Addresses
      /\ new + 3 \in Addresses /\ new - 2 \in Addresses /\ b + 4 + m[b] \in Addresses
  BY HeapConstants
<1>3. /\ rest \in Memory
      /\ \A y \in Addresses : rest[y] = IF y = b \/ y = b + 4 + r THEN r
              ELSE IF y = b + 1 \/ y = b + 5 + r THEN BLOCK_FREE ELSE m[y]
  BY <1>1, UpdateAt
<1> HIDE DEF rest
<1>4. next \in Words
  BY <1>1, <1>2, <1>3, Fields DEF Memory
<1> HIDE DEF new, next
<1>5. /\ linked \in Memory
      /\ \A y \in Addresses : linked[y] = IF y = new + 2 THEN b ELSE IF y = new + 3 THEN next
                                          ELSE rest[y]
  BY <1>1, <1>2, <1>3, <1>4, LinkAt
<1> HIDE DEF linked
<1>6. /\ created \in Memory
      /\ \A y \in Addresses : created[y] = IF y = new \/ y = new + 4 + n THEN n
              ELSE IF y = new + 1 \/ y = new + 5 + n THEN BLOCK_USED ELSE linked[y]
  <2>1. new + n + 6 <= HeapEnd
    BY <1>0
  <2> QED
    BY <1>1, <1>2, <1>5, <2>1, UpdateAt
<1> HIDE DEF created
<1>7. /\ w \in Memory
      /\ \A y \in Addresses : w[y] = IF new + 4 <= y /\ y < (new + 4) + n THEN Data ELSE created[y]
  BY <1>0, <1>1, <1>6, FillAt
<1> HIDE DEF w
<1>8. new = b + r + 6 /\ m[b] = r + n + 6
  BY DEF new
<1>9. \A y \in Addresses : y \in Nat
  BY HeapConstants
<1>10. \A y \in Addresses : y < b \/ y >= b + 6 + m[b] => w[y] = m[y]
  BY <1>3, <1>5, <1>6, <1>7, <1>8, <1>9
<1>11. w[b] = r /\ w[b + 1] = BLOCK_FREE
  BY <1>1, <1>2, <1>3, <1>5, <1>6, <1>7, <1>8
<1>12. w[b + 2] = m[b + 2] /\ w[b + 3] = m[b + 3]
  BY <1>1, <1>2, <1>3, <1>5, <1>6, <1>7, <1>8
<1>13. w[new] = n /\ w[new + 1] = BLOCK_USED /\ w[b + 4 + m[b]] = n
  BY <1>1, <1>2, <1>6, <1>7, <1>8
<1>14. w[new - 2] = r
  BY <1>1, <1>2, <1>3, <1>5, <1>6, <1>7, <1>8
<1>15. \A y \in new + 4 .. new + 4 + n - 1 : w[y] = Data
  <2>1. \A y \in new + 4 .. new + 4 + n - 1 : y \in Addresses
    BY <1>8, HeapConstants
  <2> QED
    BY <1>7, <1>8, <2>1
<1>16. SplitOf(m, b, r, n) = w
  BY DEF SplitOf, w, created, linked, next, new, rest, heap_create_new_block
<1> QED
  BY <1>7, <1>8, <1>10, <1>11, <1>12, <1>13, <1>14, <1>15, <1>16

\* The words of one block are not those of another.
LEMMA Elsewhere ==
  ASSUME NEW m \in Memory, NEW B, Tiled(m, B), NEW b \in B, NEW c \in B, b # c,
         NEW y \in Nat, c <= y, y < Behind(m, c)
  PROVE  y < b \/ y >= Behind(m, b)
<1>1. b \in Nat /\ c \in Nat /\ Behind(m, b) \in Nat /\ Behind(m, c) \in Nat
  BY TiledBlock
<1>2. (b < c => Behind(m, b) <= c) /\ (c < b => Behind(m, c) <= b)
  BY DEF Tiled
<1> QED
  BY <1>1, <1>2

\* Where the memory of a client lies.
LEMMA Held ==
  ASSUME IInv, NEW a \in live
  PROVE  /\ a.ptr - 4 \in AllBlocks(mem, live) /\ a.ptr - 4 \notin FreeBlocks(mem)
         /\ a.ptr - 4 \in UsedBlocks(live) /\ a.ptr - 4 \in Nat /\ a.ptr \in Nat
         /\ mem[a.ptr - 4] = a.size /\ a.size \in Nat /\ a.size >= 1
         /\ (KernelRequests => Whole(a.size))
         /\ Behind(mem, a.ptr - 4) = a.ptr + a.size + 2
         /\ \A y \in Nat : a.ptr - 4 <= y /\ y < a.ptr + a.size + 2 => y \in Addresses
<1>1. mem \in Memory /\ a.ptr \in Nat /\ a.size \in Sizes /\ a.ptr - 4 \in UsedBlocks(live)
  BY TypeFacts DEF IInv
<1>2. /\ a.ptr - 4 \in AllBlocks(mem, live) /\ a.ptr - 4 \notin FreeBlocks(mem)
      /\ Tiled(mem, AllBlocks(mem, live))
  BY <1>1, BlockFacts
<1>3. mem[a.ptr - 4] = a.size
  BY DEF IInv, HeapInv, LiveInv
<1>4. /\ a.ptr - 4 \in Nat /\ Behind(mem, a.ptr - 4) = (a.ptr - 4) + 6 + mem[a.ptr - 4]
      /\ Behind(mem, a.ptr - 4) \in Nat
      /\ \A y \in a.ptr - 4 .. Behind(mem, a.ptr - 4) : y \in Addresses
  BY <1>1, <1>2, TiledBlock
<1>5. a.size \in Nat /\ a.size >= 1 /\ (KernelRequests => Whole(a.size))
  BY <1>1, HeapConstants, Requests
<1>6. Behind(mem, a.ptr - 4) = a.ptr + a.size + 2
  BY <1>1, <1>3, <1>4, <1>5
<1>7. \A y \in Nat : a.ptr - 4 <= y /\ y < a.ptr + a.size + 2 => y \in Addresses
  BY <1>1, <1>4, <1>5, <1>6
<1> QED
  BY <1>1, <1>2, <1>3, <1>4, <1>5, <1>6, <1>7

LEMMA LiveKept ==
  ASSUME IInv, NEW w, NEW held, held \subseteq live,
         \A a \in held : \A y \in Nat :
           a.ptr - 4 <= y /\ y < a.ptr + a.size /\ y # a.ptr - 2 /\ y # a.ptr - 1 => w[y] = mem[y]
  PROVE  LiveInv(w, held)
<1> SUFFICES ASSUME NEW a \in held
             PROVE  /\ w[a.ptr - 4] = a.size /\ w[a.ptr - 3] = BLOCK_USED
                    /\ \A y \in a.ptr .. a.ptr + a.size - 1 : w[y] = Data
  BY DEF LiveInv
<1>1. a.ptr - 4 \in Nat /\ a.ptr \in Nat /\ a.size \in Nat /\ a.size >= 1
  BY Held
<1>2. /\ mem[a.ptr - 4] = a.size /\ mem[a.ptr - 3] = BLOCK_USED
      /\ \A y \in a.ptr .. a.ptr + a.size - 1 : mem[y] = Data
  BY DEF IInv, HeapInv, LiveInv
<1>3. w[a.ptr - 4] = mem[a.ptr - 4] /\ w[a.ptr - 3] = mem[a.ptr - 3]
  BY <1>1
<1>4. \A y \in a.ptr .. a.ptr + a.size - 1 : w[y] = mem[y]
  BY <1>1
<1> QED
  BY <1>2, <1>3, <1>4

\* What carving n words from block b, for a new client, amounts to.
LEMMA SplitFacts ==
  ASSUME KernelRequests, IInv, NEW n \in Sizes, BigBlockSplit(n)
  PROVE  \E b \in FreeBlocks(mem), r \in Nat :
           /\ r >= 1 /\ mem[b] = r + n + 6 /\ b \in Nat
           /\ (b = heap_start_vaddr => Rest(r)) /\ (b # heap_start_vaddr => Whole(r))
           /\ mem' = SplitOf(mem, b, r, n) /\ frees' = frees /\ fault' = fault
           /\ live' = live \cup {[ptr |-> b + r + 6 + HEADER, size |-> n]}
           /\ answer' = [size |-> n, ptr |-> b + r + 6 + HEADER]
<1>1. PICK b \in Addresses :
        /\ IsBest(b, n) /\ Size(mem, b) > n
        /\ LET new  == U(b + Size(mem, b) - n)
               rest == heap_update_block(mem, b, Remainder(Size(mem, b), n), BLOCK_FREE)
           IN  Handed(heap_create_new_block(rest, new, n, BLOCK_USED, b, Succ(rest, b)),
                      n, new + HEADER)
  BY DEF BigBlockSplit
<1>2. b \in FreeBlocks(mem) /\ mem \in Memory /\ Tiled(mem, AllBlocks(mem, live))
        /\ b \in AllBlocks(mem, live)
  BY <1>1, Searched, BlockFacts, TypeFacts DEF IInv
<1>3. /\ b \in Nat /\ mem[b] \in Nat /\ Behind(mem, b) = b + 6 + mem[b] /\ Behind(mem, b) <= HeapEnd
      /\ heap_start_vaddr <= b /\ Size(mem, b) = mem[b]
  BY <1>2, TiledBlock DEF Size, At
<1>4. n \in Nat /\ n >= 1 /\ Whole(n)
  BY HeapConstants, Requests
<1>5. CASE b = heap_start_vaddr
  <2>1. Rest(mem[b])
    BY <1>5 DEF IInv, HeapInv, FirstInv
  <2>2. mem[b] >= n + 7 /\ Rest(mem[b] - n - 6)
    BY <1>1, <1>3, <1>4, <2>1, RestSplits
  <2> DEFINE r == mem[b] - n - 6
  <2>3. r \in Nat /\ r >= 1 /\ mem[b] = r + n + 6 /\ Rest(r) /\ r \in Words
          /\ b + r + 6 \in Words /\ Size(mem, b) - HEADER - n - TRAILER = r
          /\ b + Size(mem, b) - n = b + r + 6
    BY <1>3, <1>4, <2>2, HeapConstants DEF HEADER, TRAILER, Words
  <2> HIDE DEF r
  <2>4. Remainder(Size(mem, b), n) = r /\ U(b + Size(mem, b) - n) = b + r + 6
    BY <2>3, NoWrap DEF Remainder
  <2> QED
    BY <1>1, <1>2, <1>3, <1>5, <2>3, <2>4 DEF Handed, SplitOf
<1>6. CASE b # heap_start_vaddr
  <2>1. Whole(mem[b])
    BY <1>2, <1>6 DEF IInv, HeapInv, SecondInv, FreeBlocks
  <2>2. mem[b] >= n + 7 /\ Whole(mem[b] - n - 6)
    BY <1>1, <1>3, <1>4, <2>1, WholeSplits
  <2> DEFINE r == mem[b] - n - 6
  <2>3. r \in Nat /\ r >= 1 /\ mem[b] = r + n + 6 /\ Whole(r) /\ r \in Words
          /\ b + r + 6 \in Words /\ Size(mem, b) - HEADER - n - TRAILER = r
          /\ b + Size(mem, b) - n = b + r + 6
    BY <1>3, <1>4, <2>2, HeapConstants DEF HEADER, TRAILER, Words
  <2> HIDE DEF r
  <2>4. Remainder(Size(mem, b), n) = r /\ U(b + Size(mem, b) - n) = b + r + 6
    BY <2>3, NoWrap DEF Remainder
  <2> QED
    BY <1>1, <1>2, <1>3, <1>6, <2>3, <2>4 DEF Handed, SplitOf
<1> QED
  BY <1>5, <1>6

LEMMA SplitStep ==
  ASSUME KernelRequests, IInv, NEW n \in Sizes, BigBlockSplit(n)
  PROVE  IInv'
<1> DEFINE B == AllBlocks(mem, live)
<1>1. PICK b \in FreeBlocks(mem), r \in Nat :
           /\ r >= 1 /\ mem[b] = r + n + 6 /\ b \in Nat
           /\ (b = heap_start_vaddr => Rest(r)) /\ (b # heap_start_vaddr => Whole(r))
           /\ mem' = SplitOf(mem, b, r, n) /\ frees' = frees /\ fault' = fault
           /\ live' = live \cup {[ptr |-> b + r + 6 + HEADER, size |-> n]}
           /\ answer' = [size |-> n, ptr |-> b + r + 6 + HEADER]
  BY SplitFacts
<1> DEFINE new == b + r + 6
           h == [ptr |-> new + HEADER, size |-> n]
<1>2. mem \in Memory /\ Tiled(mem, B) /\ b \in B /\ n \in Nat /\ n >= 1
  BY BlockFacts, TypeFacts, HeapConstants DEF IInv
<1>3. /\ heap_start_vaddr <= b /\ Behind(mem, b) = b + 6 + mem[b] /\ b + 6 + mem[b] <= HeapEnd
      /\ b \in Addresses /\ heap_start_vaddr \in Nat /\ HeapEnd \in Nat
  BY <1>2, TiledBlock, HeapConstants
<1>4. /\ live' = live \cup {h} /\ answer' = [size |-> n, ptr |-> new + HEADER]
      /\ frees' = frees /\ fault' = fault
  BY <1>1
<1>5. /\ mem' \in Memory
      /\ \A y \in Addresses : y < b \/ y >= b + 6 + mem[b] => mem'[y] = mem[y]
      /\ mem'[b] = r /\ mem'[b + 1] = BLOCK_FREE
      /\ mem'[b + 2] = mem[b + 2] /\ mem'[b + 3] = mem[b + 3]
      /\ mem'[new] = n /\ mem'[new + 1] = BLOCK_USED
      /\ mem'[new - 2] = r /\ mem'[b + 4 + mem[b]] = n
      /\ \A y \in new + 4 .. new + 4 + n - 1 : mem'[y] = Data
  <2>1. b \in Nat /\ r \in Nat /\ r >= 1 /\ mem[b] = r + n + 6 /\ mem' = SplitOf(mem, b, r, n)
    BY <1>1
  <2> QED
    BY <1>2, <1>3, <2>1, SplitWords
<1>6. /\ new \in Nat /\ new + HEADER = new + 4 /\ h.ptr = new + 4 /\ h.size = n
      /\ h.ptr \in Addresses /\ h.ptr - HEADER = new /\ h.ptr - 4 = new /\ h.ptr - 3 = new + 1
  BY <1>1, <1>2, <1>3, HeapConstants DEF HEADER
<1> HIDE DEF B
<1>7. ASSUME NEW c \in B, c # b, NEW y \in Nat, c <= y, y < Behind(mem, c)
      PROVE  mem'[y] = mem[y]
  <2>1. y < b \/ y >= Behind(mem, b)
    BY <1>2, <1>7, Elsewhere
  <2>2. y \in Addresses
    BY <1>2, <1>7, TiledBlock
  <2> QED
    BY <1>3, <1>5, <2>1, <2>2
<1>8. \A c \in B \ {b} : mem'[c] = mem[c] /\ Behind(mem', c) = Behind(mem, c)
                         /\ mem'[Behind(mem, c) - TRAILER] = mem[Behind(mem, c) - TRAILER]
  <2> SUFFICES ASSUME NEW c \in B \ {b}
               PROVE  mem'[c] = mem[c] /\ mem'[Behind(mem, c) - TRAILER] = mem[Behind(mem, c) - TRAILER]
    BY DEF Behind
  <2>1. /\ c \in Nat /\ Behind(mem, c) \in Nat /\ Behind(mem, c) = c + 6 + mem[c]
        /\ mem[c] \in Nat /\ mem[c] >= 1
    BY <1>2, TiledBlock
  <2>2. Behind(mem, c) - TRAILER \in Nat /\ c <= Behind(mem, c) - TRAILER
          /\ Behind(mem, c) - TRAILER < Behind(mem, c) /\ c < Behind(mem, c)
    BY <2>1 DEF TRAILER
  <2> QED
    BY <1>7, <2>1, <2>2
<1>9. mem'[HeapEnd] = 0
  BY <1>2, <1>3, <1>5, HeapConstants DEF Tiled
<1>10. new = b + mem[b] - n /\ mem[b] - n - 6 = r /\ mem[b] >= n + 7 /\ mem[b] \in Nat
  BY <1>1, <1>2
<1>11. /\ Tiled(mem', B \cup {new})
       /\ Behind(mem', b) = new /\ Behind(mem', new) = Behind(mem, b)
  BY <1>2, <1>5, <1>8, <1>9, <1>10, TiledSplit
<1>12. heap_start_vaddr \in B
  BY <1>2 DEF Tiled
<1>13. Second(mem') = Second(mem) /\ mem'[heap_start_vaddr + 1] = BLOCK_FREE
         /\ (b # heap_start_vaddr => mem'[heap_start_vaddr] = mem[heap_start_vaddr])
  <2>1. CASE b = heap_start_vaddr
    BY <1>5, <2>1 DEF Second
  <2>2. CASE b # heap_start_vaddr
    <3>1. /\ heap_start_vaddr + 3 < Behind(mem, heap_start_vaddr)
          /\ heap_start_vaddr + 1 < Behind(mem, heap_start_vaddr)
      BY <1>2, <1>12, TiledBlock
    <3>2. mem'[heap_start_vaddr + 3] = mem[heap_start_vaddr + 3]
            /\ mem'[heap_start_vaddr + 1] = mem[heap_start_vaddr + 1]
      BY <1>3, <1>7, <1>12, <2>2, <3>1
    <3> QED
      BY <1>8, <1>12, <2>2, <3>2 DEF Second, IInv, HeapInv, FirstInv
  <2> QED
    BY <2>1, <2>2
<1>14. AllBlocks(mem', live') = B \cup {new}
  BY <1>4, <1>6, <1>13 DEF AllBlocks, FreeBlocks, UsedBlocks, B
<1>15. FirstInv(mem')
  BY <1>1, <1>5, <1>13 DEF FirstInv, IInv, HeapInv
<1>16. SecondInv(mem', frees')
  <2> SUFFICES ASSUME Second(mem) # NULL PROVE SecondInv(mem', frees')
    BY <1>13 DEF SecondInv
  <2> DEFINE x == Second(mem)
  <2>1. /\ frees # 0 /\ x # heap_start_vaddr /\ x # Behind(mem, heap_start_vaddr)
        /\ mem[x + 1] = BLOCK_FREE /\ Whole(mem[x])
        /\ mem[x + 2] = heap_start_vaddr /\ mem[x + 3] = NULL
    BY DEF IInv, HeapInv, SecondInv
  <2>2. x \in B
    BY BlockFacts DEF B
  <2>3. x \in Nat /\ heap_start_vaddr <= x /\ mem[x] \in Nat /\ Behind(mem, x) = x + 6 + mem[x]
    BY <1>2, <2>2, TiledBlock
  <2> HIDE DEF x
  <2>4. Behind(mem, heap_start_vaddr) <= x
    BY <1>2, <1>3, <1>12, <2>1, <2>2, <2>3 DEF Tiled
  <2>5. CASE b = x
    <3>1. Behind(mem', heap_start_vaddr) = Behind(mem, heap_start_vaddr)
      BY <1>8, <1>12, <2>1, <2>5
    <3> QED
      BY <1>1, <1>4, <1>5, <1>13, <2>1, <2>5, <3>1 DEF SecondInv, x
  <2>6. CASE b # x
    <3>1. b = heap_start_vaddr
      BY <1>1, <2>6 DEF FreeBlocks, x
    <3>2. Behind(mem', heap_start_vaddr) # x
      <4>1. Behind(mem', heap_start_vaddr) = b + r + 6 /\ Behind(mem, heap_start_vaddr) = b + 6 + mem[b]
        BY <1>3, <1>11, <3>1
      <4>2. mem[b] = r + n + 6 /\ b \in Nat /\ r \in Nat
        BY <1>1
      <4> QED
        BY <1>2, <2>3, <2>4, <4>1, <4>2
    <3>3. mem'[x] = mem[x] /\ mem'[x + 1] = mem[x + 1] /\ mem'[x + 2] = mem[x + 2]
            /\ mem'[x + 3] = mem[x + 3]
      BY <1>7, <2>2, <2>3, <2>6
    <3> QED
      BY <1>4, <1>13, <2>1, <3>2, <3>3 DEF SecondInv, x
  <2> QED
    BY <2>5, <2>6
<1>17. LiveInv(mem', live')
  <2>1. LiveInv(mem', live)
    <3>1. ASSUME NEW a \in live, NEW y \in Nat, a.ptr - 4 <= y, y < a.ptr + a.size
          PROVE  mem'[y] = mem[y]
      <4>1. a.ptr - 4 \in B /\ a.ptr - 4 # b /\ Behind(mem, a.ptr - 4) = a.ptr + a.size + 2
              /\ a.ptr \in Nat /\ a.size \in Nat
        BY <1>1, Held DEF B
      <4> QED
        BY <1>7, <3>1, <4>1
    <3> QED
      BY <3>1, LiveKept
  <2>2. \A y \in h.ptr .. h.ptr + h.size - 1 : mem'[y] = Data
    BY <1>5, <1>6
  <2>3. mem'[h.ptr - 4] = h.size /\ mem'[h.ptr - 3] = BLOCK_USED
    BY <1>5, <1>6
  <2> QED
    BY <1>4, <2>1, <2>2, <2>3 DEF LiveInv
<1>18. frees' = 0 => TrailersAgree(mem', B \cup {new})
  <2> SUFFICES ASSUME frees = 0, NEW c \in B \cup {new}
               PROVE  mem'[Behind(mem', c) - TRAILER] = mem'[c]
    BY <1>4 DEF TrailersAgree
  <2>1. CASE c = b
    BY <1>5, <1>6, <1>11, <2>1 DEF TRAILER
  <2>2. CASE c = new
    <3>1. Behind(mem', c) - TRAILER = b + 4 + mem[b]
      BY <1>1, <1>3, <1>10, <1>11, <2>2 DEF TRAILER
    <3> QED
      BY <1>5, <2>2, <3>1
  <2>3. CASE c \in B \ {b}
    <3>1. mem[Behind(mem, c) - TRAILER] = mem[c]
      BY <2>3 DEF IInv, HeapInv, TrailersAgree, B
    <3> QED
      BY <1>8, <2>3, <3>1
  <2> QED
    BY <2>1, <2>2, <2>3
<1>19. TypeOK'
  <2>1. mem' \in [Addresses -> 0 .. ADDRESS_WORDS - 1]
    BY <1>5 DEF Memory, Words
  <2>2. h \in [ptr : Addresses, size : Sizes] /\ new + HEADER \in Addresses
    BY <1>6
  <2> HIDE DEF h, new
  <2> QED
    BY <1>4, <2>1, <2>2 DEF TypeOK, IInv
<1> QED
  BY <1>4, <1>11, <1>14, <1>15, <1>16, <1>17, <1>18, <1>19 DEF IInv, HeapInv

\* An exact fit is the block that was given back: it leaves the free list.
LEMMA FitStep ==
  ASSUME KernelRequests, IInv, NEW n \in Sizes, PerfectFit(n)
  PROVE  IInv'
<1> DEFINE B == AllBlocks(mem, live)
           hs == heap_start_vaddr
<1>1. PICK x \in Addresses :
        /\ IsBest(x, n) /\ Size(mem, x) = n
        /\ Handed(heap_remove_free_block(heap_update_block(mem, x, n, BLOCK_USED), x), n, x + HEADER)
  BY DEF PerfectFit
<1>2. /\ mem \in Memory /\ Tiled(mem, B) /\ n \in Nat /\ n >= 1 /\ Whole(n)
      /\ x \in FreeBlocks(mem) /\ x \in B /\ mem[x] = n
  BY <1>1, Searched, BlockFacts, TypeFacts, HeapConstants, Requests DEF IInv, Size, At
<1>3. x # hs
  <2>1. Rest(mem[hs]) /\ hs \in B
    BY <1>2 DEF IInv, HeapInv, FirstInv, Tiled
  <2>2. mem[hs] \in Nat
    BY <1>2, <2>1, TiledBlock
  <2>3. mem[hs] >= n => mem[hs] >= n + 7
    BY <1>2, <2>1, <2>2, RestSplits
  <2> QED
    BY <1>2, <2>2, <2>3
<1>4. /\ x = Second(mem) /\ x # NULL /\ frees # 0 /\ mem[x + 2] = hs /\ mem[x + 3] = NULL
  BY <1>2, <1>3 DEF FreeBlocks, IInv, HeapInv, SecondInv
<1>5. /\ x \in Nat /\ x \in Addresses /\ Behind(mem, x) = x + 6 + n /\ x + 6 + n <= HeapEnd
      /\ hs \in Nat /\ hs + 6 < x /\ hs \in Addresses /\ hs + 3 \in Addresses
      /\ x + 1 \in Addresses /\ x + 2 \in Addresses /\ x + 3 \in Addresses
      /\ x \in heap_start_vaddr .. HeapEnd
  <2>1. hs \in B /\ hs <= x /\ x \in Nat /\ hs \in Nat /\ Behind(mem, hs) > hs + 6
          /\ Behind(mem, hs) \in Nat
    BY <1>2, TiledBlock DEF Tiled
  <2>2. Behind(mem, hs) <= x
    BY <1>2, <1>3, <2>1 DEF Tiled
  <2> QED
    BY <1>2, <2>1, <2>2, TiledBlock, HeapConstants
<1> DEFINE u == heap_update_block(mem, x, n, BLOCK_USED)
           v == Put(u, hs + 3, NULL)
<1>6. /\ u \in Memory
      /\ \A y \in Addresses : u[y] = IF y = x \/ y = x + 4 + n THEN n
             ELSE IF y = x + 1 \/ y = x + 5 + n THEN BLOCK_USED ELSE mem[y]
  BY <1>2, <1>5, UpdateAt, HeapConstants DEF BLOCK_USED
<1> HIDE DEF u
<1>7. u[x + 2] = hs /\ u[x + 3] = NULL
  BY <1>2, <1>4, <1>5, <1>6
<1>8. /\ v \in Memory
      /\ \A y \in Addresses : v[y] = IF y = hs + 3 THEN NULL ELSE u[y]
  BY <1>5, <1>6, PutAt, HeapConstants DEF NULL
<1>9. v[x + 3] = NULL
  BY <1>5, <1>7, <1>8
<1>10. heap_remove_free_block(u, x) = v
  <2>1. Prev(u, x) = hs /\ Succ(u, x) = NULL /\ hs # NULL
    BY <1>5, <1>6, <1>7, Fields, BlockFacts
  <2>2. U(Prev(u, x) + 3) = hs + 3
    BY <1>5, <2>1, NoWrap, HeapConstants
  <2> HIDE DEF v
  <2>3. Succ(v, x) = NULL
    BY <1>5, <1>8, <1>9, Fields
  <2> QED
    BY <2>1, <2>2, <2>3 DEF heap_remove_free_block, v
<1>11. /\ mem' = Fill(v, x + HEADER, n, Data) /\ frees' = frees /\ fault' = fault
       /\ live' = live \cup {[ptr |-> x + HEADER, size |-> n]}
       /\ answer' = [size |-> n, ptr |-> x + HEADER]
  BY <1>1, <1>10 DEF Handed, u
<1> HIDE DEF v
<1>12. /\ mem' \in Memory
       /\ \A y \in Addresses : mem'[y] = IF x + 4 <= y /\ y < (x + 4) + n THEN Data ELSE v[y]
  <2>1. x + HEADER = x + 4 /\ x + 4 \in Nat
    BY <1>5 DEF HEADER
  <2>2. mem' = Fill(v, x + 4, n, Data) /\ Data \in Words
    BY <1>11, <2>1, HeapConstants
  <2>3. v \in Memory /\ n \in Nat /\ Data \in Words
    BY <1>2, <1>8, <2>2
  <2>4. ASSUME NEW p \in Nat, mem' = Fill(v, p, n, Data)
        PROVE  /\ mem' \in Memory
               /\ \A y \in Addresses : mem'[y] = IF p <= y /\ y < p + n THEN Data ELSE v[y]
    BY <2>3, <2>4, FillAt
  <2> QED
    BY <2>1, <2>2, <2>4
<1>13. \A y \in Addresses : (y < x \/ y >= x + 6 + n) /\ y # hs + 3 => mem'[y] = mem[y]
  BY <1>2, <1>5, <1>6, <1>8, <1>12, HeapConstants
<1>14. mem'[x] = n /\ mem'[x + 1] = BLOCK_USED /\ mem'[hs + 3] = NULL
  BY <1>2, <1>5, <1>6, <1>8, <1>12
<1>15. \A y \in x + 4 .. x + 4 + n - 1 : mem'[y] = Data
  BY <1>2, <1>5, <1>12, HeapConstants
<1> DEFINE h == [ptr |-> x + HEADER, size |-> n]
<1>16. h.ptr = x + 4 /\ h.size = n /\ h.ptr - HEADER = x /\ h.ptr - 4 = x /\ h.ptr - 3 = x + 1
         /\ h.ptr \in Addresses /\ x + HEADER \in Addresses
  BY <1>2, <1>5, HeapConstants DEF HEADER
<1> HIDE DEF B
<1>17. \A c \in B : mem'[c] = mem[c]
  <2> SUFFICES ASSUME NEW c \in B PROVE mem'[c] = mem[c]
    OBVIOUS
  <2>1. c \in Nat /\ c \in Addresses /\ Behind(mem, c) > c
    BY <1>2, TiledBlock
  <2>2. hs \in B /\ Behind(mem, hs) > hs + 6 /\ Behind(mem, hs) \in Nat /\ hs <= c
    <3>1. hs \in B
      BY <1>2 DEF Tiled
    <3> QED
      BY <1>2, <3>1, TiledBlock
  <2>3. hs < c => Behind(mem, hs) <= c
    BY <1>2, <2>2 DEF Tiled
  <2>4. c # hs + 3
    BY <1>5, <2>1, <2>2, <2>3
  <2>5. c # x => c < x \/ c >= x + 6 + n
    BY <1>2, <1>5, <2>1, Elsewhere
  <2> QED
    BY <1>2, <1>13, <1>14, <2>1, <2>4, <2>5
<1>18. mem'[HeapEnd] = 0
  BY <1>2, <1>5, <1>13, HeapConstants DEF Tiled
<1>19. Tiled(mem', B)
  BY <1>2, <1>17, <1>18, TiledSame
<1>20. AllBlocks(mem', live') = B
  <2>1. Second(mem') = NULL /\ hs # NULL
    BY <1>14, BlockFacts DEF Second
  <2>2. UsedBlocks(live') = UsedBlocks(live) \cup {x}
    BY <1>11, <1>16 DEF UsedBlocks
  <2>3. B = {hs, x} \cup UsedBlocks(live)
    BY <1>4, <2>1 DEF B, AllBlocks, FreeBlocks
  <2> QED
    BY <2>1, <2>2, <2>3 DEF AllBlocks, FreeBlocks
<1>21. FirstInv(mem') /\ SecondInv(mem', frees')
  <2>1. mem'[hs] = mem[hs] /\ mem'[hs + 1] = mem[hs + 1]
    BY <1>5, <1>13, HeapConstants
  <2> QED
    BY <1>14, <2>1 DEF FirstInv, SecondInv, Second, IInv, HeapInv
<1>22. LiveInv(mem', live')
  <2>1. ASSUME NEW a \in live, NEW y \in Nat, a.ptr - 4 <= y, y < a.ptr + a.size
        PROVE  mem'[y] = mem[y]
    <3>1. /\ a.ptr - 4 \in B /\ a.ptr - 4 # x /\ a.ptr - 4 # hs
          /\ Behind(mem, a.ptr - 4) = a.ptr + a.size + 2
          /\ a.ptr \in Nat /\ a.size \in Nat /\ y \in Addresses
      BY <1>2, <2>1, Held, BlockFacts DEF B
    <3>2. y < x \/ y >= x + 6 + n
      BY <1>2, <1>5, <2>1, <3>1, Elsewhere
    <3>3. y >= Behind(mem, hs)
      <4>1. hs \in B /\ hs <= a.ptr - 4
        BY <1>2, <3>1, TiledBlock DEF Tiled
      <4>2. y < hs \/ y >= Behind(mem, hs)
        BY <1>2, <2>1, <3>1, <4>1, Elsewhere
      <4> QED
        BY <1>5, <2>1, <3>1, <4>1, <4>2
    <3>4. Behind(mem, hs) > hs + 3 /\ Behind(mem, hs) \in Nat
      <4>1. hs \in B
        BY <1>2 DEF Tiled
      <4> QED
        BY <1>2, <4>1, TiledBlock
    <3> QED
      BY <1>5, <1>13, <3>1, <3>2, <3>3, <3>4
  <2>2. LiveInv(mem', live)
    BY <2>1, LiveKept
  <2>3. \A y \in h.ptr .. h.ptr + h.size - 1 : mem'[y] = Data
    BY <1>15, <1>16
  <2>4. mem'[h.ptr - 4] = h.size /\ mem'[h.ptr - 3] = BLOCK_USED
    BY <1>14, <1>16
  <2> QED
    BY <1>11, <2>2, <2>3, <2>4 DEF LiveInv
<1>23. TypeOK'
  <2>1. mem' \in [Addresses -> 0 .. ADDRESS_WORDS - 1]
    BY <1>12 DEF Memory, Words
  <2>2. h \in [ptr : Addresses, size : Sizes]
    BY <1>16
  <2> QED
    BY <1>11, <1>16, <2>1, <2>2 DEF TypeOK, IInv
<1> QED
  BY <1>4, <1>11, <1>19, <1>20, <1>21, <1>22, <1>23 DEF IInv, HeapInv

(***************************************************************************)
(* kfree.                                                                  *)
(***************************************************************************)

\* Up to the search for its block: the payload is cleared, the used flags too.
LEMMA ClearedWords ==
  ASSUME IInv, NEW a \in live
  PROVE  /\ Cleared(a.ptr) \in Memory
         /\ Cleared(a.ptr)[a.ptr - 4 + 1] = BLOCK_FREE
         /\ \A y \in Addresses :
              y < a.ptr - 4 \/ y \in {a.ptr - 4, a.ptr - 4 + 2, a.ptr - 4 + 3}
                \/ y >= a.ptr - 4 + 6 + a.size => Cleared(a.ptr)[y] = mem[y]
<1> DEFINE p == a.ptr
           n == a.size
           zero == IF MemZeroOnFree THEN Fill(mem, p, n, 0) ELSE mem
           one == Put(zero, p - 3, BLOCK_FREE)
<1>1. mem \in Memory /\ Tiled(mem, AllBlocks(mem, live)) /\ 0 \in Words /\ BLOCK_FREE \in Words
  BY BlockFacts, TypeFacts, HeapConstants DEF IInv, BLOCK_FREE
<1>2. /\ p \in Nat /\ p - 4 \in Nat /\ n \in Nat /\ n >= 1 /\ mem[p - 4] = n /\ p - 4 \in AllBlocks(mem, live)
      /\ Behind(mem, p - 4) = p + n + 2
      /\ \A y \in Nat : p - 4 <= y /\ y < p + n + 2 => y \in Addresses
  BY Held
<1>3. p - HEADER = p - 4 /\ Size(mem, p - 4) = n /\ TrailerOf(mem, p - 4) = p + n
        /\ p - 3 \in Addresses /\ p + n + 1 \in Addresses
  <2>1. TrailerOf(mem, p - 4) = Behind(mem, p - 4) - 2
    BY <1>1, <1>2, TiledStep
  <2>2. p - 4 \in Addresses /\ p - 3 \in Addresses /\ p + n + 1 \in Addresses
    BY <1>2
  <2> QED
    BY <1>2, <2>1, <2>2 DEF HEADER, Size, At
<1>4. U((p - 4) + 1) = p - 3 /\ U((p + n) + 1) = p + n + 1
  <2>1. (p - 4) + 1 = p - 3 /\ (p + n) + 1 = p + n + 1 /\ p - 3 \in Words /\ p + n + 1 \in Words
    BY <1>2, <1>3, HeapConstants
  <2> QED
    BY <2>1, NoWrap
<1>5. zero \in Memory /\ \A y \in Addresses : y < p \/ y >= p + n => zero[y] = mem[y]
  <2>1. Fill(mem, p, n, 0) \in Memory
          /\ \A y \in Addresses : Fill(mem, p, n, 0)[y] = IF p <= y /\ y < p + n THEN 0 ELSE mem[y]
    <3>1. mem \in Memory /\ p \in Nat /\ n \in Nat /\ 0 \in Words
      BY <1>1, <1>2
    <3> HIDE DEF p, n
    <3> QED
      BY <3>1, FillAt
  <2>2. \A y \in Addresses : y \in Nat
    BY HeapConstants
  <2> QED
    BY <1>1, <1>2, <2>1, <2>2
<1>6. Cleared(p) = Put(one, p + n + 1, BLOCK_FREE)
  BY <1>3, <1>4 DEF Cleared
<1> HIDE DEF zero
<1>7. one \in Memory /\ \A y \in Addresses : one[y] = IF y = p - 3 THEN BLOCK_FREE ELSE zero[y]
  <2>1. ASSUME NEW q \in Addresses
        PROVE  /\ Put(zero, q, BLOCK_FREE) \in Memory
               /\ \A y \in Addresses : Put(zero, q, BLOCK_FREE)[y] = IF y = q THEN BLOCK_FREE ELSE zero[y]
    BY <1>1, <1>5, PutAt
  <2> QED
    BY <1>3, <2>1
<1> HIDE DEF one
<1>8. /\ Cleared(p) \in Memory
      /\ \A y \in Addresses : Cleared(p)[y] = IF y = p + n + 1 THEN BLOCK_FREE ELSE one[y]
  <2>1. ASSUME NEW q \in Addresses
        PROVE  /\ Put(one, q, BLOCK_FREE) \in Memory
               /\ \A y \in Addresses : Put(one, q, BLOCK_FREE)[y] = IF y = q THEN BLOCK_FREE ELSE one[y]
    BY <1>1, <1>7, PutAt
  <2> QED
    BY <1>3, <1>6, <2>1
<1>9. \A y \in Addresses : y \in Nat
  BY HeapConstants
<1>10. Cleared(p)[p - 4 + 1] = BLOCK_FREE
  <2>1. p - 4 + 1 = p - 3
    BY <1>2
  <2> QED
    BY <1>2, <1>3, <1>7, <1>8, <2>1
<1> HIDE DEF p, n
<1>11. \A y \in Addresses : y < p - 4 \/ y \in {p - 4, p - 4 + 2, p - 4 + 3} \/ y >= p - 4 + 6 + n
         => Cleared(p)[y] = mem[y]
  BY <1>2, <1>5, <1>7, <1>8, <1>9
<1> QED
  BY <1>8, <1>10, <1>11 DEF p, n

\* Its place in the free list, for the first call.
LEMMA InsertWords ==
  ASSUME NEW m \in Memory, NEW b \in Nat, heap_start_vaddr + 6 < b, b + 6 < HeapEnd,
         LastFree(m, b) = heap_start_vaddr, m[heap_start_vaddr + 3] = NULL
  PROVE  /\ Insert(m, b) \in Memory
         /\ \A y \in Addresses :
              Insert(m, b)[y] = IF y = heap_start_vaddr + 3 THEN b
                                ELSE IF y = b + 2 THEN heap_start_vaddr
                                ELSE IF y = b + 3 THEN NULL ELSE m[y]
<1> DEFINE hs == heap_start_vaddr
           linked == Link(m, b, hs, NULL)
<1>1. /\ hs \in Nat /\ hs \in Words /\ b \in Words /\ NULL \in Words /\ hs + 3 \in Addresses
      /\ b \in Addresses /\ b + 2 \in Addresses /\ b + 3 \in Addresses
      /\ heap_start_vaddr \in heap_start_vaddr .. HeapEnd
  BY HeapConstants DEF NULL
<1>2. Succ(m, hs) = NULL /\ U(hs + 3) = hs + 3
  BY <1>1, Fields, NoWrap, HeapConstants
<1>3. Insert(m, b) = Put(linked, hs + 3, b)
  BY <1>2 DEF Insert
<1>4. /\ linked \in Memory
      /\ \A y \in Addresses : linked[y] = IF y = b + 2 THEN hs ELSE IF y = b + 3 THEN NULL ELSE m[y]
  BY <1>1, LinkAt
<1> HIDE DEF linked
<1>5. /\ Put(linked, hs + 3, b) \in Memory
      /\ \A y \in Addresses : Put(linked, hs + 3, b)[y] = IF y = hs + 3 THEN b ELSE linked[y]
  BY <1>1, <1>4, PutAt
<1> QED
  BY <1>3, <1>4, <1>5

\* The block kfree was given, cleared and linked: the list held the first
\* block alone.
LEMMA ReleasedWords ==
  ASSUME IInv, NEW a \in live, Second(mem) = NULL
  PROVE  LET b  == a.ptr - 4
             m1 == Cleared(a.ptr)
             m2 == Insert(m1, b)
         IN  /\ b \in Nat /\ heap_start_vaddr + 6 < b /\ b + 6 < HeapEnd
             /\ m1 \in Memory /\ Tiled(m1, AllBlocks(mem, live)) /\ m1[b] = a.size
             /\ m2 \in Memory
             /\ m2[heap_start_vaddr + 3] = b /\ m2[b] = a.size /\ m2[b + 1] = BLOCK_FREE
             /\ m2[b + 2] = heap_start_vaddr /\ m2[b + 3] = NULL
             /\ \A y \in Addresses :
                  y < b \/ y >= b + 6 + a.size =>
                    m1[y] = mem[y] /\ (y # heap_start_vaddr + 3 => m2[y] = mem[y])
<1> DEFINE b == a.ptr - 4
           n == a.size
           hs == heap_start_vaddr
           m1 == Cleared(a.ptr)
           m2 == Insert(m1, b)
           B == AllBlocks(mem, live)
<1>1. mem \in Memory /\ Tiled(mem, B) /\ hs # NULL /\ hs \in B /\ b # hs
  BY BlockFacts, TypeFacts, Held DEF IInv
<1>2. b \in B /\ b \in Nat /\ mem[b] = n /\ n \in Nat /\ n >= 1
  BY Held
<1>3. Behind(mem, b) = b + 6 + n /\ b + 6 + n <= HeapEnd /\ HeapEnd \in Nat /\ hs \in Nat
        /\ hs <= b
  BY <1>1, <1>2, TiledBlock, HeapConstants
<1>4. hs + 6 < b
  <2>1. Behind(mem, hs) > hs + 6 /\ Behind(mem, hs) \in Nat
    BY <1>1, TiledBlock
  <2>2. Behind(mem, hs) <= b
    BY <1>1, <1>2, <1>3 DEF Tiled
  <2> QED
    BY <1>2, <1>3, <2>1, <2>2
<1>5. b + 6 < HeapEnd
  BY <1>2, <1>3
<1>6. /\ b \in Addresses /\ b + 1 \in Addresses /\ b + 2 \in Addresses /\ b + 3 \in Addresses
      /\ hs + 3 \in Addresses /\ HeapEnd \in Addresses /\ \A y \in Addresses : y \in Nat
  BY <1>2, <1>4, <1>5, HeapConstants
<1>7. /\ m1 \in Memory /\ m1[b + 1] = BLOCK_FREE
      /\ \A y \in Addresses : y < b \/ y \in {b, b + 2, b + 3} \/ y >= b + 6 + n => m1[y] = mem[y]
  BY ClearedWords
<1> HIDE DEF m1, n, b, B
<1>8. m1[b] = n
  BY <1>2, <1>6, <1>7
<1>9. m1[HeapEnd] = 0
  BY <1>1, <1>3, <1>6, <1>7 DEF Tiled
<1>10. \A c \in B : m1[c] = mem[c]
  <2> SUFFICES ASSUME NEW c \in B PROVE m1[c] = mem[c]
    OBVIOUS
  <2>1. c \in Nat /\ c \in Addresses /\ Behind(mem, c) > c
    BY <1>1, TiledBlock
  <2>2. CASE c = b
    BY <1>2, <1>8, <2>2
  <2>3. CASE c # b
    <3>1. c < b \/ c >= Behind(mem, b)
      BY <1>1, <1>2, <2>1, <2>3, Elsewhere
    <3> QED
      BY <1>3, <1>7, <2>1, <3>1
  <2> QED
    BY <2>2, <2>3
<1>11. Tiled(m1, B)
  BY <1>1, <1>9, <1>10, TiledSame
<1>12. LastFree(m1, b) = hs
  <2> DEFINE free == {x \in Blocks(m1) : x < b /\ Used(m1, x) = BLOCK_FREE}
  <2>1. Blocks(m1) = B
    BY <1>7, <1>11, TiledBlocks
  <2>2. ASSUME NEW x \in free PROVE x = hs
    <3>1. x \in B /\ x < b /\ Used(m1, x) = BLOCK_FREE
      BY <2>1
    <3>2. /\ x \in Nat /\ x + 1 < Behind(mem, x) /\ Behind(mem, x) \in Nat
          /\ x \in heap_start_vaddr .. HeapEnd
      BY <1>1, <3>1, TiledBlock, HeapConstants
    <3>3. Behind(mem, x) <= b
      BY <1>1, <1>2, <3>1 DEF Tiled
    <3>4. x + 1 \in Addresses /\ Used(m1, x) = m1[x + 1]
      BY <1>7, <3>2, Fields
    <3>5. m1[x + 1] = mem[x + 1]
      BY <1>2, <1>7, <3>2, <3>3, <3>4
    <3>6. x \notin UsedBlocks(live)
      BY <3>1, <3>4, <3>5, BlockFacts DEF BLOCK_FREE, BLOCK_USED
    <3> QED
      BY <3>1, <3>6 DEF B, AllBlocks, FreeBlocks
  <2>3. hs \in free
    <3>1. Used(m1, hs) = m1[hs + 1] /\ hs + 1 \in Addresses
      <4>1. heap_start_vaddr \in heap_start_vaddr .. HeapEnd
        BY HeapConstants
      <4> QED
        BY <1>7, <4>1, Fields
    <3>2. m1[hs + 1] = mem[hs + 1]
      BY <1>2, <1>3, <1>4, <1>7, <3>1
    <3>3. mem[hs + 1] = BLOCK_FREE
      BY BlockFacts
    <3>4. hs < b
      BY <1>2, <1>3, <1>4
    <3> QED
      BY <1>1, <2>1, <3>1, <3>2, <3>3, <3>4
  <2> HIDE DEF free
  <2>4. free = {hs}
    BY <2>2, <2>3
  <2>5. LastFree(m1, b) = IF free = {} THEN hs ELSE CHOOSE x \in free : \A y \in free : y <= x
    BY DEF LastFree, free
  <2>6. (CHOOSE x \in free : \A y \in free : y <= x) \in free
    <3>1. hs \in free /\ \A y \in free : y <= hs
      BY <1>3, <2>2, <2>3
    <3> QED
      BY <3>1
  <2> QED
    BY <2>4, <2>5, <2>6
<1>13. m1[hs + 3] = NULL
  <2>1. hs + 3 < b
    BY <1>2, <1>3, <1>4
  <2>2. m1[hs + 3] = mem[hs + 3]
    BY <1>6, <1>7, <2>1
  <2> QED
    BY <2>2 DEF Second
<1>14. /\ m2 \in Memory
       /\ \A y \in Addresses : m2[y] = IF y = hs + 3 THEN b ELSE IF y = b + 2 THEN hs
                                       ELSE IF y = b + 3 THEN NULL ELSE m1[y]
  BY <1>2, <1>4, <1>5, <1>7, <1>12, <1>13, InsertWords
<1> HIDE DEF m2
<1>15. m2[hs + 3] = b /\ m2[b] = n /\ m2[b + 1] = BLOCK_FREE /\ m2[b + 2] = hs /\ m2[b + 3] = NULL
  BY <1>2, <1>3, <1>4, <1>6, <1>7, <1>8, <1>14
<1>16. \A y \in Addresses : y < b \/ y >= b + 6 + n =>
         m1[y] = mem[y] /\ (y # hs + 3 => m2[y] = mem[y])
  BY <1>2, <1>6, <1>7, <1>14
<1>17. b \in Nat /\ hs + 6 < b /\ b + 6 < HeapEnd /\ m1 \in Memory /\ Tiled(m1, B) /\ m1[b] = n
         /\ m2 \in Memory
  BY <1>2, <1>4, <1>5, <1>7, <1>8, <1>11, <1>14
<1> QED
  BY <1>15, <1>16, <1>17 DEF m1, m2, b, n, B

\* The trailer that kfree computes for the block behind: of a block, or of
\* the word 0 at the heap's end; it is no other word of any block.
LEMMA LastWords ==
  ASSUME NEW m \in Memory, NEW B, Tiled(m, B), NEW x \in B \cup {HeapEnd}
  PROVE  LET e == TrailerOf(m, x)
         IN  /\ e \in Nat /\ e >= x + 4 /\ e \in Addresses /\ e + 1 \in Addresses
             /\ e # HeapEnd /\ e + 1 # HeapEnd
             /\ \A d \in B : \A y \in Nat : d <= y /\ y < Behind(m, d) - 2 => y # e /\ y # e + 1
<1> DEFINE e == TrailerOf(m, x)
<1>1. HeapEnd \in Nat /\ HeapEnd \in Addresses
  BY HeapConstants
<1>2. CASE x = HeapEnd
  <2>1. Size(m, HeapEnd) = 0
    BY <1>1 DEF Size, At, Tiled
  <2>2. HeapEnd + 4 \in Addresses /\ HeapEnd + 5 \in Addresses /\ HeapEnd + 4 \in Words
    BY HeapConstants
  <2>3. e = HeapEnd + 4
    <3>1. HeapEnd + HEADER + 0 = HeapEnd + 4
      BY <1>1 DEF HEADER
    <3> QED
      BY <1>2, <2>1, <2>2, <3>1, NoWrap DEF TrailerOf
  <2>4. \A d \in B : Behind(m, d) \in Nat /\ Behind(m, d) <= HeapEnd
    BY TiledBlock
  <2> QED
    BY <1>1, <1>2, <2>2, <2>3, <2>4
<1>3. CASE x \in B
  <2>1. e = Behind(m, x) - 2
    BY <1>3, TiledStep
  <2>2. /\ Behind(m, x) \in Nat /\ Behind(m, x) = x + 6 + m[x] /\ x \in Nat /\ m[x] \in Nat
        /\ m[x] >= 1 /\ Behind(m, x) <= HeapEnd /\ \A y \in x .. Behind(m, x) : y \in Addresses
    BY <1>3, TiledBlock
  <2>3. /\ e \in Nat /\ e >= x + 4 /\ e \in Addresses /\ e + 1 \in Addresses
        /\ e # HeapEnd /\ e + 1 # HeapEnd
    BY <1>1, <2>1, <2>2
  <2>4. ASSUME NEW d \in B, NEW y \in Nat, d <= y, y < Behind(m, d) - 2
        PROVE  y # e /\ y # e + 1
    <3>1. CASE d = x
      BY <2>1, <2>2, <2>4, <3>1
    <3>2. CASE d # x
      <4>1. y < Behind(m, d)
        BY <2>4, TiledBlock
      <4>2. y < x \/ y >= Behind(m, x)
        BY <1>3, <2>4, <3>2, <4>1, Elsewhere
      <4> QED
        BY <2>1, <2>2, <2>3, <4>2
    <3> QED
      BY <3>1, <3>2
  <2> QED
    BY <2>3, <2>4
<1> QED
  BY <1>2, <1>3

\* With every trailer in place, kfree finds the block in front of another.
LEMMA Predecessor ==
  ASSUME NEW m \in Memory, NEW B, Tiled(m, B), TrailersAgree(m, B),
         NEW b \in B, b # heap_start_vaddr
  PROVE  \E c \in B : /\ Behind(m, c) = b /\ c + 7 <= b
                      /\ \A w \in Memory : w[b - 2] = m[b - 2] => InFront(w, b) = c
<1>1. b \in Nat /\ heap_start_vaddr <= b - 1 /\ b < HeapEnd
  BY TiledBlock, HeapConstants DEF Tiled
<1>2. b - 1 \in heap_start_vaddr .. HeapEnd - 1
  BY <1>1, HeapConstants
<1>3. PICK c \in B : c <= b - 1 /\ b - 1 < Behind(m, c)
  <2>1. ASSUME NEW y \in heap_start_vaddr .. HeapEnd - 1
        PROVE  \E d \in B : d <= y /\ y < Behind(m, d)
    BY Containing
  <2> QED
    BY <1>2, <2>1
<1>4. /\ c \in Nat /\ heap_start_vaddr <= c /\ m[c] \in Nat /\ m[c] >= 1 /\ c \in Addresses
      /\ Behind(m, c) \in Nat /\ Behind(m, c) = c + 6 + m[c]
  BY TiledBlock
<1>5. Behind(m, c) = b
  <2>1. c < b => Behind(m, c) <= b
    BY DEF Tiled
  <2> QED
    BY <1>1, <1>3, <1>4, <2>1
<1>6. m[b - 2] = m[c]
  <2>1. b - TRAILER = b - 2
    BY DEF TRAILER
  <2> QED
    BY <1>5, <2>1 DEF TrailersAgree
<1>7. ASSUME NEW w \in Memory, w[b - 2] = m[b - 2] PROVE InFront(w, b) = c
  <2>1. b - 2 \in Addresses /\ b - TRAILER = b - 2 /\ b - 2 \in Words /\ c \in Words
    BY <1>1, <1>4, <1>5, HeapConstants DEF TRAILER
  <2>2. U(b - TRAILER) = b - 2 /\ At(w, b - 2) = m[c]
    BY <1>6, <1>7, <2>1, NoWrap DEF At
  <2>3. b - TRAILER - m[c] - HEADER = c
    BY <1>1, <1>4, <1>5 DEF TRAILER, HEADER
  <2>4. U(c) = c
    BY <2>1, NoWrap
  <2> QED
    BY <2>2, <2>3, <2>4 DEF InFront
<1>8. c + 7 <= b
  BY <1>4, <1>5
<1> QED
  BY <1>5, <1>7, <1>8

\* The words after the first block has swallowed the one behind it.
MergedInFront(m, e, size) ==
  Tag(Put(Put(m, heap_start_vaddr, size), heap_start_vaddr + 3, NULL), e, size, BLOCK_FREE)

LEMMA MergedWords ==
  ASSUME NEW m \in Memory, NEW e \in Addresses, e + 1 \in Addresses, e >= heap_start_vaddr + 4,
         NEW size \in Words
  PROVE  /\ MergedInFront(m, e, size) \in Memory
         /\ \A y \in Addresses :
              MergedInFront(m, e, size)[y] = IF y = e THEN size
                                             ELSE IF y = e + 1 THEN BLOCK_FREE
                                             ELSE IF y = heap_start_vaddr + 3 THEN NULL
                                             ELSE IF y = heap_start_vaddr THEN size ELSE m[y]
<1> DEFINE hs == heap_start_vaddr
           one == Put(m, hs, size)
           two == Put(one, hs + 3, NULL)
<1>1. hs \in Nat /\ hs \in Addresses /\ hs + 3 \in Addresses /\ NULL \in Words /\ BLOCK_FREE \in Words
  BY HeapConstants DEF NULL, BLOCK_FREE
<1>2. one \in Memory /\ \A y \in Addresses : one[y] = IF y = hs THEN size ELSE m[y]
  BY <1>1, PutAt
<1> HIDE DEF one
<1>3. two \in Memory /\ \A y \in Addresses : two[y] = IF y = hs + 3 THEN NULL ELSE one[y]
  BY <1>1, <1>2, PutAt
<1> HIDE DEF two
<1>4. /\ Tag(two, e, size, BLOCK_FREE) \in Memory
      /\ \A y \in Addresses : Tag(two, e, size, BLOCK_FREE)[y] =
           IF y = e THEN size ELSE IF y = e + 1 THEN BLOCK_FREE ELSE two[y]
  BY <1>1, <1>3, TagAt
<1>5. MergedInFront(m, e, size) = Tag(two, e, size, BLOCK_FREE)
  BY DEF MergedInFront, one, two
<1> QED
  BY <1>2, <1>3, <1>4, <1>5

\* What the call of kfree amounts to: the block behind is never free, and the
\* block in front only if it is the first.
LEMMA FreeFacts ==
  ASSUME KernelRequests, IInv, NEW a \in live, kfree(a)
  PROVE  LET b  == a.ptr - 4
             m2 == Insert(Cleared(a.ptr), b)
             e  == TrailerOf(mem, Behind(mem, b))
         IN  /\ frees = 0 /\ frees' = 1 /\ frees' \in 0 .. MaxFrees /\ Second(mem) = NULL
             /\ fault' = FALSE /\ live' = live \ {a} /\ answer' = answer
             /\ \E c \in AllBlocks(mem, live) :
                  /\ Behind(mem, c) = b
                  /\ mem' = IF c = heap_start_vaddr
                            THEN MergedInFront(m2, e, mem[heap_start_vaddr] + 6 + a.size)
                            ELSE m2
<1> DEFINE b == a.ptr - 4
           n == a.size
           hs == heap_start_vaddr
           m1 == Cleared(a.ptr)
           m2 == Insert(m1, b)
           x == Behind(mem, b)
           e == TrailerOf(mem, x)
           B == AllBlocks(mem, live)
<1>1. frees = 0 /\ frees' = 1 /\ frees' \in 0 .. MaxFrees
  <2>1. MaxFrees \in Nat /\ MaxFrees <= 1 /\ frees < MaxFrees /\ frees' = frees + 1
          /\ frees \in 0 .. MaxFrees
    BY KHeapAssumption DEF KernelRequests, kfree, IInv, TypeOK
  <2> QED
    BY <2>1
<1>2. Second(mem) = NULL /\ TrailersAgree(mem, B)
  BY <1>1 DEF IInv, HeapInv, SecondInv
<1>3. mem \in Memory /\ Tiled(mem, B) /\ b # hs /\ b \in B /\ hs \in Nat /\ hs \in B
  BY BlockFacts, TypeFacts, Held, HeapConstants DEF IInv
<1>4. /\ b \in Nat /\ hs + 6 < b /\ b + 6 < HeapEnd
      /\ m1 \in Memory /\ Tiled(m1, B) /\ m1[b] = n
      /\ m2 \in Memory
      /\ m2[hs + 3] = b /\ m2[b] = n /\ m2[b + 1] = BLOCK_FREE
      /\ m2[b + 2] = hs /\ m2[b + 3] = NULL
      /\ \A y \in Addresses :
           y < b \/ y >= b + 6 + n => m1[y] = mem[y] /\ (y # hs + 3 => m2[y] = mem[y])
  BY <1>2, ReleasedWords
<1>5. /\ x = b + 6 + n /\ n \in Nat /\ n >= 1 /\ x <= HeapEnd /\ x \in B \cup {HeapEnd}
      /\ mem[b] = n
  <2>1. n \in Nat /\ n >= 1 /\ mem[b] = n
    BY Held
  <2> HIDE DEF B
  <2>2. x = b + 6 + mem[b] /\ x <= HeapEnd
    BY <1>3, TiledBlock
  <2>3. x \in B \cup {HeapEnd}
    BY <1>3 DEF Tiled
  <2> QED
    BY <2>1, <2>2, <2>3
<1>6. /\ kfree(a)
      /\ a.ptr - HEADER = b
  BY TypeFacts DEF IInv
<1> HIDE DEF B, b, n, m1, m2, x
<1>7. PICK c \in B : /\ Behind(mem, c) = b /\ c + 7 <= b
                     /\ \A w \in Memory : w[b - 2] = mem[b - 2] => InFront(w, b) = c
  <2>1. ASSUME NEW d \in B, d # heap_start_vaddr
        PROVE  \E c \in B : /\ Behind(mem, c) = d /\ c + 7 <= d
                            /\ \A w \in Memory : w[d - 2] = mem[d - 2] => InFront(w, d) = c
    <3>1. mem \in Memory /\ Tiled(mem, B) /\ TrailersAgree(mem, B)
      BY <1>2, <1>3
    <3> QED
      BY <2>1, <3>1, Predecessor
  <2> QED
    BY <1>3, <2>1
<1>8. \A y \in Addresses : y \in Nat
  BY HeapConstants
<1>9. b - 2 \in Addresses /\ b - 2 < b /\ b - 2 # hs + 3
  BY <1>3, <1>4, HeapConstants
<1>10. InFront(m1, b) = c /\ InFront(m2, b) = c
  BY <1>4, <1>7, <1>9
<1>11. /\ c \in Nat /\ hs <= c /\ c \in Addresses /\ c + 1 \in Addresses /\ c < b /\ c + 1 < b
       /\ c + 1 # hs + 3 /\ c # hs + 3 /\ c \in heap_start_vaddr .. HeapEnd
  <2>1. c \in Nat /\ hs <= c /\ c \in Addresses
    BY <1>3, TiledBlock
  <2>2. c \in Nat /\ hs <= c /\ c \in Addresses /\ c + 1 \in Addresses /\ c < b /\ c + 1 < b
          /\ c \in heap_start_vaddr .. HeapEnd
    BY <1>4, <1>7, <2>1, HeapConstants
  <2>3. c = hs \/ c >= hs + 7
    <3>1. hs < c => Behind(mem, hs) <= c
      BY <1>3 DEF Tiled
    <3>2. Behind(mem, hs) >= hs + 7 /\ Behind(mem, hs) \in Nat
      BY <1>3, TiledBlock
    <3> QED
      BY <1>3, <2>1, <3>1, <3>2
  <2> QED
    BY <1>3, <2>2, <2>3
<1>12. /\ x \in heap_start_vaddr .. HeapEnd /\ x \in Addresses /\ x + 1 \in Addresses
       /\ x \in Nat /\ x >= b + 6 + n /\ x + 1 >= b + 6 + n /\ x # hs + 3 /\ x + 1 # hs + 3
  BY <1>3, <1>4, <1>5, HeapConstants
<1>13. Adjacent(m1, b) = x /\ Adjacent(m2, b) = x
  <2>1. Adjacent(mem, b) = x
    BY <1>3, TiledStep DEF x
  <2>2. Size(m1, b) = Size(mem, b) /\ Size(m2, b) = Size(mem, b)
    BY <1>4, <1>5 DEF Size, At
  <2> QED
    BY <2>1, <2>2 DEF Adjacent, TrailerOf
<1>14. fault' = FALSE
  <2>1. U(b - TRAILER) = b - 2
    <3>1. b - TRAILER = b - 2 /\ b - 2 \in Words
      BY <1>9, HeapConstants DEF TRAILER
    <3> QED
      BY <3>1, NoWrap
  <2>2. U(c + 1) = c + 1 /\ U(x + 1) = x + 1
    BY <1>11, <1>12, NoWrap, HeapConstants
  <2>3. Followed(m1, b) = {b - 2, c, c + 1, x, x + 1}
    BY <1>10, <1>13, <2>1, <2>2 DEF Followed
  <2>4. Followed(m1, b) \subseteq Addresses
    BY <1>9, <1>11, <1>12, <2>3
  <2> QED
    BY <1>6, <2>4 DEF kfree, m1
<1>15. Blocks(m1) = B
  BY <1>4, TiledBlocks
<1>16. mem' = heap_coalesce_free_block(m2, b) /\ live' = live \ {a} /\ answer' = answer
  BY <1>3, <1>6, <1>14, <1>15 DEF kfree, m1, m2
<1>17. ~IsFreeBlock(m2, x)
  <2>1. Size(m2, x) = mem[x] /\ Used(m2, x) = mem[x + 1]
    BY <1>4, <1>12, Fields
  <2>2. CASE x = HeapEnd
    BY <1>3, <2>1, <2>2 DEF IsFreeBlock, Tiled
  <2>3. CASE x \in B
    <3>1. x # hs
      BY <1>3, <1>4, <1>5
    <3>2. x \in UsedBlocks(live)
      BY <1>2, <2>3, <3>1 DEF B, AllBlocks, FreeBlocks
    <3>3. mem[x + 1] = BLOCK_USED
      BY <3>2, BlockFacts
    <3> QED
      BY <2>1, <3>3 DEF IsFreeBlock, BLOCK_USED, BLOCK_FREE
  <2> QED
    BY <1>5, <2>2, <2>3
<1>18. TrailerOf(m2, x) = e
  BY <1>4, <1>12 DEF TrailerOf, Size, At
<1>19. mem' = CoalescePrev(m2, b, c, e)
  BY <1>10, <1>13, <1>16, <1>17, <1>18 DEF heap_coalesce_free_block, CoalesceNext
<1>20. Size(m2, c) = mem[c] /\ Used(m2, c) = mem[c + 1]
  BY <1>4, <1>11, Fields
<1>21. CASE c # hs
  <2>1. c \in UsedBlocks(live)
    BY <1>2, <1>21 DEF B, AllBlocks, FreeBlocks
  <2>2. ~IsFreeBlock(m2, c)
    BY <1>20, <2>1, BlockFacts DEF IsFreeBlock, BLOCK_USED, BLOCK_FREE
  <2>3. mem' = m2
    BY <1>19, <2>2 DEF CoalescePrev
  <2> QED
    BY <1>1, <1>2, <1>7, <1>14, <1>16, <1>21, <2>3 DEF B, b, m2, m1
<1>22. CASE c = hs
  <2>1. mem[c] \in Nat /\ mem[c] >= 1 /\ Behind(mem, c) = c + 6 + mem[c]
    BY <1>3, TiledBlock
  <2>2. IsFreeBlock(m2, c)
    BY <1>20, <1>22, <2>1, BlockFacts DEF IsFreeBlock
  <2>3. Size(m2, b) = n /\ Succ(m2, b) = NULL /\ U(c + 3) = hs + 3
    <3>1. b \in heap_start_vaddr .. HeapEnd /\ hs + 3 \in Words
      BY <1>3, <1>4, HeapConstants
    <3> QED
      BY <1>4, <1>22, <3>1, Fields, NoWrap
  <2>4. U(Size(m2, c) + TRAILER + HEADER + Size(m2, b)) = mem[hs] + 6 + n
    <3>1. Size(m2, c) + TRAILER + HEADER + Size(m2, b) = mem[hs] + 6 + n
      BY <1>5, <1>20, <1>22, <2>1, <2>3 DEF TRAILER, HEADER
    <3>2. mem[hs] + 6 + n \in Words
      <4>1. mem[hs] + 6 + n < HeapEnd /\ mem[hs] + 6 + n \in Nat
        <5>1. b = hs + 6 + mem[hs] /\ mem[hs] \in Nat
          BY <1>7, <1>22, <2>1
        <5> QED
          BY <1>3, <1>4, <1>5, <5>1, HeapConstants
      <4>2. HeapEnd \in Addresses /\ HeapEnd \in Words
        BY HeapConstants
      <4> QED
        BY <4>1, <4>2, HeapConstants DEF Words
    <3> QED
      BY <3>1, <3>2, NoWrap
  <2>5. mem' = MergedInFront(m2, e, mem[hs] + 6 + n)
    BY <1>19, <1>22, <2>2, <2>3, <2>4 DEF CoalescePrev, MergedInFront
  <2>6. Behind(mem, c) = b
    BY <1>7
  <2> QED
    BY <1>1, <1>2, <1>14, <1>16, <1>22, <2>5, <2>6 DEF B, b, n, x, m1, m2
<1> QED
  BY <1>21, <1>22

\* The other clients keep their blocks and all words in them.
LEMMA OthersKept ==
  ASSUME IInv, NEW a \in live, Second(mem) = NULL, NEW w,
         \A y \in Addresses :
           (y < a.ptr - 4 \/ y >= a.ptr - 4 + 6 + a.size) /\ y # heap_start_vaddr + 3
             => w[y] = mem[y],
         w[a.ptr - 4] = a.size
  PROVE  /\ UsedBlocks(live \ {a}) = UsedBlocks(live) \ {a.ptr - 4}
         /\ \A d \in AllBlocks(mem, live) : w[d] = mem[d]
         /\ \A c \in live \ {a} : \A y \in Nat :
              c.ptr - 4 <= y /\ y < c.ptr + c.size + 2 =>
                y > heap_start_vaddr + 6 /\ w[y] = mem[y]
<1> DEFINE b == a.ptr - 4
           n == a.size
           hs == heap_start_vaddr
           B == AllBlocks(mem, live)
<1>1. mem \in Memory /\ Tiled(mem, B) /\ b # hs /\ b \in B /\ hs \in Nat /\ hs \in B
  BY BlockFacts, TypeFacts, Held, HeapConstants DEF IInv
<1>2. b \in Nat /\ mem[b] = n /\ n \in Nat /\ n >= 1 /\ Behind(mem, b) = b + 6 + n
  <2>1. b \in Nat /\ mem[b] = n /\ n \in Nat /\ n >= 1
    BY Held
  <2> HIDE DEF B
  <2>2. Behind(mem, b) = b + 6 + mem[b]
    BY <1>1, TiledBlock
  <2> QED
    BY <2>1, <2>2
<1>3. UsedBlocks(live \ {a}) = UsedBlocks(live) \ {b}
  <2>1. ASSUME NEW c \in live, c # a PROVE c.ptr - HEADER # b
    <3>1. c.ptr \in Nat /\ a.ptr \in Nat /\ c.ptr # a.ptr /\ c.ptr - HEADER = c.ptr - 4
      BY <2>1, BlockFacts, TypeFacts DEF IInv
    <3> QED
      BY <3>1
  <2>2. a.ptr - HEADER = b
    BY TypeFacts DEF IInv
  <2> HIDE DEF b
  <2> QED
    BY <2>1, <2>2 DEF UsedBlocks
<1> HIDE DEF B
<1>4. \A y \in Addresses : (y < b \/ y >= b + 6 + n) /\ y # hs + 3 => w[y] = mem[y]
  OBVIOUS
<1>5. ASSUME NEW d \in B, d # b, NEW y \in Nat, d <= y, y < Behind(mem, d)
      PROVE  y \in Addresses /\ (y < b \/ y >= b + 6 + n)
  <2>1. y < b \/ y >= Behind(mem, b)
    BY <1>1, <1>5, Elsewhere
  <2>2. y \in Addresses
    BY <1>1, <1>5, TiledBlock
  <2> QED
    BY <1>2, <2>1, <2>2
<1>6. ASSUME NEW d \in B, d # hs PROVE d > hs + 6
  <2>1. /\ d \in Nat /\ hs <= d /\ Behind(mem, hs) \in Nat /\ Behind(mem, hs) = hs + 6 + mem[hs]
        /\ mem[hs] \in Nat /\ mem[hs] >= 1
    BY <1>1, TiledBlock
  <2>2. hs < d => Behind(mem, hs) <= d
    BY <1>1 DEF Tiled
  <2> QED
    BY <1>1, <1>6, <2>1, <2>2
<1>7. ASSUME NEW d \in B PROVE w[d] = mem[d]
  <2>1. CASE d = b
    BY <1>2, <2>1
  <2>2. CASE d # b
    <3>1. d \in Nat /\ d <= d /\ d < Behind(mem, d)
      BY <1>1, TiledBlock
    <3>2. d # hs + 3
      BY <1>1, <1>6, <3>1
    <3> QED
      BY <1>4, <1>5, <2>2, <3>1, <3>2
  <2> QED
    BY <2>1, <2>2
<1>8. ASSUME NEW c \in live \ {a}, NEW y \in Nat, c.ptr - 4 <= y, y < c.ptr + c.size + 2
      PROVE  y > hs + 6 /\ w[y] = mem[y]
  <2>1. /\ c.ptr - 4 \in B /\ c.ptr - 4 # hs /\ c.ptr - 4 \in Nat
        /\ Behind(mem, c.ptr - 4) = c.ptr + c.size + 2
    BY Held, BlockFacts DEF B
  <2>2. c.ptr - 4 # b
    <3>1. c.ptr \in Nat /\ a.ptr \in Nat /\ c.ptr # a.ptr
      BY BlockFacts, TypeFacts DEF IInv
    <3> QED
      BY <3>1
  <2>3. y > hs + 6
    <3>1. c.ptr - 4 > hs + 6
      BY <1>6, <2>1
    <3> QED
      BY <1>1, <1>8, <2>1, <3>1
  <2>4. ASSUME NEW d \in B, d # b, d <= y, y < Behind(mem, d) PROVE w[y] = mem[y]
    BY <1>1, <1>4, <1>5, <2>3, <2>4
  <2>5. w[y] = mem[y]
    BY <1>8, <2>1, <2>2, <2>4
  <2> QED
    BY <2>3, <2>5
<1> QED
  BY <1>3, <1>7, <1>8 DEF B

LEMMA FreeStep ==
  ASSUME KernelRequests, IInv, NEW a \in live, kfree(a)
  PROVE  IInv'
<1> DEFINE b  == a.ptr - 4
           n  == a.size
           hs == heap_start_vaddr
           m1 == Cleared(a.ptr)
           m2 == Insert(m1, b)
           x  == Behind(mem, b)
           e  == TrailerOf(mem, x)
           B  == AllBlocks(mem, live)
           rest == live \ {a}
<1>1. /\ frees = 0 /\ frees' = 1 /\ frees' \in 0 .. MaxFrees /\ Second(mem) = NULL
      /\ fault' = FALSE /\ live' = rest /\ answer' = answer
      /\ \E c \in B : /\ Behind(mem, c) = b
                      /\ mem' = IF c = hs THEN MergedInFront(m2, e, mem[hs] + 6 + n) ELSE m2
  BY FreeFacts
<1>2. mem \in Memory /\ Tiled(mem, B) /\ b # hs /\ b \in B /\ hs \in Nat /\ hs \in B
        /\ hs # NULL /\ Whole(n) /\ b \in Nat /\ mem[b] = n /\ n \in Nat /\ n >= 1
        /\ B = {hs} \cup UsedBlocks(live)
  <2>1. B = {hs} \cup UsedBlocks(live)
    BY <1>1, BlockFacts DEF AllBlocks, FreeBlocks
  <2> QED
    BY <2>1, BlockFacts, TypeFacts, Held, HeapConstants DEF IInv
<1>3. /\ hs + 6 < b /\ b + 6 < HeapEnd
      /\ m2 \in Memory
      /\ m2[hs + 3] = b /\ m2[b] = n /\ m2[b + 1] = BLOCK_FREE
      /\ m2[b + 2] = hs /\ m2[b + 3] = NULL
      /\ \A y \in Addresses : (y < b \/ y >= b + 6 + n) /\ y # hs + 3 => m2[y] = mem[y]
  BY <1>1, ReleasedWords
<1>4. /\ UsedBlocks(rest) = UsedBlocks(live) \ {b}
      /\ \A d \in B : m2[d] = mem[d]
      /\ \A c \in rest : \A y \in Nat :
           c.ptr - 4 <= y /\ y < c.ptr + c.size + 2 => y > hs + 6 /\ m2[y] = mem[y]
  BY <1>1, <1>3, OthersKept
<1>5. HeapEnd \in Addresses /\ HeapEnd \in Nat /\ hs + 1 \in Addresses /\ hs + 3 \in Addresses
        /\ hs \in Addresses
  BY HeapConstants
<1> HIDE DEF B, b, n, m2, x, e
<1>6. x \in B \cup {HeapEnd} /\ x \in Nat /\ x = b + 6 + n /\ x <= HeapEnd
  <2>1. Behind(mem, b) = b + 6 + mem[b] /\ Behind(mem, b) <= HeapEnd
    BY <1>2, TiledBlock
  <2>2. Behind(mem, b) \in B \cup {HeapEnd}
    BY <1>2 DEF Tiled
  <2> QED
    BY <1>2, <2>1, <2>2 DEF x
<1>7. /\ e \in Nat /\ e >= x + 4 /\ e \in Addresses /\ e + 1 \in Addresses
      /\ e # HeapEnd /\ e + 1 # HeapEnd
      /\ \A d \in B : \A y \in Nat : d <= y /\ y < Behind(mem, d) - 2 => y # e /\ y # e + 1
  BY <1>2, <1>6, LastWords DEF e
<1>8. m2[HeapEnd] = 0
  <2>1. HeapEnd >= b + 6 + n /\ HeapEnd # hs + 3
    BY <1>2, <1>3, <1>5, <1>6
  <2> QED
    BY <1>2, <1>3, <1>5, <2>1 DEF Tiled
<1>9. m2[hs] = mem[hs] /\ m2[hs + 1] = mem[hs + 1]
  <2>1. hs < b /\ hs + 1 < b /\ hs # hs + 3 /\ hs + 1 # hs + 3
    BY <1>2, <1>3
  <2> QED
    BY <1>3, <1>5, <2>1
<1>10. PICK c \in B : /\ Behind(mem, c) = b
                      /\ mem' = IF c = hs THEN MergedInFront(m2, e, mem[hs] + 6 + n) ELSE m2
  BY <1>1
<1>11. CASE c # hs
  <2>1. mem' = m2
    BY <1>10, <1>11
  <2>2. Second(mem') = b /\ b # NULL
    BY <1>2, <1>3, <2>1 DEF Second, NULL
  <2>3. AllBlocks(mem', live') = B
    BY <1>1, <1>2, <1>4, <2>2 DEF AllBlocks, FreeBlocks
  <2>4. Tiled(mem', B)
    BY <1>2, <1>4, <1>8, <2>1, TiledSame
  <2>5. FirstInv(mem')
    BY <1>9, <2>1 DEF FirstInv, IInv, HeapInv
  <2>6. Behind(mem', hs) # b
    <3>1. Behind(mem', hs) = Behind(mem, hs)
      BY <1>9, <2>1 DEF Behind
    <3> QED
      BY <1>2, <1>10, <1>11, <3>1, OnePredecessor
  <2>7. SecondInv(mem', frees')
    BY <1>1, <1>2, <1>3, <2>1, <2>2, <2>6 DEF SecondInv
  <2>8. LiveInv(mem', live')
    <3>1. \A d \in rest : \A y \in Nat : d.ptr - 4 <= y /\ y < d.ptr + d.size => mem'[y] = mem[y]
      <4> SUFFICES ASSUME NEW d \in rest, NEW y \in Nat, d.ptr - 4 <= y, y < d.ptr + d.size
                   PROVE  mem'[y] = mem[y]
        OBVIOUS
      <4>1. y < d.ptr + d.size + 2
        BY TypeFacts DEF IInv
      <4> QED
        BY <1>4, <2>1, <4>1
    <3> QED
      BY <1>1, <3>1, LiveKept
  <2>9. mem' \in Memory
    BY <1>3, <2>1
  <2>10. TypeOK'
    BY <1>1, <2>9 DEF TypeOK, IInv, Memory, Words
  <2> QED
    BY <1>1, <2>3, <2>4, <2>5, <2>7, <2>8, <2>10 DEF IInv, HeapInv
<1>12. CASE c = hs
  <2> DEFINE size == mem[hs] + 6 + n
  <2>1. mem' = MergedInFront(m2, e, size)
    BY <1>10, <1>12
  <2>2. mem[hs] \in Nat /\ b = hs + 6 + mem[hs]
    BY <1>2, <1>10, <1>12, TiledBlock
  <2>3. size \in Words /\ e >= hs + 4
    <3>1. size < HeapEnd /\ size \in Nat
      BY <1>2, <1>3, <1>5, <1>6, <2>2
    <3> QED
      BY <1>2, <1>3, <1>5, <1>6, <1>7, <3>1, HeapConstants DEF Words
  <2> HIDE DEF size
  <2>4. /\ mem' \in Memory
        /\ \A y \in Addresses :
             mem'[y] = IF y = e THEN size ELSE IF y = e + 1 THEN BLOCK_FREE
                       ELSE IF y = hs + 3 THEN NULL ELSE IF y = hs THEN size ELSE m2[y]
    BY <1>3, <1>7, <2>1, <2>3, MergedWords
  <2>5. /\ mem'[hs] = size /\ mem'[hs + 3] = NULL /\ mem'[hs + 1] = mem[hs + 1]
        /\ mem'[HeapEnd] = 0
    <3>1. hs # e /\ hs # e + 1 /\ hs + 3 # e /\ hs + 3 # e + 1 /\ hs + 1 # e /\ hs + 1 # e + 1
            /\ hs + 1 # hs /\ hs + 1 # hs + 3 /\ hs + 3 # hs /\ HeapEnd # hs /\ HeapEnd # hs + 3
      BY <1>2, <1>3, <1>5, <1>7, <2>3
    <3> QED
      BY <1>5, <1>7, <1>8, <1>9, <2>4, <3>1
  <2>6. \A d \in B \ {b, hs} : mem'[d] = mem[d]
    <3> SUFFICES ASSUME NEW d \in B \ {b, hs} PROVE mem'[d] = mem[d]
      OBVIOUS
    <3>1. d \in Nat /\ d \in Addresses /\ d < Behind(mem, d) - 2 /\ d <= d
      BY <1>2, TiledBlock
    <3>2. d # e /\ d # e + 1
      BY <1>7, <3>1
    <3>3. d # hs + 3
      <4>1. hs <= d /\ Behind(mem, hs) >= hs + 6 /\ Behind(mem, hs) \in Nat
        BY <1>2, TiledBlock
      <4>2. hs < d => Behind(mem, hs) <= d
        BY <1>2 DEF Tiled
      <4> QED
        BY <1>2, <3>1, <4>1, <4>2
    <3> QED
      BY <1>4, <2>4, <3>1, <3>2, <3>3
  <2>7. Tiled(mem', B \ {b})
    <3>1. mem'[hs] = mem[hs] + 6 + mem[b] /\ Behind(mem, hs) = b
      BY <1>2, <1>10, <1>12, <2>5 DEF size
    <3> QED
      BY <1>2, <2>5, <2>6, <3>1, TiledMerge
  <2>8. Second(mem') = NULL
    BY <2>5 DEF Second
  <2>9. AllBlocks(mem', live') = B \ {b}
    BY <1>1, <1>2, <1>4, <2>8 DEF AllBlocks, FreeBlocks
  <2>10. FirstInv(mem') /\ SecondInv(mem', frees')
    <3>1. Rest(mem[hs]) /\ mem[hs + 1] = BLOCK_FREE
      BY DEF IInv, HeapInv, FirstInv
    <3>2. Rest(size)
      BY <1>2, <2>2, <3>1, RestGrows DEF size
    <3> QED
      BY <2>5, <2>8, <3>1, <3>2 DEF FirstInv, SecondInv
  <2>11. LiveInv(mem', live')
    <3>1. \A d \in rest : \A y \in Nat :
            d.ptr - 4 <= y /\ y < d.ptr + d.size => mem'[y] = mem[y]
      <4> SUFFICES ASSUME NEW d \in rest, NEW y \in Nat, d.ptr - 4 <= y, y < d.ptr + d.size
                   PROVE  mem'[y] = mem[y]
        OBVIOUS
      <4>1. /\ d.ptr \in Nat /\ d.size \in Nat /\ d.ptr - 4 \in B /\ y \in Addresses
            /\ Behind(mem, d.ptr - 4) = d.ptr + d.size + 2 /\ y < d.ptr + d.size + 2
        BY Held DEF B
      <4>2. y > hs + 6 /\ m2[y] = mem[y]
        BY <1>4, <4>1
      <4>3. y # e /\ y # e + 1
        <5>1. y < Behind(mem, d.ptr - 4) - 2
          BY <4>1
        <5> QED
          BY <1>7, <4>1, <5>1
      <4>4. y # hs /\ y # hs + 3
        BY <1>2, <4>2
      <4> QED
        BY <2>4, <4>1, <4>2, <4>3, <4>4
    <3> QED
      BY <1>1, <3>1, LiveKept
  <2>12. TypeOK'
    BY <1>1, <2>4 DEF TypeOK, IInv, Memory, Words
  <2> QED
    BY <1>1, <2>7, <2>9, <2>10, <2>11, <2>12 DEF IInv, HeapInv
<1> QED
  BY <1>11, <1>12

LEMMA NextInvariant ==
  ASSUME KernelRequests, IInv, [Next]_vars
  PROVE  IInv'
<1>1. ASSUME NEW n \in Sizes, kmalloc(n) PROVE IInv'
  <2>1. CASE PerfectFit(n)
    BY <2>1, FitStep
  <2>2. CASE BigBlockSplit(n)
    BY <2>2, SplitStep
  <2>3. CASE NoSuitableBlock(n)
    <3>1. answer' = [size |-> n, ptr |-> NULL] /\ UNCHANGED <<mem, live, frees, fault>>
      BY <2>3 DEF NoSuitableBlock
    <3> QED
      BY <3>1 DEF IInv, TypeOK, HeapInv
  <2> QED
    BY <1>1, <2>1, <2>2, <2>3 DEF kmalloc
<1>2. ASSUME NEW a \in live, kfree(a) PROVE IInv'
  BY <1>2, FreeStep
<1>3. CASE UNCHANGED vars
  BY <1>3 DEF vars, IInv, TypeOK, HeapInv
<1> QED
  BY <1>1, <1>2, <1>3 DEF Next

\* The inductive invariant: no fault, and the heap is tiled by the first
\* block, the blocks clients hold and at most one that was given back.  Under
\* KernelRequests, as all that follows: every request with its bookkeeping is
\* a multiple of one grain, and there is at most one kfree.
THEOREM HeapInvariant == KernelRequests => (Spec => []IInv)
<1> SUFFICES ASSUME KernelRequests PROVE Spec => []IInv
  OBVIOUS
<1>1. Init => IInv
  BY InitInvariant
<1>2. IInv /\ [Next]_vars => IInv'
  BY NextInvariant
<1> QED
  BY <1>1, <1>2, PTL DEF Spec

(***************************************************************************)
(* The properties the run checks.                                          *)
(***************************************************************************)

\* BlocksTile, the header walk of kmalloc and kfree: it reaches the end of the
\* heap, over blocks that are free or one client's, at the size it asked for.
\* Under KernelRequests: a split that leaves too little for a block breaks it.
THEOREM BlocksAlwaysTile == KernelRequests => (Spec => []BlocksTile)
<1> SUFFICES ASSUME KernelRequests PROVE Spec => []BlocksTile
  OBVIOUS
<1>1. ASSUME IInv PROVE BlocksTile
  <2> DEFINE B == AllBlocks(mem, live)
  <2>1. mem \in Memory /\ Tiled(mem, B) /\ Blocks(mem) = B /\ Walk(mem)[LastStep] = HeapEnd
    BY <1>1, BlockFacts, TypeFacts, TiledBlocks, TiledEnds DEF IInv
  <2>2. LastStep \in Walked
    BY WalkedRange
  <2>3. HeapEnd \in {Walk(mem)[k] : k \in Walked}
    BY <2>1, <2>2
  <2>4. ASSUME NEW b \in B PROVE Used(mem, b) = mem[b + 1]
    <3>1. b \in heap_start_vaddr .. HeapEnd
      BY <2>1, TiledBlock, HeapConstants
    <3> QED
      BY <2>1, <3>1, Fields
  <2>5. {b \in Blocks(mem) : Used(mem, b) = BLOCK_USED} = UsedBlocks(live)
    <3>1. \A b \in UsedBlocks(live) : b \in B /\ Used(mem, b) = BLOCK_USED
      BY <1>1, <2>4, BlockFacts
    <3>2. \A b \in FreeBlocks(mem) : Used(mem, b) # BLOCK_USED
      BY <1>1, <2>4, BlockFacts DEF BLOCK_FREE, BLOCK_USED
    <3> QED
      BY <2>1, <3>1, <3>2 DEF AllBlocks
  <2>6. ASSUME NEW a \in live PROVE Size(mem, a.ptr - HEADER) = a.size
    <3>1. a.ptr - 4 \in B /\ mem[a.ptr - 4] = a.size /\ a.ptr - HEADER = a.ptr - 4
      BY <1>1, Held, TypeFacts DEF IInv
    <3>2. a.ptr - 4 \in Addresses
      BY <2>1, <3>1, TiledBlock
    <3> QED
      BY <3>1, <3>2 DEF Size, At
  <2> QED
    BY <1>1, <2>3, <2>5, <2>6 DEF BlocksTile, UsedBlocks, IInv
<1> QED
  BY <1>1, HeapInvariant, PTL

\* FreeListComplete, the list kmalloc searches: all free blocks, in order.
\* Under KernelRequests: a second kfree may leave a stale link.
THEOREM FreeListAlwaysComplete == KernelRequests => (Spec => []FreeListComplete)
<1> SUFFICES ASSUME KernelRequests PROVE Spec => []FreeListComplete
  OBVIOUS
<1>1. ASSUME IInv PROVE FreeListComplete
  <2> DEFINE B == AllBlocks(mem, live)
             hs == heap_start_vaddr
             list == FreeList(mem)
             second == Second(mem)
  <2>1. mem \in Memory /\ Tiled(mem, B) /\ Blocks(mem) = B /\ hs # NULL /\ hs \in Nat /\ NULL = 0
    BY <1>1, BlockFacts, TypeFacts, TiledBlocks, HeapConstants DEF IInv, NULL
  <2>2. list[0] = hs /\ list[1] = second /\ \A k \in 2 .. LastStep : list[k] = NULL
    BY <1>1, <2>1, BlockFacts, FreeListShape
  <2>3. 0 \in Walked /\ 1 \in Walked /\ \A k \in Walked : k = 0 \/ k = 1 \/ k \in 2 .. LastStep
    BY WalkedRange
  <2>4. ASSUME NEW b \in B
        PROVE  b \in heap_start_vaddr .. HeapEnd /\ Used(mem, b) = mem[b + 1]
    <3>1. b \in heap_start_vaddr .. HeapEnd
      BY <2>1, TiledBlock, HeapConstants
    <3> QED
      BY <2>1, <3>1, Fields
  <2>5. \A b \in B : Used(mem, b) = BLOCK_FREE <=> b \in FreeBlocks(mem)
    <3>1. \A b \in UsedBlocks(live) : b \in B => Used(mem, b) # BLOCK_FREE /\ b \notin FreeBlocks(mem)
      BY <1>1, <2>4, BlockFacts DEF BLOCK_FREE, BLOCK_USED
    <3>2. \A b \in FreeBlocks(mem) : b \in B => Used(mem, b) = BLOCK_FREE
      BY <1>1, <2>4, BlockFacts
    <3> QED
      BY <3>1, <3>2 DEF AllBlocks
  <2>6. second # NULL => second \in B /\ second # hs /\ hs < second
    <3>1. second # NULL => second # hs
      BY <1>1 DEF IInv, HeapInv, SecondInv
    <3>2. second # NULL => second \in B
      BY <1>1, BlockFacts
    <3>3. second \in B => second \in Nat /\ hs <= second
      BY <2>1, TiledBlock
    <3> QED
      BY <2>1, <3>1, <3>2, <3>3
  <2> HIDE DEF B, list, second
  <2>7. {list[k] : k \in Walked} \ {NULL, hs} = {b \in B \ {hs} : Used(mem, b) = BLOCK_FREE}
    <3>1. {list[k] : k \in Walked} \cup {NULL} = {hs, second, NULL}
      BY <2>2, <2>3
    <3>2. {list[k] : k \in Walked} \ {NULL, hs} = {second} \ {NULL, hs}
      BY <3>1
    <3>3. {b \in B \ {hs} : Used(mem, b) = BLOCK_FREE} = {second} \ {NULL, hs}
      BY <2>5, <2>6 DEF FreeBlocks, second
    <3> QED
      BY <3>2, <3>3
  <2>8. ASSUME NEW k \in Walked \ {0} PROVE list[k] = NULL \/ list[k - 1] < list[k]
    <3>1. CASE k = 1
      <4>1. k - 1 = 0
        BY <3>1
      <4> QED
        BY <2>2, <2>6, <3>1, <4>1
    <3>2. CASE k # 1
      BY <2>2, <2>3, <3>2
    <3> QED
      BY <3>1, <3>2
  <2> QED
    BY <2>1, <2>7, <2>8 DEF FreeListComplete, list
<1> QED
  BY <1>1, HeapInvariant, PTL

\* LiveDataIntact: the words kmalloc, kfree and the coalescing of blocks write
\* are never words a client holds.  Under KernelRequests: a second kfree may
\* write through a stale trailer.
THEOREM LiveDataAlwaysIntact == KernelRequests => (Spec => []LiveDataIntact)
<1> SUFFICES ASSUME KernelRequests PROVE Spec => []LiveDataIntact
  OBVIOUS
<1>1. IInv => LiveDataIntact
  BY DEF IInv, HeapInv, LiveInv, LiveDataIntact
<1> QED
  BY <1>1, HeapInvariant, PTL

(***************************************************************************)
(* The allocator.                                                          *)
(***************************************************************************)

\* A payload, with its bookkeeping, within a free block overlaps no other.
LEMMA Placed ==
  ASSUME IInv, NEW b \in FreeBlocks(mem), NEW p \in Nat, NEW n \in Nat, n >= 1,
         b + 4 <= p, p + n + 2 <= Behind(mem, b)
  PROVE  Heap!Fits(p, n) /\ p \in heap_start_vaddr .. HeapEnd - 1
<1> DEFINE B == AllBlocks(mem, live)
<1>1. mem \in Memory /\ Tiled(mem, B) /\ b \in B
  BY BlockFacts, TypeFacts DEF IInv
<1>2. /\ b \in Nat /\ heap_start_vaddr <= b /\ Behind(mem, b) \in Nat
      /\ Behind(mem, b) <= HeapEnd /\ HeapEnd \in Nat /\ heap_start_vaddr \in Nat
  BY <1>1, TiledBlock, HeapConstants
<1> DEFINE mine == [ptr |-> p, size |-> n]
<1>3. Heap!Region(mine) = p - 4 .. p + n + 1
  BY DEF Heap!Region, HEADER, TRAILER
<1>4. ASSUME NEW c \in live, NEW y \in Heap!Region(mine), y \in Heap!Region(c) PROVE FALSE
  <2>1. /\ c.ptr - 4 \in B /\ c.ptr - 4 # b /\ c.ptr - 4 \in Nat /\ c.ptr \in Nat /\ c.size \in Nat
        /\ Behind(mem, c.ptr - 4) = c.ptr + c.size + 2
    BY Held
  <2>2. Heap!Region(c) = c.ptr - 4 .. c.ptr + c.size + 1
    <3>1. Heap!Region(c) = c.ptr - 4 .. ((c.ptr + c.size) - 1) + 2
      BY <2>1 DEF Heap!Region, HEADER, TRAILER
    <3>2. ((c.ptr + c.size) - 1) + 2 = c.ptr + c.size + 1
      BY <2>1
    <3> QED
      BY <3>1, <3>2
  <2>3. y \in Nat /\ c.ptr - 4 <= y /\ y < Behind(mem, c.ptr - 4) /\ b <= y /\ y < Behind(mem, b)
    <3>1. y \in p - 4 .. p + n + 1 /\ y \in c.ptr - 4 .. c.ptr + c.size + 1
      BY <1>3, <1>4, <2>2
    <3> QED
      BY <1>2, <2>1, <3>1
  <2> HIDE DEF B
  <2> QED
    BY <1>1, <1>2, <2>1, <2>3, Elsewhere
<1>5. p - HEADER >= heap_start_vaddr /\ p + n - 1 + TRAILER <= HeapEnd - 1
  BY <1>2 DEF HEADER, TRAILER
<1>6. \A c \in live : Heap!Region(mine) \cap Heap!Region(c) = {}
  BY <1>4
<1>7. Heap!Fits(p, n)
  BY <1>5, <1>6 DEF Heap!Fits
<1> QED
  BY <1>2, <1>7

\* Free blocks never lie next to each other, so a gap between clients is one
\* block, and too small when all free blocks are.
LEMMA Refused ==
  ASSUME IInv, NEW n \in Sizes, \A b \in FreeBlocks(mem) : mem[b] < n,
         NEW p \in heap_start_vaddr .. HeapEnd - 1
  PROVE  ~Heap!Fits(p, n)
<1> SUFFICES ASSUME Heap!Fits(p, n) PROVE FALSE
  OBVIOUS
<1> DEFINE B == AllBlocks(mem, live)
           mine == [ptr |-> p, size |-> n]
<1>1. /\ mem \in Memory /\ Tiled(mem, B) /\ n \in Nat /\ n >= 1 /\ p \in Nat
      /\ HeapEnd \in Nat /\ heap_start_vaddr \in Nat
  BY BlockFacts, TypeFacts, HeapConstants DEF IInv
<1>2. Heap!Region(mine) = p - 4 .. p + n + 1
  BY <1>1 DEF Heap!Region, HEADER, TRAILER
<1>3. heap_start_vaddr <= p - 4 /\ p + n + 1 <= HeapEnd - 1
        /\ \A c \in live : Heap!Region(mine) \cap Heap!Region(c) = {}
  BY <1>1 DEF Heap!Fits, HEADER, TRAILER
<1>4. ASSUME NEW c \in UsedBlocks(live), NEW y \in p - 4 .. p + n + 1, c <= y, y < Behind(mem, c)
      PROVE  FALSE
  <2>1. PICK a \in live : c = a.ptr - 4
    BY UsedBlock, TypeFacts DEF IInv
  <2>2. /\ a.ptr \in Nat /\ a.size \in Nat /\ Behind(mem, c) = a.ptr + a.size + 2
    BY <2>1, Held
  <2>3. Heap!Region(a) = a.ptr - 4 .. a.ptr + a.size + 1
    <3>1. Heap!Region(a) = a.ptr - 4 .. ((a.ptr + a.size) - 1) + 2
      BY <2>2 DEF Heap!Region, HEADER, TRAILER
    <3>2. ((a.ptr + a.size) - 1) + 2 = a.ptr + a.size + 1
      BY <2>2
    <3> QED
      BY <3>1, <3>2
  <2>4. y \in Heap!Region(a) /\ y \in Heap!Region(mine)
    BY <1>1, <1>2, <1>4, <2>1, <2>2, <2>3
  <2> QED
    BY <1>3, <2>4
<1> HIDE DEF mine
<1>5. PICK c \in B : c <= p - 4 /\ p - 4 < Behind(mem, c)
  <2>1. p - 4 \in heap_start_vaddr .. HeapEnd - 1
    BY <1>1, <1>3
  <2>2. ASSUME NEW y \in heap_start_vaddr .. HeapEnd - 1
        PROVE  \E d \in B : d <= y /\ y < Behind(mem, d)
    <3> HIDE DEF B
    <3> QED
      BY <1>1, Containing
  <2> QED
    BY <2>1, <2>2
<1>6. c \in FreeBlocks(mem)
  <2>1. p - 4 \in p - 4 .. p + n + 1
    BY <1>1
  <2> QED
    BY <1>4, <1>5, <2>1 DEF AllBlocks
<1> DEFINE d == Behind(mem, c)
<1>7. c \in Nat /\ heap_start_vaddr <= c /\ mem[c] \in Nat /\ d = c + 6 + mem[c] /\ d \in Nat /\ c < d
  <2> HIDE DEF B
  <2> QED
    BY <1>1, <1>5, TiledBlock
<1>8. mem[c] < n
  BY <1>6
<1>9. d \in p - 4 .. p + n + 1 /\ d # HeapEnd
  BY <1>1, <1>3, <1>5, <1>7, <1>8
<1>10. d \in B
  BY <1>1, <1>5, <1>9 DEF Tiled
<1> HIDE DEF d
<1>11. d < Behind(mem, d)
  <2> HIDE DEF B
  <2> QED
    BY <1>1, <1>10, TiledBlock
<1>12. d \in FreeBlocks(mem)
  BY <1>4, <1>7, <1>9, <1>10, <1>11 DEF AllBlocks
<1>13. d = Second(mem) /\ d # NULL /\ c = heap_start_vaddr
  BY <1>6, <1>7, <1>12 DEF FreeBlocks
<1>14. d # Behind(mem, heap_start_vaddr)
  BY <1>13 DEF IInv, HeapInv, SecondInv
<1> QED
  BY <1>13, <1>14 DEF d

LEMMA AllocatorStep ==
  ASSUME KernelRequests, IInv, [Next]_vars
  PROVE  [Heap!Next]_(Heap!vars)
<1>1. ASSUME NEW n \in Sizes, kmalloc(n) PROVE Heap!Next
  <2>1. n \in Nat /\ n >= 1
    BY HeapConstants
  <2>2. ASSUME NEW p \in heap_start_vaddr .. HeapEnd - 1, Heap!Grant(n, p) PROVE Heap!Next
    BY <2>2 DEF Heap!Next
  <2>3. CASE PerfectFit(n)
    <3>1. PICK b \in Addresses :
            /\ IsBest(b, n) /\ Size(mem, b) = n
            /\ Handed(heap_remove_free_block(heap_update_block(mem, b, n, BLOCK_USED), b),
                      n, b + HEADER)
      BY <2>3 DEF PerfectFit
    <3>2. b \in FreeBlocks(mem) /\ mem[b] = n
      BY <3>1, Searched DEF Size, At
    <3>3. b \in Nat /\ Behind(mem, b) = b + 6 + n
      BY <3>2, BlockFacts, TypeFacts, TiledBlock DEF IInv
    <3> DEFINE p == b + HEADER
    <3>4. p \in Nat /\ b + 4 <= p /\ p + n + 2 <= Behind(mem, b)
      BY <2>1, <3>3 DEF HEADER
    <3>5. live' = live \cup {[ptr |-> p, size |-> n]} /\ answer' = [size |-> n, ptr |-> p]
      BY <3>1 DEF Handed
    <3> HIDE DEF p
    <3>6. Heap!Fits(p, n) /\ p \in heap_start_vaddr .. HeapEnd - 1
      BY <2>1, <3>2, <3>4, Placed
    <3> QED
      BY <2>2, <3>5, <3>6 DEF Heap!Grant
  <2>4. CASE BigBlockSplit(n)
    <3>1. PICK b \in FreeBlocks(mem), r \in Nat :
            /\ r >= 1 /\ mem[b] = r + n + 6 /\ b \in Nat
            /\ (b = heap_start_vaddr => Rest(r)) /\ (b # heap_start_vaddr => Whole(r))
            /\ mem' = SplitOf(mem, b, r, n) /\ frees' = frees /\ fault' = fault
            /\ live' = live \cup {[ptr |-> b + r + 6 + HEADER, size |-> n]}
            /\ answer' = [size |-> n, ptr |-> b + r + 6 + HEADER]
      BY <2>4, SplitFacts
    <3>2. Behind(mem, b) = b + 6 + mem[b]
      BY BlockFacts, TypeFacts, TiledBlock DEF IInv
    <3> DEFINE p == b + r + 6 + HEADER
    <3>3. p \in Nat /\ b + 4 <= p /\ p + n + 2 <= Behind(mem, b)
      BY <2>1, <3>1, <3>2 DEF HEADER
    <3>4. live' = live \cup {[ptr |-> p, size |-> n]} /\ answer' = [size |-> n, ptr |-> p]
      BY <3>1
    <3> HIDE DEF p
    <3>5. Heap!Fits(p, n) /\ p \in heap_start_vaddr .. HeapEnd - 1
      BY <2>1, <3>3, Placed
    <3> QED
      BY <2>2, <3>4, <3>5 DEF Heap!Grant
  <2>5. CASE NoSuitableBlock(n)
    <3>1. Candidates(n) = {} /\ answer' = [size |-> n, ptr |-> NULL] /\ live' = live
      BY <2>5 DEF NoSuitableBlock
    <3>2. \A p \in heap_start_vaddr .. HeapEnd - 1 : ~Heap!Fits(p, n)
      BY <3>1, Searched, Refused
    <3> QED
      BY <3>1, <3>2 DEF Heap!Next, Heap!Refuse
  <2> QED
    BY <1>1, <2>3, <2>4, <2>5 DEF kmalloc
<1>2. ASSUME NEW a \in live, kfree(a) PROVE Heap!Next
  BY <1>2 DEF kfree, Heap!Next, Heap!Release
<1>3. CASE UNCHANGED vars
  BY <1>3 DEF vars, Heap!vars
<1> QED
  BY <1>1, <1>2, <1>3 DEF Next

\* AllocatorImplemented: kmalloc hands out memory nobody holds, and answers
\* with none only when no gap between the clients is large enough, headers and
\* trailers counted; kfree takes back just what it is given.  Under
\* KernelRequests.
THEOREM HeapImplementsAllocator == KernelRequests => (Spec => AllocatorImplemented)
<1> SUFFICES ASSUME KernelRequests PROVE Spec => Heap!Spec
  BY DEF AllocatorImplemented
<1>1. Init => Heap!Init
  BY DEF Init, Heap!Init
<1>2. IInv /\ [Next]_vars => [Heap!Next]_(Heap!vars)
  BY AllocatorStep
<1> QED
  BY <1>1, <1>2, HeapInvariant, PTL DEF Spec, Heap!Spec
=============================================================================
