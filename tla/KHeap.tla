-------------------------------- MODULE KHeap --------------------------------
(***************************************************************************)
(* The kernel heap of kernel/kheap.c, word by word: a block is a header of *)
(* four words, its payload and a trailer of two words, and everything      *)
(* kmalloc and kfree know they read from those words.  Sizes and addresses *)
(* are counted in 32-bit words; arithmetic on them wraps around.           *)
(*                                                                         *)
(* Every call runs in an interrupt handler, or in kernel_main before there *)
(* is a second task, so a call is one step.  Clients follow the interface: *)
(* they free what they hold, once, and fill all of it while they hold it.  *)
(***************************************************************************)
EXTENDS Integers, FiniteSets

CONSTANTS
  ADDRESS_WORDS,   \* words of the address space
  heap_start_vaddr,
  HEAP_MAX_SIZE,   \* payload of the first block
  SLACK,           \* words between the heap's end and the end of its last page
  Sizes,           \* kmalloc's argument after ROUND_UP_4
  MaxFrees,        \* calls of kfree that are followed
  MemZeroOnFree,   \* KERNEL_MEMZERO_ON_FREE
  Data             \* what a client writes into its memory

HEADER  == 4   \* words of block_header: size, used, prev_free_block, next_free_block
TRAILER == 2   \* words of block_trailer: size, used

BLOCK_FREE == 0
BLOCK_USED == 1
NULL       == 0

HeapEnd   == heap_start_vaddr + HEADER + HEAP_MAX_SIZE + TRAILER
Addresses == heap_start_vaddr .. HeapEnd + SLACK - 1

ASSUME KHeapAssumption ==
  /\ heap_start_vaddr \in Nat \ {0} /\ HEAP_MAX_SIZE \in Nat \ {0}
  /\ SLACK \in Nat /\ SLACK >= HEADER + TRAILER
  /\ ADDRESS_WORDS \in Nat /\ HeapEnd + SLACK < ADDRESS_WORDS
  /\ Sizes \subseteq 1 .. HEAP_MAX_SIZE
  /\ MaxFrees \in Nat
  /\ MemZeroOnFree \in BOOLEAN
  /\ Data \in 0 .. ADDRESS_WORDS - 1

\* What task_create and testkill make of the heap: a request takes, with its
\* bookkeeping, a multiple of some grain (all are one stack, TASK_STACK_SIZE);
\* the first block is never a multiple and can always be told from one by the
\* size of a block; and one task is killed.
KernelRequests ==
  /\ MaxFrees <= 1
  /\ \E grain \in 1 .. HEAP_MAX_SIZE :
       /\ HEAP_MAX_SIZE % grain \in 1 .. grain - HEADER - TRAILER - 1
       /\ \A n \in Sizes : (n + HEADER + TRAILER) % grain = 0

VARIABLES
  mem,       \* the heap's words
  live,      \* payloads clients hold: address and size
  answer,    \* the last request and what kmalloc returned
  frees,     \* calls of kfree so far
  fault      \* kfree has followed a pointer out of the heap

vars == <<mem, live, answer, frees, fault>>

TypeOK ==
  /\ mem \in [Addresses -> 0 .. ADDRESS_WORDS - 1]
  /\ live \subseteq [ptr : Addresses, size : Sizes]
  /\ answer \in [size : Sizes \cup {0}, ptr : Addresses \cup {NULL}]
  /\ frees \in 0 .. MaxFrees
  /\ fault \in BOOLEAN

(***************************************************************************)
(* Blocks.  m is a state of the memory and b the address of a header.      *)
(***************************************************************************)
U(x) == x % ADDRESS_WORDS

At(m, a) == IF a \in Addresses THEN m[a] ELSE 0

Size(m, b) == At(m, b)
Used(m, b) == At(m, U(b + 1))
Prev(m, b) == At(m, U(b + 2))
Succ(m, b) == At(m, U(b + 3))

TrailerOf(m, b) == U(b + HEADER + Size(m, b))
Adjacent(m, b)  == U(TrailerOf(m, b) + TRAILER)

Put(m, a, v) == IF a \in Addresses THEN [m EXCEPT ![a] = v] ELSE m

\* The pair <<size, used>> that a header begins with and a trailer is.
Tag(m, a, size, used) == Put(Put(m, a, size), U(a + 1), used)

Link(m, b, prev, next) == Put(Put(m, U(b + 2), prev), U(b + 3), next)

Fill(m, first, n, v) ==
  [x \in Addresses |-> IF x \in first .. first + n - 1 THEN v ELSE m[x]]

heap_update_block(m, b, size, used) ==
  Tag(Tag(m, b, size, used), U(b + HEADER + size), size, used)

heap_create_new_block(m, b, size, used, prev, next) ==
  heap_update_block(Link(m, b, prev, next), b, size, used)

heap_remove_free_block(m, b) ==
  LET unlinked == IF Prev(m, b) = NULL THEN m
                  ELSE Put(m, U(Prev(m, b) + 3), Succ(m, b))
  IN  IF Succ(unlinked, b) = NULL THEN unlinked
      ELSE Put(unlinked, U(Succ(unlinked, b) + 2), Prev(unlinked, b))

\* Walks of at most this many blocks.
Walked == 0 .. HEAP_MAX_SIZE \div (HEADER + TRAILER) + 1

\* The blocks in the order of their addresses: a walk along the headers,
\* which stops at a size of 0.
Walk(m) ==
  LET at[k \in Walked] ==
        IF k = 0 THEN heap_start_vaddr
        ELSE LET b == at[k - 1] IN IF Size(m, b) = 0 THEN b ELSE Adjacent(m, b)
  IN  at

Blocks(m) == {Walk(m)[k] : k \in Walked} \cap {b \in Addresses : Size(m, b) # 0}

\* The list kmalloc searches, from the first block on; NULL behind its end.
FreeList(m) ==
  LET at[k \in Walked] ==
        IF k = 0 THEN heap_start_vaddr
        ELSE LET b == at[k - 1] IN IF b = NULL THEN NULL ELSE Succ(m, b)
  IN  at

(***************************************************************************)
(* kmalloc.                                                                *)
(***************************************************************************)
\* Places in the free list whose block can hold n words.
Candidates(n) ==
  LET list == FreeList(mem)
  IN  {k \in Walked : /\ list[k] # NULL
                      /\ Used(mem, list[k]) = BLOCK_FREE
                      /\ Size(mem, list[k]) >= n}

\* The smallest such block, the first of the list among equals.
IsBest(b, n) ==
  \E k \in Candidates(n) :
    /\ b = FreeList(mem)[k]
    /\ \A j \in Candidates(n) :
         LET s == Size(mem, FreeList(mem)[j])
         IN  Size(mem, b) < s \/ (Size(mem, b) = s /\ k <= j)

Handed(m, n, p) ==
  /\ mem' = Fill(m, p, n, Data)
  /\ live' = live \cup {[ptr |-> p, size |-> n]}
  /\ answer' = [size |-> n, ptr |-> p]
  /\ UNCHANGED <<frees, fault>>

PerfectFit(n) ==
  \E b \in Addresses :
    /\ IsBest(b, n) /\ Size(mem, b) = n
    /\ Handed(heap_remove_free_block(heap_update_block(mem, b, n, BLOCK_USED), b),
              n, b + HEADER)

\* Mutant: the trailer of the carved block is not counted.
RemainderNoTrailer(size, n) == U(size - HEADER - n)

\* What is left of a block of that size when n words are carved from its end.
Remainder(size, n) == U(size - HEADER - n - TRAILER)

BigBlockSplit(n) ==
  \E b \in Addresses :
    /\ IsBest(b, n) /\ Size(mem, b) > n
    /\ LET new  == U(b + Size(mem, b) - n)
           rest == heap_update_block(mem, b, Remainder(Size(mem, b), n), BLOCK_FREE)
       IN  Handed(heap_create_new_block(rest, new, n, BLOCK_USED, b, Succ(rest, b)),
                  n, new + HEADER)

NoSuitableBlock(n) ==
  /\ Candidates(n) = {}
  /\ answer' = [size |-> n, ptr |-> NULL]
  /\ UNCHANGED <<mem, live, frees, fault>>

kmalloc(n) == ~fault /\ (PerfectFit(n) \/ BigBlockSplit(n) \/ NoSuitableBlock(n))

(***************************************************************************)
(* kfree.                                                                  *)
(***************************************************************************)
\* The free block the walk met last before it came to b.
LastFree(m, b) ==
  LET free == {x \in Blocks(m) : x < b /\ Used(m, x) = BLOCK_FREE}
  IN  IF free = {} THEN heap_start_vaddr
      ELSE CHOOSE x \in free : \A y \in free : y <= x

\* Mutant: the block in front of b is not linked to it.
InsertUnlinked(m, b) == Link(m, b, LastFree(m, b), Succ(m, LastFree(m, b)))

Insert(m, b) ==
  LET last == LastFree(m, b)
  IN  Put(Link(m, b, last, Succ(m, last)), U(last + 3), b)

\* heap_coalesce_free_block: where it looks for the block in front of b.
InFront(m, b) == U(b - TRAILER - At(m, U(b - TRAILER)) - HEADER)

IsFreeBlock(m, b) == Size(m, b) # 0 /\ Used(m, b) = BLOCK_FREE

\* Its first half, with the block behind.
CoalesceNext(m, b) ==
  LET next == Adjacent(m, b)
      size == U(Size(m, b) + TRAILER + HEADER + Size(m, next))
  IN  IF ~IsFreeBlock(m, next) THEN m
      ELSE Tag(Put(Put(m, U(b + 3), Succ(m, next)), b, size),
               TrailerOf(m, next), size, BLOCK_FREE)

\* Its second half, with the block in front; `end' is next_trailer, computed
\* on entry, and is the trailer of the block behind even if that is in use.
CoalescePrev(m, b, prev, end) ==
  LET size == U(Size(m, prev) + TRAILER + HEADER + Size(m, b))
  IN  IF ~IsFreeBlock(m, prev) THEN m
      ELSE Tag(Put(Put(m, prev, size), U(prev + 3), Succ(m, b)), end, size, BLOCK_FREE)

\* Mutant: only the block behind is looked at.
heap_coalesce_next_only(m, b) == CoalesceNext(m, b)

heap_coalesce_free_block(m, b) ==
  CoalescePrev(CoalesceNext(m, b), b, InFront(m, b), TrailerOf(m, Adjacent(m, b)))

Cleared(p) ==
  LET b    == p - HEADER
      zero == IF MemZeroOnFree THEN Fill(mem, p, Size(mem, b), 0) ELSE mem
  IN  Put(Put(zero, U(b + 1), BLOCK_FREE), U(TrailerOf(mem, b) + 1), BLOCK_FREE)

\* The words heap_coalesce_free_block reads whatever it finds in them.
Followed(m, b) ==
  {U(b - TRAILER), InFront(m, b), U(InFront(m, b) + 1),
   Adjacent(m, b), U(Adjacent(m, b) + 1)}

\* In front of the heap lies the kernel's page directory: its last entries,
\* taken for a trailer, lead kfree of the first block anywhere.
kfree(a) ==
  /\ ~fault
  /\ frees < MaxFrees
  /\ frees' = frees + 1
  /\ live' = live \ {a}
  /\ UNCHANGED answer
  /\ LET b     == a.ptr - HEADER
         m     == Cleared(a.ptr)
         found == b \in Blocks(m)
     IN  /\ fault' = (found /\ ~(Followed(m, b) \subseteq Addresses))
         /\ mem' = IF ~found THEN m
                   ELSE IF fault' THEN Insert(m, b)
                   ELSE heap_coalesce_free_block(Insert(m, b), b)

\* heap_init.
Init ==
  /\ mem = heap_create_new_block([a \in Addresses |-> 0], heap_start_vaddr,
                                 HEAP_MAX_SIZE, BLOCK_FREE, NULL, NULL)
  /\ live = {}
  /\ answer = [size |-> 0, ptr |-> NULL]
  /\ frees = 0
  /\ fault = FALSE

Next ==
  \/ \E n \in Sizes : kmalloc(n)
  \/ \E a \in live : kfree(a)

Spec == Init /\ [][Next]_vars

(***************************************************************************)
(* Safety.                                                                 *)
(***************************************************************************)

\* The headers lead from the start of the heap exactly to its end; the
\* payloads clients hold are the blocks marked used, at their full size.
BlocksTile ==
  /\ TypeOK
  /\ ~fault =>
       /\ HeapEnd \in {Walk(mem)[k] : k \in Walked}
       /\ {b \in Blocks(mem) : Used(mem, b) = BLOCK_USED} = {a.ptr - HEADER : a \in live}
       /\ \A a \in live : Size(mem, a.ptr - HEADER) = a.size

\* kmalloc finds every free block, each once: the list holds the free
\* blocks, in the order of their addresses, behind the first block.
FreeListComplete ==
  LET list == FreeList(mem)
  IN  ~fault =>
        /\ {list[k] : k \in Walked} \ {NULL, heap_start_vaddr} =
             {b \in Blocks(mem) \ {heap_start_vaddr} : Used(mem, b) = BLOCK_FREE}
        /\ \A k \in Walked \ {0} : list[k] = NULL \/ list[k - 1] < list[k]

\* The bookkeeping of one block never reaches into the memory of a client.
LiveDataIntact ==
  \A a \in live : \A x \in a.ptr .. a.ptr + a.size - 1 : mem[x] = Data

\* kmalloc and kfree are an allocator: no overlap, no leak, and no refusal
\* while there is room.
Heap == INSTANCE Allocator WITH
          First <- heap_start_vaddr, Last <- HeapEnd - 1,
          Front <- HEADER, Back <- TRAILER, Null <- NULL

AllocatorImplemented == Heap!Spec
=============================================================================
