------------------------ MODULE PhysicalMemoryProofs ------------------------
(***************************************************************************)
(* PhysicalMemory implements FramePool, and its counter counts, for every  *)
(* word size and every set of memory ranges below 4 GB.                    *)
(***************************************************************************)
EXTENDS PhysicalMemory, FiniteSetTheorems, TLAPS

\* The range a kernel works with, and what is known of it: it ends below
\* 4 GB and does not start at address 0, unless none was announced.
RangeOK ==
  \/ <<pmm_memory_start, pmm_frames_max>> \in Ranges
  \/ pmm_memory_start = 0 /\ pmm_frames_max = 0

\* The bitmap is finite, holds only frames the scan can find, and is empty
\* until the first request.
BitmapOK ==
  /\ IsFiniteSet(pmm_memory_bitmap)
  /\ \A n \in pmm_memory_bitmap : Scanned(n)
  /\ result = Never => pmm_memory_bitmap = {} /\ held = {}

IInv == TypeOK /\ RangeOK /\ BitmapOK /\ BitmapMatchesHeld /\ CounterMatchesBitmap

\* Whole words are within bounds.
LEMMA ScannedInBounds ==
  ASSUME NEW w \in Nat \ {0}, NEW n \in Nat, NEW m \in Nat, n \div w < m \div w
  PROVE  n < m
<1>1. n >= m => n \div w >= m \div w
  OBVIOUS
<1> QED BY <1>1

\* Frames of the range have distinct addresses, none of which is the one
\* that stands for exhaustion; that one is out of the bitmap's bounds.
LEMMA AddressFacts ==
  ASSUME TypeOK, RangeOK
  PROVE  /\ \A n \in 0 .. pmm_frames_max - 1 :
              /\ AddressOf(n) = pmm_memory_start + n
              /\ AddressOf(n) \in Addresses
              /\ AddressOf(n) # Exhausted
              /\ FrameOf(AddressOf(n)) = n
         /\ Exhausted \in Addresses
         /\ FrameOf(Exhausted) = NO_FRAME
         /\ ~(NO_FRAME < pmm_frames_max)
<1>1. /\ pmm_memory_start \in Addresses /\ pmm_frames_max \in Nat
      /\ pmm_memory_start + pmm_frames_max <= ADDRESS_FRAMES
      /\ ADDRESS_FRAMES \in Nat \ {0}
  BY MemoryAssumption DEF TypeOK
<1>2. pmm_memory_start = 0 => pmm_frames_max = 0
  BY MemoryAssumption DEF RangeOK
<1> QED BY <1>1, <1>2 DEF AddressOf, FrameOf, Wrap, Exhausted, NO_FRAME, Addresses

LEMMA FreeFramesInBounds ==
  ASSUME TypeOK PROVE FreeFrames \subseteq 0 .. pmm_frames_max - 1
BY ScannedInBounds, MemoryAssumption DEF TypeOK, FreeFrames, Scanned

LEMMA InitIInv == Init => IInv
<1> SUFFICES ASSUME Init PROVE IInv
  OBVIOUS
<1>1. TypeOK
  BY MemoryAssumption DEF Init, TypeOK, Addresses
<1>2. RangeOK /\ BitmapOK /\ BitmapMatchesHeld
  BY FS_EmptySet DEF Init, RangeOK, BitmapOK, BitmapMatchesHeld
<1>3. CounterMatchesBitmap
  BY FS_EmptySet DEF Init, CounterMatchesBitmap
<1> QED BY <1>1, <1>2, <1>3 DEF IInv

LEMMA SetMemoryRangeStep ==
  ASSUME IInv, NEW r \in Ranges, SetMemoryRange(r) PROVE IInv'
<1>1. /\ pmm_memory_bitmap = {} /\ held = {} /\ result = Never
      /\ UNCHANGED <<pmm_memory_bitmap, pmm_frames_used, held, result>>
      /\ pmm_memory_start' = r[1] /\ pmm_frames_max' = r[2]
  BY DEF IInv, BitmapOK, SetMemoryRange
<1>2. r = <<r[1], r[2]>> /\ r[1] \in 1 .. ADDRESS_FRAMES - 1 /\ r[2] \in Nat /\ r[1] + r[2] <= ADDRESS_FRAMES
  BY MemoryAssumption
<1>3. TypeOK' /\ RangeOK'
  <2>1. TypeOK'
    BY <1>1, <1>2, MemoryAssumption DEF IInv, TypeOK, Addresses
  <2>2. RangeOK'
    BY <1>1, <1>2 DEF RangeOK
  <2> QED BY <2>1, <2>2
<1>4. BitmapOK' /\ BitmapMatchesHeld' /\ CounterMatchesBitmap'
  BY <1>1 DEF IInv, BitmapOK, BitmapMatchesHeld, CounterMatchesBitmap, Scanned
<1> QED BY <1>3, <1>4 DEF IInv

\* What pmm_alloc_frame does: it grants the first free frame, or refuses.
LEMMA AllocCases ==
  ASSUME IInv, AllocFrame
  PROVE  \/ /\ FreeFrames = {}
            /\ result' = Exhausted /\ held' = held \cup {Exhausted}
            /\ UNCHANGED <<pmm_memory_start, pmm_frames_max, pmm_memory_bitmap, pmm_frames_used>>
         \/ \E n \in FreeFrames :
              /\ n < pmm_frames_max /\ n \notin pmm_memory_bitmap
              /\ result' = AddressOf(n) /\ held' = held \cup {AddressOf(n)}
              /\ pmm_memory_bitmap' = pmm_memory_bitmap \cup {n}
              /\ pmm_frames_used' = pmm_frames_used + 1
              /\ UNCHANGED <<pmm_memory_start, pmm_frames_max>>
<1>1. PICK n \in (0 .. pmm_frames_max + WORD_BITS) \cup {NO_FRAME} :
        /\ IsFirstFree(n) /\ SetFrameUsed(n)
        /\ result' = AddressOf(n) /\ held' = held \cup {AddressOf(n)}
        /\ UNCHANGED <<pmm_memory_start, pmm_frames_max>>
  BY DEF AllocFrame
<1>2. CASE FreeFrames = {}
  BY <1>1, <1>2, AddressFacts DEF IInv, IsFirstFree, SetFrameUsed, Exhausted
<1>3. CASE FreeFrames # {}
  <2>1. n \in FreeFrames
    BY <1>1, <1>3 DEF IsFirstFree
  <2>2. n \in 0 .. pmm_frames_max - 1 /\ n \notin pmm_memory_bitmap
    BY <2>1, FreeFramesInBounds DEF IInv, FreeFrames
  <2>3. n < pmm_frames_max
    BY <2>2 DEF IInv, TypeOK
  <2> QED BY <1>1, <2>1, <2>2, <2>3 DEF SetFrameUsed
<1> QED BY <1>2, <1>3

LEMMA AllocFrameStep == ASSUME IInv, AllocFrame PROVE IInv'
<1>1. CASE /\ result' = Exhausted /\ held' = held \cup {Exhausted}
           /\ UNCHANGED <<pmm_memory_start, pmm_frames_max, pmm_memory_bitmap, pmm_frames_used>>
  <2>1. Exhausted' = Exhausted /\ Exhausted \in Addresses /\ Exhausted # Never
    BY <1>1, AddressFacts, MemoryAssumption DEF IInv, Exhausted, AddressOf
  <2>2. \A n : AddressOf(n)' = AddressOf(n) /\ Scanned(n)' = Scanned(n)
    BY <1>1 DEF AddressOf, Scanned
  <2>3. TypeOK' /\ RangeOK'
    BY <1>1, <2>1 DEF IInv, TypeOK, RangeOK
  <2>4. BitmapOK' /\ CounterMatchesBitmap'
    BY <1>1, <2>1, <2>2 DEF IInv, BitmapOK, CounterMatchesBitmap
  <2>5. BitmapMatchesHeld'
    BY <1>1, <2>1, <2>2 DEF IInv, BitmapMatchesHeld
  <2> QED BY <2>3, <2>4, <2>5 DEF IInv
<1>2. ASSUME NEW n \in FreeFrames,
             n < pmm_frames_max, n \notin pmm_memory_bitmap,
             result' = AddressOf(n), held' = held \cup {AddressOf(n)},
             pmm_memory_bitmap' = pmm_memory_bitmap \cup {n},
             pmm_frames_used' = pmm_frames_used + 1,
             UNCHANGED <<pmm_memory_start, pmm_frames_max>>
      PROVE  IInv'
  <2>1. n \in 0 .. pmm_frames_max - 1 /\ Scanned(n)
    BY FreeFramesInBounds DEF IInv, FreeFrames
  <2>2. AddressOf(n) \in Addresses /\ AddressOf(n) # Exhausted /\ AddressOf(n) # Never
    BY <2>1, AddressFacts, MemoryAssumption DEF IInv
  <2>3. /\ \A m : AddressOf(m)' = AddressOf(m) /\ Scanned(m)' = Scanned(m)
        /\ Exhausted' = Exhausted
    BY <1>2 DEF AddressOf, Scanned, Exhausted
  <2>4. TypeOK' /\ RangeOK'
    BY <1>2, <2>1, <2>2 DEF IInv, TypeOK, RangeOK
  <2>5. BitmapOK'
    BY <1>2, <2>1, <2>2, <2>3, FS_AddElement DEF IInv, BitmapOK
  <2>6. CounterMatchesBitmap'
    BY <1>2, FS_AddElement DEF IInv, BitmapOK, CounterMatchesBitmap
  <2>7. BitmapMatchesHeld'
    BY <1>2, <2>2, <2>3 DEF IInv, BitmapMatchesHeld
  <2> QED BY <2>4, <2>5, <2>6, <2>7 DEF IInv
<1> QED BY <1>1, <1>2, AllocCases

\* What pmm_dealloc_frame does with an address its client held.
LEMMA DeallocCases ==
  ASSUME IInv, NEW a \in held, DeallocFrame(a)
  PROVE  /\ held' = held \ {a}
         /\ UNCHANGED <<pmm_memory_start, pmm_frames_max, result>>
         /\ \/ a = Exhausted /\ UNCHANGED <<pmm_memory_bitmap, pmm_frames_used>>
            \/ \E n \in pmm_memory_bitmap :
                 /\ a = AddressOf(n)
                 /\ pmm_memory_bitmap' = pmm_memory_bitmap \ {n}
                 /\ pmm_frames_used' = pmm_frames_used - 1
<1>1. CASE a = Exhausted
  BY <1>1, AddressFacts DEF IInv, DeallocFrame, SetFrameFree
<1>2. CASE a # Exhausted
  <2>1. PICK n \in pmm_memory_bitmap : a = AddressOf(n)
    BY <1>2 DEF IInv, BitmapMatchesHeld
  <2>2. n \in 0 .. pmm_frames_max - 1 /\ n < pmm_frames_max
    BY <2>1 DEF IInv, TypeOK
  <2>3. FrameOf(a) = n
    BY <2>1, <2>2, AddressFacts DEF IInv
  <2> QED BY <2>1, <2>2, <2>3 DEF DeallocFrame, SetFrameFree
<1> QED BY <1>1, <1>2

LEMMA DeallocFrameStep == ASSUME IInv, NEW a \in held, DeallocFrame(a) PROVE IInv'
<1>1. held' = held \ {a} /\ UNCHANGED <<pmm_memory_start, pmm_frames_max, result>>
  BY DeallocCases
<1>2. /\ \A m : AddressOf(m)' = AddressOf(m) /\ Scanned(m)' = Scanned(m)
      /\ Exhausted' = Exhausted
  BY <1>1 DEF AddressOf, Scanned, Exhausted
<1>3. result # Never
  BY DEF IInv, BitmapOK
<1>4. CASE a = Exhausted /\ UNCHANGED <<pmm_memory_bitmap, pmm_frames_used>>
  BY <1>1, <1>2, <1>3, <1>4 DEF IInv, TypeOK, RangeOK, BitmapOK, CounterMatchesBitmap,
       BitmapMatchesHeld
<1>5. ASSUME NEW n \in pmm_memory_bitmap, a = AddressOf(n),
             pmm_memory_bitmap' = pmm_memory_bitmap \ {n},
             pmm_frames_used' = pmm_frames_used - 1
      PROVE  IInv'
  <2>1. /\ IsFiniteSet(pmm_memory_bitmap') /\ pmm_frames_used' = Cardinality(pmm_memory_bitmap')
        /\ pmm_frames_used' \in Nat
    <3>1. IsFiniteSet(pmm_memory_bitmap)
      BY DEF IInv, BitmapOK
    <3>2. /\ IsFiniteSet(pmm_memory_bitmap \ {n})
          /\ Cardinality(pmm_memory_bitmap \ {n}) = Cardinality(pmm_memory_bitmap) - 1
      BY <3>1, FS_RemoveElement
    <3>3. Cardinality(pmm_memory_bitmap \ {n}) \in Nat
      BY <3>2, FS_CardinalityType
    <3> QED BY <1>5, <3>2, <3>3 DEF IInv, CounterMatchesBitmap
  <2>2. TypeOK' /\ RangeOK'
    BY <1>1, <1>5, <2>1 DEF IInv, TypeOK, RangeOK
  <2>3. \A m \in pmm_memory_bitmap : AddressOf(m) = AddressOf(n) => m = n
    BY AddressFacts DEF IInv, TypeOK
  <2>4. BitmapMatchesHeld'
    BY <1>1, <1>2, <1>5, <2>3 DEF IInv, BitmapMatchesHeld
  <2> QED BY <1>1, <1>2, <1>3, <1>5, <2>1, <2>2, <2>4 DEF IInv, BitmapOK, CounterMatchesBitmap
<1> QED BY <1>4, <1>5, DeallocCases

LEMMA IInvStep == IInv /\ [Next]_vars => IInv'
<1> SUFFICES ASSUME IInv, [Next]_vars PROVE IInv'
  OBVIOUS
<1>1. CASE UNCHANGED vars
  BY <1>1 DEF vars, IInv, TypeOK, RangeOK, BitmapOK, BitmapMatchesHeld, CounterMatchesBitmap,
              AddressOf, Exhausted, Scanned
<1> QED BY <1>1, SetMemoryRangeStep, AllocFrameStep, DeallocFrameStep DEF Next

LEMMA IInvInvariant == Spec => []IInv
BY InitIInv, IInvStep, PTL DEF Spec

\* The state keeps its types: no bit beyond the range, no negative counter.
THEOREM TypeCorrect == Spec => []TypeOK
BY IInvInvariant, PTL DEF IInv

\* A frame is in one client's hands or free.
THEOREM FramesExclusive == Spec => []BitmapMatchesHeld
BY IInvInvariant, PTL DEF IInv

\* pmm_frames_used is the number of set bits.
THEOREM CounterExact == Spec => []CounterMatchesBitmap
BY IInvInvariant, PTL DEF IInv

(***************************************************************************)
(* Refinement.                                                             *)
(***************************************************************************)
FreeAddresses == {AddressOf(n) : n \in FreeFrames}
Granted == held \ {Exhausted}
Answer == IF result = Exhausted THEN ADDRESS_FRAMES ELSE result

LEMMA PoolInit == Init => Pool!Init
<1> SUFFICES ASSUME Init PROVE Pool!Init
  OBVIOUS
<1>1. TypeOK /\ RangeOK
  BY InitIInv DEF IInv
<1>2. FreeFrames = {}
  BY <1>1, FreeFramesInBounds DEF Init
<1>3. Exhausted # Never
  BY <1>1, AddressFacts, MemoryAssumption
<1> QED BY <1>2, <1>3 DEF Init, Pool!Init

LEMMA PoolConfigure ==
  ASSUME IInv, NEW r \in Ranges, SetMemoryRange(r) PROVE Pool!Configure
<1>1. IInv'
  BY SetMemoryRangeStep
<1>2. /\ held = {} /\ result = Never /\ held' = {} /\ result' = Never
      /\ pmm_memory_start' = r[1] /\ pmm_frames_max' = r[2]
  BY DEF IInv, BitmapOK, SetMemoryRange
<1>3. Exhausted # Never /\ (Exhausted # Never)'
  <2>1. Exhausted # Never
    BY AddressFacts, MemoryAssumption DEF IInv
  <2>2. Exhausted' = Wrap(r[1] + NO_FRAME)
    BY <1>2 DEF Exhausted, AddressOf
  <2>3. Wrap(r[1] + NO_FRAME) \in Addresses
    BY MemoryAssumption DEF Wrap, NO_FRAME, Addresses
  <2> QED BY <2>1, <2>2, <2>3, MemoryAssumption
<1>4. FreeAddresses' \subseteq FrameAddresses
  <2>1. (FreeFrames \subseteq 0 .. pmm_frames_max - 1)'
    BY <1>1, FreeFramesInBounds, PTL DEF IInv
  <2>2. \A n \in 0 .. r[2] - 1 : AddressOf(n)' = r[1] + n
    BY <1>2, MemoryAssumption DEF AddressOf, Wrap
  <2>3. \A n \in 0 .. r[2] - 1 : r[1] + n \in FrameAddresses
    BY MemoryAssumption DEF FrameAddresses
  <2> QED BY <1>2, <2>1, <2>2, <2>3 DEF FreeAddresses
<1> QED BY <1>2, <1>3, <1>4 DEF Pool!Configure, FreeAddresses

LEMMA InRange ==
  ASSUME TypeOK, RangeOK, NEW n \in 0 .. pmm_frames_max - 1
  PROVE  pmm_memory_start + n \in FrameAddresses
<1> DEFINE r == <<pmm_memory_start, pmm_frames_max>>
<1>1. r \in Ranges
  BY DEF RangeOK, TypeOK
<1>2. pmm_memory_start + n \in r[1] .. r[1] + r[2] - 1
  BY DEF TypeOK, Addresses
<1> HIDE DEF r
<1> QED BY <1>1, <1>2 DEF FrameAddresses

LEMMA PoolAlloc == ASSUME IInv, AllocFrame PROVE Pool!Refuse \/ \E a \in FrameAddresses : Pool!Grant(a)
<1>1. CASE /\ FreeFrames = {}
           /\ result' = Exhausted /\ held' = held \cup {Exhausted}
           /\ UNCHANGED <<pmm_memory_start, pmm_frames_max, pmm_memory_bitmap, pmm_frames_used>>
  <2>1. Exhausted' = Exhausted /\ FreeFrames' = FreeFrames
    BY <1>1 DEF Exhausted, AddressOf, FreeFrames, Scanned
  <2> QED BY <1>1, <2>1 DEF Pool!Refuse
<1>2. ASSUME NEW n \in FreeFrames,
             n < pmm_frames_max, n \notin pmm_memory_bitmap,
             result' = AddressOf(n), held' = held \cup {AddressOf(n)},
             pmm_memory_bitmap' = pmm_memory_bitmap \cup {n},
             UNCHANGED <<pmm_memory_start, pmm_frames_max>>
      PROVE  \E a \in FrameAddresses : Pool!Grant(a)
  <2>1. n \in 0 .. pmm_frames_max - 1
    BY FreeFramesInBounds DEF IInv
  <2>2. AddressOf(n) = pmm_memory_start + n /\ AddressOf(n) # Exhausted
    BY <2>1, AddressFacts DEF IInv
  <2>3. AddressOf(n) \in FrameAddresses
    BY <2>1, <2>2, InRange DEF IInv
  <2>4. Exhausted' = Exhausted /\ \A m : AddressOf(m)' = AddressOf(m)
    BY <1>2 DEF Exhausted, AddressOf
  <2>5. FreeFrames' = FreeFrames \ {n}
    BY <1>2 DEF FreeFrames, Scanned
  <2>6. \A m \in FreeFrames : AddressOf(m) = AddressOf(n) => m = n
    BY <2>1, FreeFramesInBounds, AddressFacts DEF IInv, TypeOK
  <2>7. FreeAddresses' = FreeAddresses \ {AddressOf(n)}
    BY <2>4, <2>5, <2>6 DEF FreeAddresses
  <2>8. Pool!Grant(AddressOf(n))
    BY <1>2, <2>2, <2>4, <2>7 DEF Pool!Grant, FreeAddresses
  <2> QED BY <2>3, <2>8
<1> QED BY <1>1, <1>2, AllocCases

LEMMA PoolDealloc ==
  ASSUME IInv, NEW a \in held, DeallocFrame(a)
  PROVE  UNCHANGED Pool!vars \/ \E b \in FrameAddresses : Pool!TakeBack(b)
<1>1. held' = held \ {a} /\ UNCHANGED <<pmm_memory_start, pmm_frames_max, result>>
  BY DeallocCases
<1>2. Exhausted' = Exhausted /\ \A m : AddressOf(m)' = AddressOf(m)
  BY <1>1 DEF Exhausted, AddressOf
<1>3. CASE a = Exhausted /\ UNCHANGED <<pmm_memory_bitmap, pmm_frames_used>>
  <2>1. FreeFrames' = FreeFrames
    BY <1>1, <1>3 DEF FreeFrames, Scanned
  <2> QED BY <1>1, <1>2, <1>3, <2>1 DEF Pool!vars
<1>4. ASSUME NEW n \in pmm_memory_bitmap, a = AddressOf(n),
             pmm_memory_bitmap' = pmm_memory_bitmap \ {n}
      PROVE  \E b \in FrameAddresses : Pool!TakeBack(b)
  <2>1. n \in 0 .. pmm_frames_max - 1 /\ Scanned(n)
    BY DEF IInv, TypeOK, BitmapOK
  <2>2. a = pmm_memory_start + n /\ a # Exhausted
    BY <1>4, <2>1, AddressFacts DEF IInv
  <2>3. a \in FrameAddresses
    BY <2>1, <2>2, InRange DEF IInv
  <2>4. FreeFrames' = FreeFrames \cup {n}
    BY <1>1, <1>4, <2>1, MemoryAssumption DEF FreeFrames, Scanned, IInv, TypeOK
  <2>5. FreeAddresses' = FreeAddresses \cup {a}
    BY <1>2, <1>4, <2>4 DEF FreeAddresses
  <2>6. Pool!TakeBack(a)
    BY <1>1, <1>2, <2>2, <2>5 DEF Pool!TakeBack, FreeAddresses
  <2> QED BY <2>3, <2>6
<1> QED BY <1>3, <1>4, DeallocCases

LEMMA PoolNext == IInv /\ [Next]_vars => [Pool!Next]_(Pool!vars)
<1> SUFFICES ASSUME IInv, [Next]_vars PROVE Pool!Next \/ UNCHANGED Pool!vars
  OBVIOUS
<1>1. CASE UNCHANGED vars
  BY <1>1 DEF vars, Pool!vars, AddressOf, FreeFrames, Scanned, Exhausted
<1> QED BY <1>1, PoolConfigure, PoolAlloc, PoolDealloc DEF Next, Pool!Next

\* The memory manager implements FramePool: every frame that its scan covers
\* is granted once at a time, and a refusal means that none of them is left.
THEOREM ImplementsPool == Spec => PoolImplemented
BY PoolInit, PoolNext, IInvInvariant, PTL DEF Spec, PoolImplemented, Pool!Spec

=============================================================================
