--------------------------- MODULE PhysicalMemory ---------------------------
(***************************************************************************)
(* The physical memory manager of kernel/pmm.c.  Addresses are counted in  *)
(* frames of PMM_FRAME_SIZE bytes; the bitmap is the set of the numbers of *)
(* the frames whose bit is set.                                            *)
(*                                                                         *)
(* The clients follow the interface: they give back only addresses that    *)
(* pmm_alloc_frame returned to them, and each one once.  No code of the    *)
(* kernel calls pmm_dealloc_frame yet.                                     *)
(***************************************************************************)
EXTENDS Integers, FiniteSets

CONSTANTS
  ADDRESS_FRAMES,  \* frames of the address space: 2^20
  WORD_BITS,   \* bits of one word of pmm_memory_bitmap: 32
  Ranges,      \* pairs <<first frame, frames>> multiboot may announce
  Never        \* no frame was requested yet

\* PMM_NO_FRAMES_AVAIL is 2^32 - 1, which is 2^20 - 1 frames once it has been
\* multiplied by the frame size in 32 bits.
NO_FRAME == ADDRESS_FRAMES - 1

Addresses == 0 .. ADDRESS_FRAMES - 1

ASSUME MemoryAssumption ==
  /\ WORD_BITS \in Nat \ {0} /\ ADDRESS_FRAMES \in Nat \ {0}
  /\ \A r \in Ranges : /\ r = <<r[1], r[2]>>
                       /\ r[1] \in 1 .. ADDRESS_FRAMES - 1 /\ r[2] \in Nat
                       /\ r[1] + r[2] <= ADDRESS_FRAMES
  /\ Never \notin Addresses

VARIABLES
  pmm_memory_start,
  pmm_frames_max,
  pmm_memory_bitmap,
  pmm_frames_used,
  held,      \* addresses returned by pmm_alloc_frame and not given back
  result     \* what pmm_alloc_frame returned last

vars == <<pmm_memory_start, pmm_frames_max, pmm_memory_bitmap, pmm_frames_used,
          held, result>>

TypeOK ==
  /\ pmm_memory_start \in Addresses
  /\ pmm_frames_max \in Nat
  /\ pmm_memory_start + pmm_frames_max <= ADDRESS_FRAMES
  /\ pmm_memory_bitmap \subseteq 0 .. pmm_frames_max - 1
  /\ pmm_frames_used \in Nat
  /\ held \subseteq Addresses
  /\ result \in Addresses \/ result = Never

Init ==
  /\ pmm_memory_start = 0
  /\ pmm_frames_max = 0
  /\ pmm_memory_bitmap = {}
  /\ pmm_frames_used = 0
  /\ held = {}
  /\ result = Never

\* multiboot_parse runs before anything allocates.
SetMemoryRange(r) ==
  /\ result = Never
  /\ pmm_memory_start' = r[1]
  /\ pmm_frames_max' = r[2]
  /\ UNCHANGED <<pmm_memory_bitmap, pmm_frames_used, held, result>>

\* Mutant: the scan ends only where pmm_frames_max rounds up to a word.
ScannedRoundedUp(n) == n \div WORD_BITS < (pmm_frames_max + WORD_BITS - 1) \div WORD_BITS

\* The scan covers whole words only: the last pmm_frames_max % 32 frames
\* are never found.
Scanned(n) == n \div WORD_BITS < pmm_frames_max \div WORD_BITS

FreeFrames ==
  {n \in 0 .. pmm_frames_max + WORD_BITS : Scanned(n) /\ n \notin pmm_memory_bitmap}

IsFirstFree(n) ==
  IF FreeFrames = {} THEN n = NO_FRAME
                     ELSE n \in FreeFrames /\ \A m \in FreeFrames : n <= m

\* Sums and differences of two addresses in unsigned arithmetic.
Wrap(x) == IF x < 0 THEN x + ADDRESS_FRAMES
           ELSE IF x >= ADDRESS_FRAMES THEN x - ADDRESS_FRAMES ELSE x

AddressOf(n) == Wrap(pmm_memory_start + n)

FrameOf(a) == Wrap(a - pmm_memory_start)

\* Mutant: the bit is not set, only counted.
SetFrameUsedNoBit(n) ==
  /\ pmm_frames_used' = IF n < pmm_frames_max THEN pmm_frames_used + 1 ELSE pmm_frames_used
  /\ UNCHANGED pmm_memory_bitmap

\* Mutant: the bound is not checked.
SetFrameUsedUnguarded(n) ==
  /\ pmm_memory_bitmap' = pmm_memory_bitmap \cup {n}
  /\ pmm_frames_used' = pmm_frames_used + 1

\* A number out of bounds is logged and ignored.
SetFrameUsed(n) ==
  IF n < pmm_frames_max
  THEN /\ pmm_memory_bitmap' = pmm_memory_bitmap \cup {n}
       /\ pmm_frames_used' = pmm_frames_used + 1
  ELSE UNCHANGED <<pmm_memory_bitmap, pmm_frames_used>>

\* Mutant: the counter only ever goes up.
SetFrameFreeUncounted(n) ==
  /\ pmm_memory_bitmap' = pmm_memory_bitmap \ {n}
  /\ UNCHANGED pmm_frames_used

SetFrameFree(n) ==
  IF n < pmm_frames_max
  THEN /\ pmm_memory_bitmap' = pmm_memory_bitmap \ {n}
       /\ pmm_frames_used' = pmm_frames_used - 1
  ELSE UNCHANGED <<pmm_memory_bitmap, pmm_frames_used>>

AllocFrame ==
  \E n \in (0 .. pmm_frames_max + WORD_BITS) \cup {NO_FRAME} :
    /\ IsFirstFree(n)
    /\ SetFrameUsed(n)
    /\ result' = AddressOf(n)
    /\ held' = held \cup {AddressOf(n)}
    /\ UNCHANGED <<pmm_memory_start, pmm_frames_max>>

DeallocFrame(a) ==
  /\ a \in held
  /\ SetFrameFree(FrameOf(a))
  /\ held' = held \ {a}
  /\ UNCHANGED <<pmm_memory_start, pmm_frames_max, result>>

Next ==
  \/ \E r \in Ranges : SetMemoryRange(r)
  \/ AllocFrame
  \/ \E a \in held : DeallocFrame(a)

Spec == Init /\ [][Next]_vars

(***************************************************************************)
(* Safety.                                                                 *)
(***************************************************************************)

\* The address pmm_alloc_frame returns when nothing is left: the frame in
\* front of the managed range, the last one of the kernel's image.
Exhausted == AddressOf(NO_FRAME)

\* The bitmap knows exactly the frames clients hold, so a frame is never
\* granted twice, nor withheld after it came back.
BitmapMatchesHeld ==
  held \ {Exhausted} = {AddressOf(n) : n \in pmm_memory_bitmap}

\* The counter printed by pmm_print counts the bits that are set, although
\* neither setter looks at the old value of the bit.
CounterMatchesBitmap == pmm_frames_used = Cardinality(pmm_memory_bitmap)

\* The frames a range may hold.
FrameAddresses == UNION {r[1] .. r[1] + r[2] - 1 : r \in Ranges}

\* Every step, of every client, is one of the pool's; the frames of an
\* incomplete last word are not part of the pool.
Pool == INSTANCE FramePool WITH
          Frames <- FrameAddresses, Refused <- ADDRESS_FRAMES, Nothing <- Never,
          free <- {AddressOf(n) : n \in FreeFrames},
          held <- held \ {Exhausted},
          answer <- IF result = Exhausted THEN ADDRESS_FRAMES ELSE result

PoolImplemented == Pool!Spec

=============================================================================
