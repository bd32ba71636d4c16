------------------------ MODULE VirtualMemoryProofs ------------------------
(***************************************************************************)
(* The heap and the page directories have frames of their own, for every   *)
(* memory map, heap size and word size.  The argument: nothing is given    *)
(* back, so the bitmap is always 0 .. pmm_frames_used - 1 and a grant is   *)
(* the next frame; vmm_init therefore gets the first HEAP_PAGES + 1 of the *)
(* range, and those are the frames heap_start_vaddr maps to.               *)
(***************************************************************************)
EXTENDS VirtualMemory, TLAPS

used == pmm_frames_used

\* The range is that of the last region before `entry' that fits, if any does.
RangeInv ==
  \/ /\ pmm_memory_start = 0 /\ pmm_frames_max = 0
     /\ \A i \in 1 .. entry - 1 : ~HoldsKernelEnd(mmap[i])
  \/ /\ pmm_memory_start = KERNEL_PHYS_END
     /\ \E i \in 1 .. entry - 1 :
          /\ HoldsKernelEnd(mmap[i])
          /\ pmm_frames_max = mmap[i].addr + mmap[i].len - KERNEL_PHYS_END
          /\ \A j \in i + 1 .. entry - 1 : ~HoldsKernelEnd(mmap[j])

\* The map, and what multiboot_parse has made of it.
MapInv ==
  /\ mmap \in Seq(Regions) /\ entry \in 1 .. Len(mmap) + 1
  /\ \A i \in 1 .. Len(mmap) :
       HoldsKernelEnd(mmap[i]) => mmap[i].addr + mmap[i].len <= ADDRESS_FRAMES
  /\ RangeInv

\* The state of the physical memory manager under this client.
PoolInv ==
  /\ pmm_frames_max \in Nat /\ used \in Nat /\ used <= pmm_frames_max
  /\ \/ pmm_memory_start = KERNEL_PHYS_END /\ pmm_frames_max <= ADDRESS_FRAMES - KERNEL_PHYS_END
     \/ pmm_memory_start = 0 /\ pmm_frames_max = 0
  /\ pmm_memory_bitmap = 0 .. used - 1
  /\ held \ {P!Exhausted} = pmm_memory_start .. pmm_memory_start + used - 1
  /\ P!Exhausted \in held => P!FreeFrames = {}
  /\ result \in Frames \/ result = Never

\* Nothing has been handed out.
NothingUsed ==
  /\ result = Never /\ held = {} /\ used = 0
  /\ page_index = 0 /\ vmm_kernel_pd = NoDirectory /\ heap = {}
  /\ cr3 = [t \in UserTasks |-> NoDirectory] /\ created = {}

\* Inside the loop of vmm_init.
HeapPagesInv ==
  /\ pmm_memory_start = KERNEL_PHYS_END /\ vmm_kernel_pd = KERNEL_PHYS_END
  /\ used >= 1 /\ heap = {}
  /\ cr3 = [t \in UserTasks |-> NoDirectory] /\ created = {}
  /\ NeverExhausted => used = page_index + 1

\* A user task's directory lies behind the heap.
RunningInv ==
  /\ pmm_memory_start = KERNEL_PHYS_END /\ vmm_kernel_pd = KERNEL_PHYS_END
  /\ used >= 1
  /\ heap = HeapStart .. HeapStart + HEAP_PAGES - 1
  /\ NeverExhausted => used >= HEAP_PAGES + 1
  /\ \A t \in UserTasks :
       \/ cr3[t] = NoDirectory
       \/ cr3[t] \in HeapStart + HEAP_PAGES .. KERNEL_PHYS_END + used - 1
  /\ \A t, u \in UserTasks : cr3[t] = cr3[u] => t = u \/ cr3[t] = NoDirectory

OverwrittenInv == P!Exhausted \in held /\ heap \cap Directories = {}

StageInv ==
  /\ stage \in {"multiboot_parse", "vmm_init", "heap_pages", "running", "overwritten"}
  /\ page_index \in 0 .. HEAP_PAGES
  /\ vmm_kernel_pd \in Frames \cup {NoDirectory}
  /\ heap \subseteq Frames
  /\ cr3 \in [UserTasks -> Frames \cup {NoDirectory}]
  /\ created \subseteq UserTasks
  /\ stage \in {"multiboot_parse", "vmm_init"} => NothingUsed
  /\ stage # "multiboot_parse" => entry = Len(mmap) + 1
  /\ stage = "heap_pages" => HeapPagesInv
  /\ stage = "running" => RunningInv
  /\ stage = "overwritten" => OverwrittenInv

IInv == MapInv /\ PoolInv /\ StageInv

\* Division by the word size is monotone.
LEMMA DivMonotone ==
  ASSUME NEW w \in Nat \ {0}, NEW m \in Nat, NEW n \in Nat, m <= n
  PROVE  m \div w <= n \div w
OBVIOUS

\* The constants, in the form the proofs use.
LEMMA Constants ==
  /\ WORD_BITS \in Nat \ {0} /\ ADDRESS_FRAMES \in Nat
  /\ KERNEL_PHYS_END \in 2 .. ADDRESS_FRAMES - 1
  /\ HEAP_PAGES \in Nat \ {0}
  /\ KERNEL_PHYS_END + HEAP_PAGES < ADDRESS_FRAMES - 1
  /\ NoDirectory \notin Frames /\ Never \notin Frames
  /\ P!NO_FRAME = ADDRESS_FRAMES - 1
BY VirtualMemoryAssumption DEF Frames, P!NO_FRAME

\* The answer to a request that cannot be met.
LEMMA ExhaustedFacts ==
  ASSUME PoolInv
  PROVE  /\ P!Exhausted \in Frames
         /\ P!Exhausted = IF pmm_memory_start = 0 THEN ADDRESS_FRAMES - 1
                                                  ELSE KERNEL_PHYS_END - 1
         /\ P!AddressOf(P!NO_FRAME) = P!Exhausted
         /\ \A n \in 0 .. pmm_frames_max - 1 :
              P!AddressOf(n) = pmm_memory_start + n /\ P!AddressOf(n) \in Frames
BY Constants DEF PoolInv, P!Exhausted, P!AddressOf, P!Wrap, Frames

\* With a bitmap without holes the first free frame is the next one.
LEMMA FirstFreeIsNext ==
  ASSUME PoolInv, NEW n, P!IsFirstFree(n)
  PROVE  \/ P!FreeFrames = {} /\ n = P!NO_FRAME
         \/ P!FreeFrames # {} /\ n = used /\ n < pmm_frames_max
<1>1. CASE P!FreeFrames = {}
  BY <1>1 DEF P!IsFirstFree
<1>2. CASE P!FreeFrames # {}
  <2>1. n \in P!FreeFrames /\ \A m \in P!FreeFrames : n <= m
    BY <1>2 DEF P!IsFirstFree
  <2>2. n \in Nat /\ n >= used /\ n \div WORD_BITS < pmm_frames_max \div WORD_BITS
    BY <2>1, Constants DEF PoolInv, P!FreeFrames, P!Scanned
  <2>3. n < pmm_frames_max
    <3>1. pmm_frames_max <= n => pmm_frames_max \div WORD_BITS <= n \div WORD_BITS
      BY <2>2, DivMonotone, Constants DEF PoolInv
    <3>2. n \div WORD_BITS \in Int /\ pmm_frames_max \div WORD_BITS \in Int
      BY <2>2, Constants DEF PoolInv
    <3> QED BY <2>2, <3>1, <3>2 DEF PoolInv
  <2>4. used \div WORD_BITS <= n \div WORD_BITS
    BY <2>2, DivMonotone, Constants DEF PoolInv
  <2>5. used \in P!FreeFrames
    <3>1. used \div WORD_BITS \in Int /\ n \div WORD_BITS \in Int /\ pmm_frames_max \div WORD_BITS \in Int
      BY <2>2, Constants DEF PoolInv
    <3>2. P!Scanned(used)
      BY <2>2, <2>4, <3>1 DEF P!Scanned
    <3> QED BY <3>2, Constants DEF PoolInv, P!FreeFrames
  <2> QED BY <1>2, <2>1, <2>2, <2>3, <2>5 DEF PoolInv
<1> QED BY <1>1, <1>2

\* What a call of pmm_alloc_frame does here.
Refused ==
  /\ result' = P!Exhausted /\ held' = held \cup {P!Exhausted}
  /\ P!FreeFrames = {}
  /\ UNCHANGED <<pmm_memory_start, pmm_frames_max, pmm_memory_bitmap, pmm_frames_used>>

Granted ==
  /\ NeverExhausted /\ used < pmm_frames_max
  /\ result' = pmm_memory_start + used /\ held' = held \cup {pmm_memory_start + used}
  /\ pmm_memory_bitmap' = 0 .. used /\ used' = used + 1
  /\ UNCHANGED <<pmm_memory_start, pmm_frames_max>>

LEMMA AllocCases == ASSUME PoolInv, P!AllocFrame PROVE Refused \/ Granted
<1>1. PICK n \in (0 .. pmm_frames_max + WORD_BITS) \cup {P!NO_FRAME} :
        /\ P!IsFirstFree(n) /\ P!SetFrameUsed(n)
        /\ result' = P!AddressOf(n) /\ held' = held \cup {P!AddressOf(n)}
        /\ UNCHANGED <<pmm_memory_start, pmm_frames_max>>
  BY DEF P!AllocFrame
<1>2. CASE P!FreeFrames = {} /\ n = P!NO_FRAME
  <2>1. ~(n < pmm_frames_max)
    BY <1>2, Constants DEF PoolInv
  <2> QED BY <1>1, <1>2, <2>1, ExhaustedFacts DEF P!SetFrameUsed, Refused
<1>3. CASE P!FreeFrames # {} /\ n = used /\ n < pmm_frames_max
  <2>1. P!AddressOf(n) = pmm_memory_start + used
    BY <1>3, ExhaustedFacts DEF PoolInv
  <2>2. /\ pmm_memory_bitmap' = pmm_memory_bitmap \cup {n}
        /\ used' = used + 1
    BY <1>1, <1>3 DEF P!SetFrameUsed, used
  <2>3. pmm_memory_bitmap' = 0 .. used
    BY <2>2, <1>3 DEF PoolInv
  <2>4. NeverExhausted
    BY <1>3 DEF PoolInv, NeverExhausted
  <2> QED BY <1>1, <1>3, <2>1, <2>2, <2>3, <2>4 DEF Granted
<1> QED BY <1>1, <1>2, <1>3, FirstFreeIsNext

LEMMA AllocPreservesPool ==
  ASSUME PoolInv, P!AllocFrame
  PROVE  /\ PoolInv'
         /\ P!Exhausted' = P!Exhausted
         /\ result' \in Frames
        /\ UNCHANGED <<pmm_memory_start, pmm_frames_max>>
<1>1. P!Exhausted' = P!Exhausted /\ pmm_frames_max' = pmm_frames_max /\ pmm_memory_start' = pmm_memory_start
  BY AllocCases DEF Refused, Granted, P!Exhausted, P!AddressOf
<1>2. CASE Refused
  <2>1. P!FreeFrames' = P!FreeFrames
    BY <1>2 DEF Refused, P!FreeFrames, P!Scanned
  <2>2. used' = used
    BY <1>2 DEF Refused, used
  <2>3. result' \in Frames
    BY <1>2, ExhaustedFacts DEF Refused
  <2>4. held' \ {P!Exhausted'} = pmm_memory_start' .. pmm_memory_start' + used' - 1
    BY <1>1, <1>2, <2>2 DEF Refused, PoolInv
  <2> QED BY <1>1, <1>2, <2>1, <2>2, <2>3, <2>4 DEF Refused, PoolInv
<1>3. CASE Granted
  <2>1. result' \in Frames /\ pmm_memory_start + used # P!Exhausted
    BY <1>3, ExhaustedFacts, Constants DEF Granted, PoolInv, Frames
  <2>2. P!Exhausted \notin held'
    BY <1>3, <2>1 DEF Granted, NeverExhausted
  <2>3. held' \ {P!Exhausted'} = pmm_memory_start' .. pmm_memory_start' + used' - 1
    <3>1. held = pmm_memory_start .. pmm_memory_start + used - 1
      BY <1>3 DEF Granted, NeverExhausted, PoolInv
    <3>2. held' = pmm_memory_start .. pmm_memory_start + used
      BY <1>3, <3>1, Constants DEF Granted, PoolInv
    <3> QED BY <1>1, <1>3, <2>2, <3>2 DEF Granted, PoolInv
  <2> QED BY <1>1, <1>3, <2>1, <2>2, <2>3 DEF Granted, PoolInv
<1> QED BY <1>1, <1>2, <1>3, AllocCases

LEMMA InitIInv == Init => IInv
<1> SUFFICES ASSUME Init PROVE IInv
  OBVIOUS
<1>1. MapInv
  <2>1. pmm_memory_start = 0 /\ pmm_frames_max = 0 /\ entry = 1
    BY DEF Init, P!Init
  <2>2. RangeInv
    BY <2>1 DEF RangeInv
  <2> QED BY <2>1, <2>2, VirtualMemoryAssumption DEF Init, MapInv
<1>2. PoolInv
  BY Constants, ExhaustedFacts DEF Init, P!Init, PoolInv, used
<1>3. StageInv
  BY Constants DEF Init, P!Init, StageInv, NothingUsed, used
<1> QED BY <1>1, <1>2, <1>3 DEF IInv

LEMMA ParseEntryStep == ASSUME IInv, ParseEntry PROVE IInv'
<1> DEFINE e == mmap[entry]
<1>1. /\ mmap \in Seq(Regions) /\ entry \in 1 .. Len(mmap) /\ Len(mmap) \in Nat
      /\ stage = "multiboot_parse" /\ mmap' = mmap /\ entry' = entry + 1
      /\ e \in Regions
  <2>1. mmap \in Seq(Regions) /\ entry \in 1 .. Len(mmap)
    BY DEF IInv, MapInv, ParseEntry
  <2> QED BY <2>1 DEF ParseEntry
<1>2. NothingUsed /\ PoolInv /\ MapInv /\ RangeInv
  BY <1>1 DEF IInv, StageInv, MapInv
<1>3. entry' \in 1 .. Len(mmap') + 1
  BY <1>1
<1>4. CASE HoldsKernelEnd(e)
  <2>1. /\ pmm_memory_start' = KERNEL_PHYS_END
        /\ pmm_frames_max' = e.addr + e.len - KERNEL_PHYS_END
        /\ UNCHANGED <<pmm_memory_bitmap, pmm_frames_used, held, result>>
    BY <1>4 DEF ParseEntry, P!SetMemoryRange, RangeOf
  <2>2. /\ pmm_frames_max' \in Nat
        /\ pmm_frames_max' <= ADDRESS_FRAMES - KERNEL_PHYS_END
    <3>1. e.addr \in Nat /\ e.len \in Nat
      BY <1>1, Constants DEF Regions
    <3>2. e.addr + e.len >= KERNEL_PHYS_END
      BY <1>4 DEF HoldsKernelEnd
    <3>3. e.addr + e.len <= ADDRESS_FRAMES
      BY <1>1, <1>2, <1>4 DEF MapInv
    <3> HIDE DEF e
    <3> QED BY <2>1, <3>1, <3>2, <3>3, Constants
  <2>3. used' = 0 /\ held' = {} /\ result' = Never /\ pmm_memory_bitmap' = {}
    BY <2>1, <1>2 DEF NothingUsed, PoolInv, used
  <2>4. PoolInv'
    BY <2>1, <2>2, <2>3, Constants DEF PoolInv
  <2>5. StageInv'
    BY <1>1, <1>2, <2>3 DEF IInv, StageInv, ParseEntry, NothingUsed
  <2>6. RangeInv'
    <3>1. entry \in 1 .. entry' - 1 /\ \A j \in entry + 1 .. entry' - 1 : FALSE
      BY <1>1
    <3> QED BY <1>1, <1>4, <2>1, <3>1 DEF RangeInv, HoldsKernelEnd
  <2> QED BY <1>1, <1>2, <1>3, <2>4, <2>5, <2>6 DEF IInv, MapInv, HoldsKernelEnd
<1>5. CASE ~HoldsKernelEnd(e)
  <2>1. UNCHANGED pmm
    BY <1>5 DEF ParseEntry
  <2>2. PoolInv'
    BY <2>1, <1>2 DEF PoolInv, pmm, used, P!Exhausted, P!AddressOf, P!FreeFrames, P!Scanned
  <2>3. StageInv'
    BY <1>1, <1>2, <2>1 DEF IInv, StageInv, ParseEntry, NothingUsed, pmm, used
  <2>4. RangeInv'
    <3>1. \A j \in 1 .. entry' - 1 : j \in 1 .. entry - 1 \/ j = entry
      BY <1>1
    <3>2. \A i \in 1 .. entry - 1 : i \in 1 .. entry' - 1
      BY <1>1
    <3>3. \A i \in 1 .. entry - 1 : \A j \in i + 1 .. entry' - 1 : j \in i + 1 .. entry - 1 \/ j = entry
      BY <1>1
    <3>4. \A i : HoldsKernelEnd(mmap[i])' <=> HoldsKernelEnd(mmap[i])
      BY <1>1 DEF HoldsKernelEnd
    <3> QED BY <1>1, <1>2, <1>5, <2>1, <3>1, <3>2, <3>3 DEF RangeInv, pmm, HoldsKernelEnd
  <2> QED BY <1>1, <1>2, <1>3, <2>2, <2>3, <2>4 DEF IInv, MapInv, HoldsKernelEnd
<1> QED BY <1>4, <1>5

\* Steps that leave the physical memory manager alone.
LEMMA PoolUnchanged ==
  ASSUME PoolInv, UNCHANGED pmm
  PROVE  /\ PoolInv' /\ used' = used /\ P!Exhausted' = P!Exhausted
         /\ NeverExhausted' = NeverExhausted
         /\ UNCHANGED <<pmm_memory_start, pmm_frames_max>>
BY DEF PoolInv, pmm, used, P!Exhausted, P!AddressOf, P!FreeFrames, P!Scanned, NeverExhausted

LEMMA RegionTyped ==
  ASSUME MapInv, NEW i \in 1 .. Len(mmap)
  PROVE  mmap[i].addr \in Nat /\ mmap[i].len \in Nat
<1>1. mmap[i] \in Regions
  BY DEF MapInv
<1> QED BY <1>1, Constants DEF Regions

LEMMA MapUnchanged ==
  ASSUME MapInv, UNCHANGED <<mmap, entry, pmm_memory_start, pmm_frames_max>>
  PROVE  MapInv'
BY DEF MapInv, RangeInv, HoldsKernelEnd

LEMMA ParseEndStep == ASSUME IInv, ParseEnd PROVE IInv'
<1>1. PoolInv' /\ used' = used /\ MapInv'
  BY PoolUnchanged, MapUnchanged DEF IInv, ParseEnd
<1>2. entry' = Len(mmap') + 1
  <2>1. Len(mmap) \in Nat /\ entry \in 1 .. Len(mmap) + 1 /\ entry > Len(mmap) /\ UNCHANGED <<mmap, entry>>
    BY DEF IInv, MapInv, ParseEnd
  <2> QED BY <2>1
<1>3. StageInv'
  BY <1>1, <1>2 DEF IInv, StageInv, ParseEnd, NothingUsed, pmm
<1> QED BY <1>1, <1>3 DEF IInv

LEMMA KernelDirectoryStep == ASSUME IInv, KernelDirectory PROVE IInv'
<1>1. /\ stage = "vmm_init" /\ P!AllocFrame /\ vmm_kernel_pd' = result' /\ NothingUsed
      /\ UNCHANGED <<mmap, entry, page_index, heap, cr3, created>> /\ PoolInv
      /\ stage' = IF result' = P!Exhausted THEN "overwritten" ELSE "heap_pages"
  BY DEF IInv, StageInv, KernelDirectory, DirectoryWritten
<1>2. PoolInv' /\ P!Exhausted' = P!Exhausted /\ result' \in Frames /\ MapInv'
  BY <1>1, AllocPreservesPool, MapUnchanged DEF IInv
<1>3. CASE Refused
  <2>1. stage' = "overwritten" /\ P!Exhausted' \in held' /\ heap' = {}
    BY <1>1, <1>2, <1>3 DEF Refused, NothingUsed
  <2> QED BY <1>1, <1>2, <2>1 DEF IInv, StageInv, OverwrittenInv, NothingUsed
<1>4. CASE Granted
  <2>1. /\ used' = 1 /\ result' = pmm_memory_start /\ pmm_frames_max > 0
        /\ pmm_memory_start' = pmm_memory_start
    BY <1>1, <1>4, Constants DEF Granted, NothingUsed, PoolInv
  <2>2. pmm_memory_start = KERNEL_PHYS_END /\ result' # P!Exhausted
    BY <2>1, <1>1, ExhaustedFacts, Constants DEF PoolInv
  <2>3. HeapPagesInv'
    BY <1>1, <2>1, <2>2 DEF HeapPagesInv, NothingUsed
  <2> QED BY <1>1, <1>2, <2>2, <2>3 DEF IInv, StageInv, NothingUsed
<1> QED BY <1>1, <1>3, <1>4, AllocCases

LEMMA HeapPageStep == ASSUME IInv, HeapPage PROVE IInv'
<1>1. /\ stage = "heap_pages" /\ P!AllocFrame /\ page_index < HEAP_PAGES
      /\ page_index' = page_index + 1 /\ HeapPagesInv /\ PoolInv
      /\ UNCHANGED <<mmap, entry, stage, vmm_kernel_pd, heap, cr3, created>>
  BY DEF IInv, StageInv, HeapPage
<1>2. PoolInv' /\ P!Exhausted' = P!Exhausted /\ MapInv'
  BY <1>1, AllocPreservesPool, MapUnchanged DEF IInv
<1>3. HeapPagesInv'
  <2>1. CASE Refused
    BY <1>1, <1>2, <2>1 DEF Refused, HeapPagesInv, NeverExhausted, used
  <2>2. CASE Granted
    BY <1>1, <1>2, <2>2 DEF Granted, HeapPagesInv, NeverExhausted, PoolInv
  <2> QED BY <1>1, <2>1, <2>2, AllocCases
<1>4. page_index' \in 0 .. HEAP_PAGES
  BY <1>1, Constants DEF IInv, StageInv
<1> QED BY <1>1, <1>2, <1>3, <1>4 DEF IInv, StageInv

LEMMA HeapInitStep == ASSUME IInv, HeapInit PROVE IInv'
<1>1. /\ stage = "heap_pages" /\ page_index = HEAP_PAGES /\ stage' = "running"
      /\ heap' = HeapStart .. HeapStart + HEAP_PAGES - 1 /\ HeapPagesInv /\ PoolInv
      /\ UNCHANGED <<pmm, mmap, entry, page_index, vmm_kernel_pd, cr3, created>>
  BY DEF IInv, StageInv, HeapInit
<1>2. /\ PoolInv' /\ used' = used /\ NeverExhausted' = NeverExhausted /\ MapInv'
      /\ pmm_memory_start' = pmm_memory_start
  BY <1>1, PoolUnchanged, MapUnchanged DEF IInv, pmm
<1>3. heap' \subseteq Frames
  BY <1>1, Constants DEF HeapStart, Frames
<1>4. \A t \in UserTasks : cr3'[t] = NoDirectory
  BY <1>1 DEF HeapPagesInv
<1>5. RunningInv'
  BY <1>1, <1>2, <1>4, Constants DEF RunningInv, HeapPagesInv
<1> QED BY <1>1, <1>2, <1>3, <1>5 DEF IInv, StageInv

LEMMA CreateUserTaskStep ==
  ASSUME IInv, NEW t \in UserTasks, CreateUserTask(t) PROVE IInv'
<1>1. /\ stage = "running" /\ P!AllocFrame /\ RunningInv /\ PoolInv
      /\ cr3' = [cr3 EXCEPT ![t] = result'] /\ created' = created \cup {t}
      /\ UNCHANGED <<mmap, entry, page_index, vmm_kernel_pd, heap>>
      /\ stage' = IF result' = P!Exhausted THEN "overwritten" ELSE "running"
  BY DEF IInv, StageInv, CreateUserTask, DirectoryWritten
<1>2. PoolInv' /\ P!Exhausted' = P!Exhausted /\ MapInv' /\ result' \in Frames
  BY <1>1, AllocPreservesPool, MapUnchanged DEF IInv
<1>3. cr3' \in [UserTasks -> Frames \cup {NoDirectory}] /\ created' \subseteq UserTasks
  BY <1>1, <1>2 DEF IInv, StageInv
<1>4. \A u \in UserTasks : cr3'[u] = IF u = t THEN result' ELSE cr3[u]
  BY <1>1 DEF IInv, StageInv
<1>5. CASE Refused
  <2>1. stage' = "overwritten" /\ P!Exhausted' \in held' /\ P!Exhausted = KERNEL_PHYS_END - 1
    BY <1>1, <1>2, <1>5, ExhaustedFacts, Constants DEF Refused, RunningInv
  <2>2. heap' \cap Directories' = {}
    <3>1. \A d \in heap : d \in Nat /\ d > KERNEL_PHYS_END /\ d < HeapStart + HEAP_PAGES
      BY <1>1, Constants DEF RunningInv, HeapStart
    <3>2. vmm_kernel_pd' \notin heap'
      BY <1>1, <3>1, Constants DEF RunningInv
    <3>3. \A u \in UserTasks : cr3'[u] \notin heap'
      <4> SUFFICES ASSUME NEW u \in UserTasks, cr3'[u] \in heap PROVE FALSE
        BY <1>1
      <4>1. CASE u = t
        BY <1>4, <2>1, <3>1, <1>5, <4>1, Constants DEF Refused
      <4>2. CASE u # t
        <5>1. cr3[u] \in heap
          BY <1>4, <4>2
        <5>2. cr3[u] # NoDirectory
          BY <5>1, Constants DEF IInv, StageInv
        <5> QED BY <1>1, <5>1, <5>2, <3>1, Constants DEF RunningInv, PoolInv, HeapStart
      <4> QED BY <4>1, <4>2
    <3> QED BY <3>2, <3>3 DEF Directories
  <2> QED BY <1>1, <1>2, <1>3, <2>1, <2>2 DEF IInv, StageInv, OverwrittenInv
<1>6. CASE Granted
  <2>1. /\ result' = KERNEL_PHYS_END + used /\ used' = used + 1 /\ used \in Nat
        /\ used >= HEAP_PAGES + 1 /\ pmm_memory_start' = KERNEL_PHYS_END
    BY <1>1, <1>6 DEF Granted, RunningInv, PoolInv
  <2>2. result' # P!Exhausted /\ stage' = "running"
    BY <1>1, <2>1, ExhaustedFacts, Constants DEF RunningInv
  <2>3. \A u \in UserTasks :
          \/ cr3'[u] = NoDirectory
          \/ cr3'[u] \in HeapStart + HEAP_PAGES .. KERNEL_PHYS_END + used' - 1
    <3>1. result' \in HeapStart + HEAP_PAGES .. KERNEL_PHYS_END + used' - 1
      BY <2>1, Constants DEF HeapStart
    <3> QED BY <1>1, <1>4, <2>1, <3>1, Constants DEF RunningInv, HeapStart
  <2>4. \A u, v \in UserTasks : cr3'[u] = cr3'[v] => u = v \/ cr3'[u] = NoDirectory
    <3>1. \A u \in UserTasks : cr3[u] # result'
      <4>1. result' # NoDirectory
        BY <1>2, Constants
      <4> QED BY <1>1, <2>1, <4>1, Constants DEF RunningInv
    <3> QED BY <1>1, <1>4, <3>1 DEF RunningInv
  <2>5. RunningInv'
    BY <1>1, <2>1, <2>3, <2>4, Constants DEF RunningInv
  <2> QED BY <1>1, <1>2, <1>3, <2>2, <2>5 DEF IInv, StageInv
<1> QED BY <1>1, <1>5, <1>6, AllocCases

LEMMA CreateKernelTaskStep ==
  ASSUME IInv, NEW t \in UserTasks, CreateKernelTask(t) PROVE IInv'
<1>1. PoolInv' /\ used' = used /\ NeverExhausted' = NeverExhausted /\ MapInv'
  BY PoolUnchanged, MapUnchanged DEF IInv, CreateKernelTask
<1>2. RunningInv'
  BY <1>1 DEF IInv, StageInv, CreateKernelTask, RunningInv, pmm
<1> QED BY <1>1, <1>2 DEF IInv, StageInv, CreateKernelTask

LEMMA PurgeTaskStep ==
  ASSUME IInv, NEW t \in UserTasks, PurgeTask(t) PROVE IInv'
<1>1. PoolInv' /\ used' = used /\ NeverExhausted' = NeverExhausted /\ MapInv'
  BY PoolUnchanged, MapUnchanged DEF IInv, PurgeTask
<1>2. \A u \in UserTasks : cr3'[u] = IF u = t THEN NoDirectory ELSE cr3[u]
  BY DEF IInv, StageInv, PurgeTask
<1>3. RunningInv'
  BY <1>1, <1>2 DEF IInv, StageInv, PurgeTask, RunningInv, pmm
<1>4. cr3' \in [UserTasks -> Frames \cup {NoDirectory}]
  BY DEF IInv, StageInv, PurgeTask
<1> QED BY <1>1, <1>3, <1>4 DEF IInv, StageInv, PurgeTask

LEMMA Inductive == IInv /\ [Next]_vars => IInv'
<1> SUFFICES ASSUME IInv, [Next]_vars PROVE IInv'
  OBVIOUS
<1>1. CASE ParseEntry
  BY <1>1, ParseEntryStep
<1>2. CASE ParseEnd
  BY <1>2, ParseEndStep
<1>3. CASE KernelDirectory
  BY <1>3, KernelDirectoryStep
<1>4. CASE HeapPage
  BY <1>4, HeapPageStep
<1>5. CASE HeapInit
  BY <1>5, HeapInitStep
<1>6. ASSUME NEW t \in UserTasks, CreateUserTask(t) PROVE IInv'
  BY <1>6, CreateUserTaskStep
<1>7. ASSUME NEW t \in UserTasks, CreateKernelTask(t) PROVE IInv'
  BY <1>7, CreateKernelTaskStep
<1>8. ASSUME NEW t \in UserTasks, PurgeTask(t) PROVE IInv'
  BY <1>8, PurgeTaskStep
<1>9. CASE UNCHANGED vars
  <2>1. PoolInv' /\ used' = used /\ P!Exhausted' = P!Exhausted /\ NeverExhausted' = NeverExhausted /\ MapInv'
    BY <1>9, PoolUnchanged, MapUnchanged DEF IInv, vars
  <2>2. StageInv'
    BY <1>9, <2>1 DEF IInv, StageInv, vars, pmm, NothingUsed, HeapPagesInv, RunningInv,
                      OverwrittenInv, Directories
  <2> QED BY <2>1, <2>2 DEF IInv
<1> QED BY <1>1, <1>2, <1>3, <1>4, <1>5, <1>6, <1>7, <1>8, <1>9 DEF Next

LEMMA Invariance == Spec => []IInv
<1>1. Init => IInv
  BY InitIInv
<1>2. IInv /\ [Next]_vars => IInv'
  BY Inductive
<1> QED BY <1>1, <1>2, PTL DEF Spec

\* The variables keep their types, those of the physical memory manager
\* under this client included.
THEOREM TypeCorrect == Spec => []TypeOK
<1>1. IInv => TypeOK
  <2> SUFFICES ASSUME IInv PROVE TypeOK
    OBVIOUS
  <2>1. /\ pmm_memory_start \in Nat /\ pmm_memory_start + pmm_frames_max <= ADDRESS_FRAMES
        /\ pmm_memory_start < ADDRESS_FRAMES
        /\ pmm_frames_max \in Nat /\ used \in Nat /\ used <= pmm_frames_max
    BY Constants DEF IInv, PoolInv
  <2>2. held \subseteq Frames
    <3>1. held \ {P!Exhausted} \subseteq Frames
      BY <2>1, Constants DEF IInv, PoolInv, Frames
    <3>2. P!Exhausted \in Frames
      BY ExhaustedFacts DEF IInv
    <3> QED BY <3>1, <3>2
  <2>3. P!TypeOK
    BY <2>1, <2>2, Constants DEF IInv, PoolInv, P!TypeOK, P!Addresses, Frames, used
  <2> QED BY <2>3 DEF IInv, MapInv, StageInv, TypeOK
<1> QED BY <1>1, Invariance, PTL

\* vmm_init and the heap agree on the heap's memory although neither tells
\* the other: the frames behind heap_start_vaddr are nobody's page directory
\* and, unless memory ran out, all granted to vmm_init.
THEOREM HeapHasItsMemory == Spec => []HeapIsReserved
<1>1. IInv => HeapIsReserved
  <2> SUFFICES ASSUME IInv PROVE HeapIsReserved
    OBVIOUS
  <2>1. CASE stage = "running"
    <3>1. RunningInv /\ PoolInv
      BY <2>1 DEF IInv, StageInv
    <3>2. \A d \in heap : d \in Nat /\ d > KERNEL_PHYS_END /\ d < HeapStart + HEAP_PAGES
      BY <3>1, Constants DEF RunningInv, HeapStart
    <3>3. vmm_kernel_pd \notin heap
      BY <3>1, <3>2, Constants DEF RunningInv
    <3>4. ASSUME NEW t \in UserTasks, cr3[t] \in heap PROVE FALSE
      <4>1. cr3[t] # NoDirectory
        BY <3>4, Constants DEF IInv, StageInv
      <4> QED BY <3>1, <3>2, <3>4, <4>1, Constants DEF RunningInv, PoolInv, HeapStart
    <3>5. NeverExhausted => heap \subseteq held
      <4> SUFFICES ASSUME NeverExhausted, NEW d \in heap PROVE d \in held
        OBVIOUS
      <4>1. d \in KERNEL_PHYS_END .. KERNEL_PHYS_END + used - 1
        BY <3>1, <3>2, Constants DEF RunningInv, PoolInv, HeapStart
      <4> QED BY <3>1, <4>1 DEF RunningInv, PoolInv
    <3> QED BY <3>3, <3>4, <3>5 DEF HeapIsReserved, Directories
  <2>2. CASE stage = "overwritten"
    BY <2>2 DEF IInv, StageInv, OverwrittenInv, HeapIsReserved, NeverExhausted
  <2>3. CASE stage \notin {"running", "overwritten"}
    BY <2>3 DEF IInv, StageInv, NothingUsed, HeapPagesInv, HeapIsReserved
  <2> QED BY <2>1, <2>2, <2>3
<1> QED BY <1>1, Invariance, PTL

\* No two tasks, and no task and the kernel, share a page directory, and no
\* directory lies in the kernel's image, unless memory ran out.
THEOREM DirectoriesOwned == Spec => []DirectoriesAreOwn
<1>1. IInv => DirectoriesAreOwn
  <2> SUFFICES ASSUME IInv, NeverExhausted PROVE DirectoriesAreOwn
    BY DEF DirectoriesAreOwn
  <2>1. CASE stage = "running"
    <3>1. RunningInv /\ PoolInv
      BY <2>1 DEF IInv, StageInv
    <3>2. held = KERNEL_PHYS_END .. KERNEL_PHYS_END + used - 1 /\ used \in Nat /\ used >= 1
      BY <3>1 DEF RunningInv, PoolInv, NeverExhausted
    <3>3. \A t \in UserTasks : cr3[t] # vmm_kernel_pd
      BY <3>1, <3>2, Constants DEF RunningInv, HeapStart, Frames
    <3>4. \A d \in Directories : d \in held /\ d >= KERNEL_PHYS_END
      BY <3>1, <3>2, Constants DEF RunningInv, HeapStart, Directories
    <3> QED BY <3>1, <3>3, <3>4 DEF DirectoriesAreOwn, RunningInv
  <2>2. CASE stage = "heap_pages"
    <3>1. /\ vmm_kernel_pd = KERNEL_PHYS_END /\ \A t \in UserTasks : cr3[t] = NoDirectory
          /\ KERNEL_PHYS_END \in held
      BY <2>2, Constants DEF IInv, StageInv, HeapPagesInv, PoolInv
    <3> QED BY <3>1, Constants DEF DirectoriesAreOwn, Directories, Frames
  <2>3. CASE stage \in {"multiboot_parse", "vmm_init"}
    BY <2>3 DEF IInv, StageInv, NothingUsed, DirectoriesAreOwn, Directories
  <2>4. stage # "overwritten"
    BY DEF IInv, StageInv, OverwrittenInv, NeverExhausted
  <2> QED BY <2>1, <2>2, <2>3, <2>4 DEF IInv, StageInv
<1> QED BY <1>1, Invariance, PTL

\* What is granted is available memory behind the kernel, for any memory map
\* and any order of its regions (multiboot_parse, pmm_alloc_frame, their
\* callers); a refusal means that the last region that fits is used up.
THEOREM GrantsWithinMemory == Spec => []GrantsAreMemory
<1>1. IInv => GrantsAreMemory
  <2> SUFFICES ASSUME IInv PROVE GrantsAreMemory
    OBVIOUS
  <2>1. MapInv /\ PoolInv /\ RangeInv /\ Len(mmap) \in Nat
    BY DEF IInv, MapInv
  <2>2. ASSUME NEW f \in held \ {P!Exhausted}
        PROVE  \E i \in 1 .. Len(mmap) : mmap[i].available /\ f \in Behind(mmap[i])
    <3>1. /\ f \in pmm_memory_start .. pmm_memory_start + used - 1
          /\ used \in Nat /\ used <= pmm_frames_max
      BY <2>1, <2>2 DEF PoolInv
    <3>2. PICK i \in 1 .. entry - 1 :
            /\ HoldsKernelEnd(mmap[i]) /\ pmm_memory_start = KERNEL_PHYS_END
            /\ pmm_frames_max = mmap[i].addr + mmap[i].len - KERNEL_PHYS_END
      BY <2>1, <3>1 DEF RangeInv
    <3>3. i \in 1 .. Len(mmap) /\ mmap[i].addr \in Nat /\ mmap[i].len \in Nat
      BY <2>1, <3>2, RegionTyped DEF MapInv
    <3>4. mmap[i].addr + mmap[i].len <= ADDRESS_FRAMES
      BY <2>1, <3>2, <3>3 DEF MapInv
    <3>5. f \in Behind(mmap[i])
      <4>1. KERNEL_PHYS_END \in Nat /\ ADDRESS_FRAMES \in Nat
        BY Constants
      <4>2. mmap[i].addr <= KERNEL_PHYS_END
        BY <3>2 DEF HoldsKernelEnd
      <4>3. PICK a \in Nat, n \in Nat : a = mmap[i].addr /\ n = mmap[i].len
        BY <3>3
      <4>4. /\ f \in KERNEL_PHYS_END .. KERNEL_PHYS_END + used - 1
            /\ used <= a + n - KERNEL_PHYS_END /\ a + n <= ADDRESS_FRAMES /\ a <= KERNEL_PHYS_END
        BY <3>1, <3>2, <3>4, <4>2, <4>3
      <4>5. f \in 0 .. ADDRESS_FRAMES - 1 /\ KERNEL_PHYS_END <= f /\ a <= f /\ f < a + n
        BY <3>1, <4>1, <4>4
      <4> QED BY <4>3, <4>5 DEF Behind, Frames
    <3> QED BY <3>2, <3>3, <3>5 DEF HoldsKernelEnd
  <2>3. ASSUME P!Exhausted \in held, NEW i \in 1 .. Len(mmap), IsLastToFit(i),
               NEW f \in Findable(mmap[i])
        PROVE  f \in held
    <3>1. mmap[i].addr \in Nat /\ mmap[i].len \in Nat
      BY <2>1, RegionTyped
    <3>2. HoldsKernelEnd(mmap[i]) /\ \A j \in i + 1 .. Len(mmap) : ~HoldsKernelEnd(mmap[j])
      <4>1. \A j \in 1 .. Len(mmap) : mmap[j].addr \in Nat /\ mmap[j].len \in Nat
        BY <2>1, RegionTyped
      <4>2. \A j \in 1 .. Len(mmap) :
              HoldsKernelEnd(mmap[j]) <=>
                mmap[j].available /\ KERNEL_PHYS_END \in mmap[j].addr .. mmap[j].addr + mmap[j].len
        BY <4>1, Constants DEF HoldsKernelEnd
      <4>3. \A j \in i + 1 .. Len(mmap) : j \in 1 .. Len(mmap)
        OBVIOUS
      <4> QED BY <2>3, <4>2, <4>3 DEF IsLastToFit
    <3>3. stage # "multiboot_parse" /\ entry = Len(mmap) + 1
      BY <2>3 DEF IInv, StageInv, NothingUsed
    <3>4. /\ pmm_memory_start = KERNEL_PHYS_END
          /\ pmm_frames_max = mmap[i].addr + mmap[i].len - KERNEL_PHYS_END
      <4>1. i \in 1 .. entry - 1
        BY <2>1, <3>3
      <4>2. PICK k \in 1 .. entry - 1 :
              /\ HoldsKernelEnd(mmap[k]) /\ pmm_memory_start = KERNEL_PHYS_END
              /\ pmm_frames_max = mmap[k].addr + mmap[k].len - KERNEL_PHYS_END
              /\ \A j \in k + 1 .. entry - 1 : ~HoldsKernelEnd(mmap[j])
        BY <2>1, <3>2, <4>1 DEF RangeInv
      <4>3. i = k \/ i \in k + 1 .. entry - 1 \/ k \in i + 1 .. Len(mmap)
        BY <2>1, <3>3, <4>1
      <4> QED BY <3>2, <4>2, <4>3
    <3>5. /\ f \in Frames /\ KERNEL_PHYS_END <= f /\ f < mmap[i].addr + mmap[i].len
          /\ (f - KERNEL_PHYS_END) \div WORD_BITS < pmm_frames_max \div WORD_BITS
      BY <2>3, <3>4 DEF Findable, Behind
    <3>6. P!FreeFrames = {}
      BY <2>1, <2>3 DEF PoolInv
    <3>7. f - KERNEL_PHYS_END \in pmm_memory_bitmap
      <4> DEFINE n == f - KERNEL_PHYS_END
      <4>1. n \in Nat /\ n < pmm_frames_max
        <5>1. KERNEL_PHYS_END \in Nat /\ f \in Nat
          BY <3>5, Constants DEF Frames
        <5>2. KERNEL_PHYS_END <= f /\ f < mmap[i].addr + mmap[i].len
          BY <3>5
        <5>3. pmm_frames_max = mmap[i].addr + mmap[i].len - KERNEL_PHYS_END
          BY <3>4
        <5> QED BY <3>1, <5>1, <5>2, <5>3
      <4>2. P!Scanned(n)
        BY <3>5 DEF P!Scanned
      <4>3. n \in 0 .. pmm_frames_max + WORD_BITS
        <5> HIDE DEF n
        <5> QED BY <2>1, <4>1, Constants DEF PoolInv
      <4> QED BY <3>6, <4>2, <4>3 DEF P!FreeFrames
    <3>8. f \in KERNEL_PHYS_END .. KERNEL_PHYS_END + used - 1
      <4>1. f - KERNEL_PHYS_END \in 0 .. used - 1 /\ used \in Nat
        BY <2>1, <3>7 DEF PoolInv
      <4> QED BY <3>5, <4>1, Constants DEF Frames
    <3> QED BY <2>1, <3>4, <3>8 DEF PoolInv
  <2> QED BY <2>2, <2>3 DEF GrantsAreMemory
<1> QED BY <1>1, Invariance, PTL
=============================================================================
