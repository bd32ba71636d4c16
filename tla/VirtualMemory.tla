---------------------------- MODULE VirtualMemory ----------------------------
(***************************************************************************)
(* Who uses which physical frame: multiboot_parse tells the physical       *)
(* memory manager its range, vmm_init takes a page directory and the       *)
(* memory of the kernel heap, task_create takes a page directory for every *)
(* user task, and task_purge forgets it.  Addresses are counted in frames. *)
(*                                                                         *)
(* The heap never sees the addresses pmm_alloc_frame returns to vmm_init:  *)
(* it lives at heap_start_vaddr, computed from KERNEL_VIRT_END, and the    *)
(* kernel mapping turns that into frames by subtraction.  That these are   *)
(* the frames it was granted is a property, not an assignment.             *)
(***************************************************************************)
EXTENDS Integers, Sequences, FiniteSets

CONSTANTS
  ADDRESS_FRAMES, WORD_BITS, Ranges, Never,   \* of PhysicalMemory
  KERNEL_PHYS_END,  \* first frame behind the kernel's image
  MemoryMaps,       \* memory maps the boot loader may pass, sequences of Region
  HEAP_PAGES,       \* page_count of vmm_init: 257
  UserTasks,        \* entries of tasks[] that user tasks may get
  KillIds,          \* those of them that testkill kills
  NoDirectory       \* cr3 = NULL

Regions == [addr : 0 .. ADDRESS_FRAMES, len : 0 .. ADDRESS_FRAMES, available : BOOLEAN]

\* Mutant: where the region ends is not looked at.
HoldsKernelEndNoEnd(e) == e.addr <= KERNEL_PHYS_END /\ e.available

\* A region that multiboot_parse gives to the physical memory manager.
HoldsKernelEnd(e) ==
  /\ e.addr <= KERNEL_PHYS_END
  /\ e.addr + e.len >= KERNEL_PHYS_END
  /\ e.available

\* Mutant: the length of the region is taken for its end.
RangeOfLength(e) == <<KERNEL_PHYS_END, e.len>>

\* What it hands over of that region: first frame and number of frames.
RangeOf(e) == <<KERNEL_PHYS_END, e.addr + e.len - KERNEL_PHYS_END>>

ASSUME VirtualMemoryAssumption ==
  /\ WORD_BITS \in Nat \ {0} /\ ADDRESS_FRAMES \in Nat
  /\ Never \notin 0 .. ADDRESS_FRAMES - 1
  /\ KERNEL_PHYS_END \in 2 .. ADDRESS_FRAMES - 1   \* the image starts at 1 MB
  /\ \A m \in MemoryMaps :
       /\ m \in Seq(Regions)
       /\ \A i \in 1 .. Len(m) :
            HoldsKernelEnd(m[i]) => /\ RangeOf(m[i]) \in Ranges
                                    /\ m[i].addr + m[i].len <= ADDRESS_FRAMES
  /\ HEAP_PAGES \in Nat \ {0}
  /\ KERNEL_PHYS_END + HEAP_PAGES < ADDRESS_FRAMES - 1
  /\ UserTasks \subseteq Nat /\ KillIds \subseteq UserTasks
  /\ NoDirectory \notin 0 .. ADDRESS_FRAMES - 1

VARIABLES
  pmm_memory_start, pmm_frames_max, pmm_memory_bitmap, pmm_frames_used,
  held, result,     \* of PhysicalMemory
  mmap,             \* the memory map the boot loader passed
  entry,            \* of it, in the loop of multiboot_parse
  stage,            \* how far the kernel has come
  page_index,       \* of the loop in vmm_init
  vmm_kernel_pd,    \* frame of the kernel's page directory
  heap,             \* frames behind heap_start_vaddr .. heap_end_vaddr
  cr3,              \* page directories of the user tasks
  created           \* entries of tasks[] that have been given out

pmm == <<pmm_memory_start, pmm_frames_max, pmm_memory_bitmap, pmm_frames_used,
         held, result>>

vars == <<pmm, mmap, entry, stage, page_index, vmm_kernel_pd, heap, cr3, created>>

P == INSTANCE PhysicalMemory

Frames == 0 .. ADDRESS_FRAMES - 1

TypeOK ==
  /\ P!TypeOK
  /\ mmap \in Seq(Regions) /\ entry \in 1 .. Len(mmap) + 1
  /\ stage \in {"multiboot_parse", "vmm_init", "heap_pages", "running", "overwritten"}
  /\ page_index \in 0 .. HEAP_PAGES
  /\ vmm_kernel_pd \in Frames \cup {NoDirectory}
  /\ heap \subseteq Frames
  /\ cr3 \in [UserTasks -> Frames \cup {NoDirectory}]
  /\ created \subseteq UserTasks

Init ==
  /\ P!Init
  /\ mmap \in MemoryMaps /\ entry = 1
  /\ stage = "multiboot_parse"
  /\ page_index = 0
  /\ vmm_kernel_pd = NoDirectory
  /\ heap = {}
  /\ cr3 = [t \in UserTasks |-> NoDirectory]
  /\ created = {}

\* One entry: a region that fits replaces what an earlier one set.
ParseEntry ==
  /\ stage = "multiboot_parse" /\ entry <= Len(mmap)
  /\ entry' = entry + 1
  /\ IF HoldsKernelEnd(mmap[entry])
       THEN P!SetMemoryRange(RangeOf(mmap[entry]))
       ELSE UNCHANGED pmm
  /\ UNCHANGED <<mmap, stage, page_index, vmm_kernel_pd, heap, cr3, created>>

\* The end of the loop.  pmm_init does not stop when no range was set.
ParseEnd ==
  /\ stage = "multiboot_parse" /\ entry > Len(mmap)
  /\ stage' = "vmm_init"
  /\ UNCHANGED <<pmm, mmap, entry, page_index, vmm_kernel_pd, heap, cr3, created>>

(***************************************************************************)
(* A page directory is written where pmm_alloc_frame says.  When it has no *)
(* frame left that is the last page of the kernel's own image; what the    *)
(* kernel does after that is not modelled.                                 *)
(***************************************************************************)
DirectoryWritten(next) ==
  stage' = IF result' = P!Exhausted THEN "overwritten" ELSE next

KernelDirectory ==
  /\ stage = "vmm_init"
  /\ P!AllocFrame
  /\ vmm_kernel_pd' = result'
  /\ DirectoryWritten("heap_pages")
  /\ UNCHANGED <<mmap, entry, page_index, heap, cr3, created>>

\* The loop stops early for an address of 0, which no grant has: a range
\* starts behind the kernel, and without one the answer is the last frame.
HeapPage ==
  /\ stage = "heap_pages" /\ page_index < HEAP_PAGES
  /\ P!AllocFrame
  /\ page_index' = page_index + 1
  /\ UNCHANGED <<mmap, entry, stage, vmm_kernel_pd, heap, cr3, created>>

\* Mutant: the heap is put right behind the kernel.
HeapStartUnaligned == KERNEL_PHYS_END

\* ALIGN_UP_4K(KERNEL_VIRT_END + PMM_FRAME_SIZE), as a frame.
HeapStart == KERNEL_PHYS_END + 1

HeapInit ==
  /\ stage = "heap_pages" /\ page_index = HEAP_PAGES
  /\ heap' = HeapStart .. HeapStart + HEAP_PAGES - 1
  /\ stage' = "running"
  /\ UNCHANGED <<pmm, mmap, entry, page_index, vmm_kernel_pd, cr3, created>>

\* task_create of a user task.
CreateUserTask(t) ==
  /\ stage = "running"
  /\ t \notin created /\ \A u \in UserTasks \ created : t <= u
  /\ P!AllocFrame
  /\ cr3' = [cr3 EXCEPT ![t] = result']
  /\ created' = created \cup {t}
  /\ DirectoryWritten("running")
  /\ UNCHANGED <<mmap, entry, page_index, vmm_kernel_pd, heap>>

\* A kernel task takes the entry and runs in the kernel's page directory.
CreateKernelTask(t) ==
  /\ stage = "running"
  /\ t \notin created /\ \A u \in UserTasks \ created : t <= u
  /\ created' = created \cup {t}
  /\ UNCHANGED <<pmm, mmap, entry, stage, page_index, vmm_kernel_pd, heap, cr3>>

\* Mutant: the page directory is given back, and stays in use.
PurgeTaskEarly(t) ==
  /\ stage = "running"
  /\ t \in KillIds /\ cr3[t] # NoDirectory
  /\ P!DeallocFrame(cr3[t])
  /\ UNCHANGED <<mmap, entry, stage, page_index, vmm_kernel_pd, heap, cr3, created>>

\* task_kill and the task_purge that follows it; no frame is given back.
PurgeTask(t) ==
  /\ stage = "running"
  /\ t \in KillIds /\ cr3[t] # NoDirectory
  /\ cr3' = [cr3 EXCEPT ![t] = NoDirectory]
  /\ UNCHANGED <<pmm, mmap, entry, stage, page_index, vmm_kernel_pd, heap, created>>

Next ==
  \/ ParseEntry \/ ParseEnd
  \/ KernelDirectory \/ HeapPage \/ HeapInit
  \/ \E t \in UserTasks : CreateUserTask(t) \/ CreateKernelTask(t) \/ PurgeTask(t)

Spec == Init /\ [][Next]_vars

(***************************************************************************)
(* Safety.                                                                 *)
(***************************************************************************)

NeverExhausted == P!Exhausted \notin held

\* The page directories in use.
Directories == ({vmm_kernel_pd} \cup {cr3[t] : t \in UserTasks}) \ {NoDirectory}

\* The frames the kernel heap really occupies are nobody's page directory,
\* and, unless memory ran out, all of them are granted to it.
HeapIsReserved ==
  /\ heap \cap Directories = {}
  /\ NeverExhausted => heap \subseteq held

\* No page directory is shared, and none lies in the kernel's image.
DirectoriesAreOwn ==
  NeverExhausted =>
    /\ \A t, u \in UserTasks : cr3[t] = cr3[u] => t = u \/ cr3[t] = NoDirectory
    /\ vmm_kernel_pd # NoDirectory => \A t \in UserTasks : cr3[t] # vmm_kernel_pd
    /\ \A d \in Directories : d \in held /\ d >= KERNEL_PHYS_END

\* The frames of a region behind the kernel, and those that the bitmap has
\* whole words for.
Behind(e) == {f \in Frames : KERNEL_PHYS_END <= f /\ e.addr <= f /\ f < e.addr + e.len}

Findable(e) ==
  {f \in Behind(e) : (f - KERNEL_PHYS_END) \div WORD_BITS
                       < (e.addr + e.len - KERNEL_PHYS_END) \div WORD_BITS}

\* Region i is available and holds the kernel's end, and no later one does.
IsLastToFit(i) ==
  LET Fits(e) == e.available /\ KERNEL_PHYS_END \in e.addr .. e.addr + e.len
  IN  Fits(mmap[i]) /\ \A j \in i + 1 .. Len(mmap) : ~Fits(mmap[j])

\* Whatever the map and the order of its regions, what vmm_init and
\* task_create are given is available memory behind the kernel; and they are
\* refused only when the last region that fits has been used up, but for an
\* incomplete word of the bitmap.
GrantsAreMemory ==
  /\ \A f \in held \ {P!Exhausted} :
       \E i \in 1 .. Len(mmap) : mmap[i].available /\ f \in Behind(mmap[i])
  /\ P!Exhausted \in held =>
       \A i \in 1 .. Len(mmap) : IsLastToFit(i) => Findable(mmap[i]) \subseteq held

(***************************************************************************)
(* What the code says and does not do.                                     *)
(***************************************************************************)

\* task_purge announces "Free memory allocated for this task": every frame
\* taken belongs to the heap, to the kernel or to a task.
PurgeFreesMemory ==
  stage = "running" => held \ {P!Exhausted} \subseteq heap \cup Directories
=============================================================================
