------------------------------- MODULE Paging -------------------------------
(***************************************************************************)
(* Address translation: the directories and tables that boot.asm, paging.c *)
(* and vmm.c write, and the changes of cr3 from power-on to task switches. *)
(*                                                                         *)
(* A page, and a frame of physical memory, is a pair: its directory index  *)
(* and its table index.  A 4 MB page stands for the frames with the same   *)
(* first index.  Every access the kernel makes goes through the directory  *)
(* that is loaded; `astray' names the function whose access did not reach  *)
(* the memory it was meant for, and nothing happens after that.            *)
(*                                                                         *)
(* A frame in use is not given back, as in the kernel, and allocation is   *)
(* first fit (see PhysicalMemory).  A CPU without 4 MB pages stops at the  *)
(* write to cr4 in boot.asm and is not modelled.                           *)
(***************************************************************************)
EXTENDS Naturals, FiniteSets

CONSTANTS
  ENTRIES,        \* entries of a directory and of a table: 1024
  KERNEL_ENTRY,   \* PAGE_DIRECTORY_INDEX(KERNEL_BASE): 768
  BootDirectory, BootTable,  \* page_directory and page_table of boot.asm
  BootCode, BootStack,       \* the pages _start runs in, before paging
  MultibootInfo,  \* the page of the loader's structures
  LastImageFrame, \* the frame in front of KERNEL_PHYS_END
  MemoryRanges,   \* the frames a loader may give the kernel
  HEAP_PAGES,
  Leftovers,      \* what a word of memory may hold before it is used
  Idle, Tasks,    \* the task of kernel_main, and the tasks created later
  None            \* no frame

Index == 0 .. ENTRIES - 1
Frames == Index \X Index
Pages == Frames

\* Directory and table entries; the fields that do not matter are left out.
Entries == [present : BOOLEAN, page_size : BOOLEAN, address : Frames]

ASSUME PagingAssumption ==
  /\ ENTRIES \in Nat /\ KERNEL_ENTRY \in 1 .. ENTRIES - 1
  /\ ENTRIES - KERNEL_ENTRY <= KERNEL_ENTRY
  /\ {BootDirectory, BootTable, BootCode, BootStack, MultibootInfo, LastImageFrame}
       \subseteq {0} \X Index
  /\ BootDirectory # BootTable
  /\ \A range \in MemoryRanges : range \subseteq Frames \ {BootDirectory, BootTable}
  /\ HEAP_PAGES \in Nat /\ Leftovers \subseteq Entries
  /\ Idle \notin Tasks /\ None \notin Frames

VARIABLES
  mem,        \* the frames, as tables of entries
  paging,     \* cr0.PG
  cr3,        \* the directory that is loaded
  eip, esp,   \* the pages of the next instruction and of the stack
  stage,      \* how far start-up is
  free,       \* frames the physical memory manager still has
  vmm_kernel_pd, heap,
  task_cr3,   \* the column of tasks[]
  alive,      \* tasks the scheduler may choose
  current_task,
  astray

boot == <<eip, esp, stage, paging>>
tasks == <<task_cr3, alive, current_task>>
vars == <<mem, cr3, boot, free, vmm_kernel_pd, heap, tasks, astray>>

TypeOK ==
  /\ mem \in [Frames -> [Index -> Entries]]
  /\ paging \in BOOLEAN
  /\ cr3 \in Frames \cup {None}
  /\ eip \in Pages /\ esp \in Pages
  /\ stage \in {"loaded", "tables", "paging", "kernel_main", "vmm_init", "directory",
                "switched", "running"}
  /\ free \subseteq Frames /\ heap \subseteq Frames
  /\ vmm_kernel_pd \in Frames \cup {None}
  /\ task_cr3 \in [Tasks \cup {Idle} -> Frames \cup {None}]
  /\ alive \subseteq Tasks \cup {Idle} /\ current_task \in Tasks \cup {Idle}
  /\ astray \in {"no", "vmm_init", "heap_init", "task_create", "paging_map"}

(***************************************************************************)
(* Addresses and translation.                                              *)
(***************************************************************************)

\* Addition of KERNEL_BASE, and its subtraction, in 32 bits.
PHY_TO_VIR(f) ==
  <<IF f[1] + KERNEL_ENTRY < ENTRIES THEN f[1] + KERNEL_ENTRY
                                     ELSE f[1] + KERNEL_ENTRY - ENTRIES, f[2]>>

VIR_TO_PHY(p) ==
  <<IF p[1] >= KERNEL_ENTRY THEN p[1] - KERNEL_ENTRY
                            ELSE p[1] + ENTRIES - KERNEL_ENTRY, p[2]>>

\* What the CPU makes of a page under a directory.
Translate(directory, p) ==
  LET pde == mem[directory][p[1]]
      pte == mem[pde.address][p[2]]
  IN  IF ~pde.present THEN None
      ELSE IF pde.page_size THEN <<pde.address[1], p[2]>>
      ELSE IF pte.present THEN pte.address ELSE None

At(p) == IF paging THEN Translate(cr3, p) ELSE p

\* A pointer made with PHY_TO_VIR leads to the frame.
Reaches(f) == At(PHY_TO_VIR(f)) = f

Before(f, g) == f[1] < g[1] \/ (f[1] = g[1] /\ f[2] < g[2])

\* pmm_alloc_frame: the first of some frames; when there is none, the frame
\* in front of the range.
Firsts(frames) == {f \in frames : \A g \in frames \ {f} : Before(f, g)}

First(frames) ==
  IF Firsts(frames) = {} THEN LastImageFrame ELSE CHOOSE f \in Firsts(frames) : TRUE

FirstFree == First(free)

(***************************************************************************)
(* Directories.                                                            *)
(***************************************************************************)

Zeroed == [i \in Index |-> [present |-> FALSE, page_size |-> FALSE, address |-> <<0, 0>>]]

\* Mutant: only the first entry is cleared.
paging_init_directory_partial(d) == [d EXCEPT ![0].present = FALSE]

\* paging_init_directory and paging_init_table: page_size and address keep
\* what memory held.
paging_init_directory(d) == [i \in Index |-> [d[i] EXCEPT !.present = FALSE]]

BigPage(i) == [present |-> TRUE, page_size |-> TRUE, address |-> <<i - KERNEL_ENTRY, 0>>]

\* Mutant: the loop runs one entry past the directory.
vmm_map_kernel_past_end(d) == [i \in Index \cup {ENTRIES} |-> IF i >= KERNEL_ENTRY THEN BigPage(i) ELSE d[i]]

vmm_map_kernel(d) == [i \in Index |-> IF i >= KERNEL_ENTRY THEN BigPage(i) ELSE d[i]]

paging_init_table(table) == [i \in Index |-> [table[i] EXCEPT !.present = FALSE]]

(***************************************************************************)
(* Start-up.                                                               *)
(***************************************************************************)

Init ==
  /\ \E e \in Leftovers :
       mem = [f \in Frames |-> IF f \in {BootDirectory, BootTable} THEN Zeroed
                               ELSE [i \in Index |-> e]]
  /\ paging = FALSE /\ cr3 = None
  /\ eip = BootCode /\ esp = BootStack
  /\ stage = "loaded"
  /\ free = {} /\ heap = {} /\ vmm_kernel_pd = None
  /\ task_cr3 = [t \in Tasks \cup {Idle} |-> None]
  /\ alive = {Idle} /\ current_task = Idle
  /\ astray = "no"

Stage(from, to) == astray = "no" /\ stage = from /\ stage' = to

SmallPage(f) == [present |-> TRUE, page_size |-> FALSE, address |-> f]

\* The boot table, entered into the boot directory at some indices.
BootTables(indices) ==
  [mem EXCEPT ![BootTable] = [i \in Index |-> SmallPage(<<0, i>>)],
              ![BootDirectory] = [i \in Index |-> IF i \in indices THEN SmallPage(BootTable)
                                                                  ELSE @[i]]]

\* Mutant: no identity mapping.
FillTablesHigh ==
  /\ Stage("loaded", "tables")
  /\ mem' = BootTables({KERNEL_ENTRY})
  /\ UNCHANGED <<cr3, eip, esp, paging, free, vmm_kernel_pd, heap, tasks, astray>>

\* _start: one table for the first 4 MB, entered twice.
FillTables ==
  /\ Stage("loaded", "tables")
  /\ mem' = BootTables({0, KERNEL_ENTRY})
  /\ UNCHANGED <<cr3, eip, esp, paging, free, vmm_kernel_pd, heap, tasks, astray>>

EnablePaging ==
  /\ Stage("tables", "paging")
  /\ cr3' = BootDirectory /\ paging' = TRUE
  /\ UNCHANGED <<mem, eip, esp, free, vmm_kernel_pd, heap, tasks, astray>>

\* The stack moves up, and the call goes to where the kernel is linked.
EnterKernel ==
  /\ Stage("paging", "kernel_main")
  /\ esp' = PHY_TO_VIR(esp) /\ eip' = PHY_TO_VIR(eip)
  /\ UNCHANGED <<mem, cr3, paging, free, vmm_kernel_pd, heap, tasks, astray>>

\* multiboot_parse: the frames behind the image are the kernel's.
ParseMultiboot ==
  /\ Stage("kernel_main", "vmm_init")
  /\ free' \in MemoryRanges
  /\ UNCHANGED <<mem, cr3, eip, esp, paging, vmm_kernel_pd, heap, tasks, astray>>

\* Mutant: the boot directory is rewritten where it is.
KernelDirectoryInPlace ==
  /\ Stage("vmm_init", "directory")
  /\ mem' = [mem EXCEPT ![cr3] = vmm_map_kernel(paging_init_directory(@))]
  /\ vmm_kernel_pd' = cr3
  /\ UNCHANGED <<cr3, eip, esp, paging, free, heap, tasks, astray>>

\* vmm_init: the kernel's directory, written under the boot directory.
KernelDirectory ==
  /\ Stage("vmm_init", "directory")
  /\ IF FirstFree \in free /\ Reaches(FirstFree)
     THEN /\ mem' = [mem EXCEPT ![FirstFree] = vmm_map_kernel(paging_init_directory(Zeroed))]
          /\ vmm_kernel_pd' = FirstFree /\ free' = free \ {FirstFree}
          /\ UNCHANGED astray
     ELSE astray' = "vmm_init" /\ UNCHANGED <<mem, vmm_kernel_pd, free>>
  /\ UNCHANGED <<cr3, eip, esp, paging, heap, tasks>>

\* Mutant: the directory is made and not loaded.
paging_load_directory_forgotten ==
  /\ Stage("directory", "switched")
  /\ UNCHANGED <<mem, cr3, eip, esp, paging, free, vmm_kernel_pd, heap, tasks, astray>>

paging_load_directory ==
  /\ Stage("directory", "switched")
  /\ cr3' = VIR_TO_PHY(PHY_TO_VIR(vmm_kernel_pd))
  /\ UNCHANGED <<mem, eip, esp, paging, free, vmm_kernel_pd, heap, tasks, astray>>

\* The frames the loop of vmm_init takes.
HeapFrames == {f \in free : Cardinality({g \in free : Before(g, f)}) < HEAP_PAGES}

\* heap_init clears the heap, which lies on those frames (see VirtualMemory).
HeapInit ==
  /\ Stage("switched", "running")
  /\ IF Cardinality(HeapFrames) = HEAP_PAGES /\ \A f \in HeapFrames : Reaches(f)
     THEN heap' = HeapFrames /\ free' = free \ HeapFrames /\ UNCHANGED astray
     ELSE astray' = "heap_init" /\ UNCHANGED <<heap, free>>
  /\ UNCHANGED <<mem, cr3, eip, esp, paging, vmm_kernel_pd, tasks>>

(***************************************************************************)
(* Tasks.                                                                  *)
(***************************************************************************)

Running == astray = "no" /\ stage = "running"

\* Ids are never used again; a name may stand for another task later.
Unused(t) == t \notin alive \cup {current_task}

CreateKernelTask(t) ==
  /\ Running /\ Unused(t)
  /\ task_cr3' = [task_cr3 EXCEPT ![t] = VIR_TO_PHY(PHY_TO_VIR(vmm_kernel_pd))]
  /\ alive' = alive \cup {t}
  /\ UNCHANGED <<mem, cr3, boot, free, vmm_kernel_pd, heap, current_task, astray>>

CreateUserTask(t) ==
  /\ Running /\ Unused(t)
  /\ IF FirstFree \in free /\ Reaches(FirstFree)
     THEN /\ mem' = [mem EXCEPT ![FirstFree] = vmm_map_kernel(paging_init_directory(@))]
          /\ free' = free \ {FirstFree}
          /\ task_cr3' = [task_cr3 EXCEPT ![t] = FirstFree]
          /\ alive' = alive \cup {t}
          /\ UNCHANGED astray
     ELSE astray' = "task_create" /\ UNCHANGED <<mem, free, task_cr3, alive>>
  /\ UNCHANGED <<cr3, boot, vmm_kernel_pd, heap, current_task>>

\* task_switch: the old task keeps the directory that was loaded; the stack
\* of the new one is somewhere in the heap, that of kernel_main in the image.
Switch(t) ==
  /\ Running /\ t \in alive \ {current_task}
  /\ task_cr3' = [task_cr3 EXCEPT ![current_task] = cr3]
  /\ cr3' = task_cr3[t]
  /\ current_task' = t
  /\ IF t = Idle THEN esp' = PHY_TO_VIR(BootStack)
                 ELSE \E f \in heap : esp' = PHY_TO_VIR(f)
  /\ UNCHANGED <<mem, eip, stage, paging, free, vmm_kernel_pd, heap, alive, astray>>

\* task_kill, and the purge that forgets the directory.  The task may be the
\* one that runs.
KillTask(t) ==
  /\ Running /\ t \in alive \ {Idle}
  /\ alive' = alive \ {t}
  /\ task_cr3' = [task_cr3 EXCEPT ![t] = None]
  /\ UNCHANGED <<mem, cr3, boot, free, vmm_kernel_pd, heap, current_task, astray>>

\* The table of a page, found in the directory or new.
PresentTable(p, f) ==
  LET pde == mem[vmm_kernel_pd][p[1]]
  IN  IF pde.present THEN pde.address ELSE First(free \ {f})

\* paging_map enters f for page p into a table that it can reach.
paging_map(p, f, table) ==
  LET words == IF mem[vmm_kernel_pd][p[1]].present THEN mem[table] ELSE paging_init_table(mem[table])
  IN  [mem EXCEPT
         ![table] = [words EXCEPT ![p[2]] = [@ EXCEPT !.present = TRUE, !.address = f]],
         ![vmm_kernel_pd][p[1]] = [@ EXCEPT !.present = TRUE, !.address = table]]

\* vmm_alloc_pages for one page.  paging_map takes the physical address of
\* the table for a pointer to it.  The kernel exports this and does not call
\* it (see the end of vmm_init).
vmm_alloc_pages(p) ==
  /\ Running
  /\ LET f == FirstFree
         table == PresentTable(p, f)
     IN  IF At(table) = table
         THEN /\ mem' = paging_map(p, f, table)
              /\ free' = free \ {f, table}
              /\ cr3' = vmm_kernel_pd
              /\ UNCHANGED astray
         ELSE astray' = "paging_map" /\ UNCHANGED <<mem, free, cr3>>
  /\ UNCHANGED <<boot, vmm_kernel_pd, heap, tasks>>

Next ==
  \/ FillTables \/ EnablePaging \/ EnterKernel \/ ParseMultiboot
  \/ KernelDirectory \/ paging_load_directory \/ HeapInit
  \/ \E t \in Tasks : CreateKernelTask(t) \/ CreateUserTask(t)
  \/ \E t \in Tasks \cup {Idle} : Switch(t) \/ KillTask(t)
  \/ \E p \in Pages : vmm_alloc_pages(p)

Spec == Init /\ [][Next]_vars

(***************************************************************************)
(* Safety.                                                                 *)
(***************************************************************************)

InWindow(p) == p[1] >= KERNEL_ENTRY

\* What a page must lead to: low pages are used only for themselves, pages
\* from KERNEL_BASE on for the memory VIR_TO_PHY gives.
Meant(p) == IF InWindow(p) THEN VIR_TO_PHY(p) ELSE p

\* Start-up moves the stack and the code, turns paging on and replaces the
\* directory, and tasks bring theirs: at no point do the next instruction or
\* the stack vanish, nor the loader's structures before they are parsed
\* (boot.asm, vmm_init, task_switch).
KernelStaysMapped ==
  /\ At(eip) = Meant(eip) /\ At(esp) = Meant(esp)
  /\ stage = "kernel_main" => At(MultibootInfo) = MultibootInfo

\* Whatever a directory's frame held before, the directory of every task and
\* the kernel's translate each page alike: memory from KERNEL_BASE on, and
\* nothing below, where a forgotten conversion or a null pointer faults.
DirectoriesAlike ==
  \A d \in {task_cr3[t] : t \in Tasks \cup {Idle}} \cup {vmm_kernel_pd} : d # None =>
    \A p \in Pages : Translate(d, p) = IF InWindow(p) THEN VIR_TO_PHY(p) ELSE None

\* PHY_TO_VIR leads to memory unless there is more than the window shows, or
\* too little.  vmm_init's first frame must be in the 4 MB of the boot table;
\* paging_map never gets anywhere.
StraysExplained ==
  CASE astray = "vmm_init" -> free = {} \/ FirstFree[1] # 0
    [] astray = "heap_init" -> Cardinality(free) < HEAP_PAGES
                                 \/ \E f \in free : ~InWindow(PHY_TO_VIR(f))
    [] astray = "task_create" -> free = {} \/ ~InWindow(PHY_TO_VIR(FirstFree))
    [] OTHER -> astray \in {"no", "paging_map"}

\* The kernel never invalidates a page, so what a loaded directory says of
\* one may change only together with cr3.
NoStaleTranslation ==
  [][paging /\ cr3' = cr3 => \A p \in Pages : Translate(cr3, p)' = Translate(cr3, p)]_vars
=============================================================================
