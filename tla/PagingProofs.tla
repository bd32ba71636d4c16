---------------------------- MODULE PagingProofs ----------------------------
(***************************************************************************)
(* Proofs about Paging, for every size of the tables and of the window,    *)
(* every memory and whatever it held.                                      *)
(***************************************************************************)
EXTENDS Paging, FiniteSetTheorems, TLAPS

\* What vmm_init and task_create leave in a directory.
KernelDirectoryAt(d) ==
  /\ d \in Frames /\ d \notin free
  /\ \A i \in Index : IF i >= KERNEL_ENTRY THEN mem[d][i] = BigPage(i)
                                           ELSE ~mem[d][i].present

BootDirectoryFilled ==
  /\ \A i \in Index :
       mem[BootDirectory][i] = IF i \in {0, KERNEL_ENTRY} THEN SmallPage(BootTable) ELSE Zeroed[i]
  /\ \A i \in Index : mem[BootTable][i] = SmallPage(<<0, i>>)

Low(p) == p[1] = 0

BeforePaging == stage \in {"loaded", "tables"}
OnBootDirectory == stage \in {"paging", "kernel_main", "vmm_init", "directory"}
OnOwnDirectory == stage \in {"switched", "running"}

\* Which directory is loaded, and where the code and the stack are.
StagesInv ==
  /\ BeforePaging => ~paging /\ Low(eip) /\ Low(esp)
  /\ stage = "loaded" => mem[BootDirectory] = Zeroed
  /\ stage = "tables" \/ OnBootDirectory => BootDirectoryFilled
  /\ OnBootDirectory => paging /\ cr3 = BootDirectory
  /\ stage = "paging" => Low(eip) /\ Low(esp)
  /\ stage \in {"kernel_main", "vmm_init", "directory"} =>
       /\ InWindow(eip) /\ Low(VIR_TO_PHY(eip))
       /\ InWindow(esp) /\ Low(VIR_TO_PHY(esp))
  /\ OnOwnDirectory => /\ paging /\ KernelDirectoryAt(cr3)
                       /\ InWindow(eip) /\ InWindow(esp)

\* The directories in use, and the heap that shows in their window.
DirectoriesInv ==
  /\ BootDirectory \notin free /\ BootTable \notin free
  /\ vmm_kernel_pd # None => KernelDirectoryAt(vmm_kernel_pd)
  /\ (stage = "directory" /\ astray = "no") \/ OnOwnDirectory => vmm_kernel_pd # None
  /\ stage # "directory" /\ ~OnOwnDirectory => vmm_kernel_pd = None
  /\ \A t \in Tasks \cup {Idle} : task_cr3[t] # None => KernelDirectoryAt(task_cr3[t])
  /\ \A t \in alive \ {current_task} : task_cr3[t] # None
  /\ stage # "running" => /\ alive = {Idle} /\ current_task = Idle
                          /\ \A t \in Tasks \cup {Idle} : task_cr3[t] = None
  /\ \A f \in heap : InWindow(PHY_TO_VIR(f))

IInv == TypeOK /\ StagesInv /\ DirectoriesInv

(***************************************************************************)
(* Facts about the operators.                                              *)
(***************************************************************************)

\* The assumption on the constants in the form the proofs cite.
LEMMA Constants ==
  /\ ENTRIES \in Nat /\ KERNEL_ENTRY \in Nat
  /\ 0 < KERNEL_ENTRY /\ KERNEL_ENTRY < ENTRIES
  /\ ENTRIES - KERNEL_ENTRY <= KERNEL_ENTRY
  /\ BootDirectory \in Frames /\ BootTable \in Frames /\ BootCode \in Frames
  /\ BootStack \in Frames /\ MultibootInfo \in Frames /\ LastImageFrame \in Frames
  /\ Low(BootCode) /\ Low(BootStack) /\ Low(MultibootInfo) /\ Low(BootDirectory)
  /\ BootDirectory # BootTable
  /\ \A range \in MemoryRanges :
       range \subseteq Frames /\ BootDirectory \notin range /\ BootTable \notin range
  /\ Leftovers \subseteq Entries
  /\ Idle \notin Tasks /\ None \notin Frames
BY PagingAssumption DEF Frames, Index, Low

\* PHY_TO_VIR and VIR_TO_PHY stay inside the address space and undo each
\* other, the wrap-around included.
LEMMA Addresses ==
  ASSUME NEW f \in Frames
  PROVE  /\ PHY_TO_VIR(f) \in Frames /\ VIR_TO_PHY(f) \in Frames
         /\ VIR_TO_PHY(PHY_TO_VIR(f)) = f
         /\ Low(f) => InWindow(PHY_TO_VIR(f))
         /\ VIR_TO_PHY(f)[1] # f[1]
         /\ InWindow(f) => VIR_TO_PHY(f)[1] = f[1] - KERNEL_ENTRY
<1>1. PICK i \in Index, j \in Index : f = <<i, j>>
  BY DEF Frames
<1>2. i \in Nat /\ i < ENTRIES
  BY <1>1, Constants DEF Index
<1>3. PHY_TO_VIR(f) = <<IF i + KERNEL_ENTRY < ENTRIES THEN i + KERNEL_ENTRY
                        ELSE i + KERNEL_ENTRY - ENTRIES, j>>
  BY <1>1 DEF PHY_TO_VIR
<1>4. VIR_TO_PHY(f) = <<IF i >= KERNEL_ENTRY THEN i - KERNEL_ENTRY
                        ELSE i + ENTRIES - KERNEL_ENTRY, j>>
  BY <1>1 DEF VIR_TO_PHY
<1>5. PHY_TO_VIR(f) \in Frames /\ VIR_TO_PHY(f) \in Frames
  BY <1>1, <1>2, <1>3, <1>4, Constants DEF Frames, Index
<1>6. VIR_TO_PHY(PHY_TO_VIR(f)) = f
  BY <1>1, <1>2, <1>3, Constants DEF VIR_TO_PHY
<1>7. Low(f) => InWindow(PHY_TO_VIR(f))
  BY <1>1, <1>2, <1>3, Constants DEF Low, InWindow
<1>8. VIR_TO_PHY(f)[1] # f[1] /\ (InWindow(f) => VIR_TO_PHY(f)[1] = f[1] - KERNEL_ENTRY)
  BY <1>1, <1>2, <1>4, Constants DEF InWindow
<1> QED
  BY <1>5, <1>6, <1>7, <1>8

\* What pmm_alloc_frame answers is a frame, granted or not.
LEMMA FirstIsFrame ==
  ASSUME NEW S, S \subseteq Frames
  PROVE  First(S) \in Frames
BY Constants DEF First, Firsts

\* A directory vmm_map_kernel filled shows memory in the window and nothing
\* below.
LEMMA KernelTranslation ==
  ASSUME TypeOK, NEW d, KernelDirectoryAt(d), NEW p \in Pages
  PROVE  Translate(d, p) = IF InWindow(p) THEN VIR_TO_PHY(p) ELSE None
<1>1. PICK i \in Index, j \in Index : p = <<i, j>>
  BY DEF Pages, Frames
<1>2. i \in Nat
  BY Constants DEF Index
<1>3. CASE i >= KERNEL_ENTRY
  <2>1. mem[d][i] = BigPage(i)
    BY <1>3 DEF KernelDirectoryAt
  <2>2. mem[d][p[1]].present /\ mem[d][p[1]].page_size
          /\ mem[d][p[1]].address[1] = i - KERNEL_ENTRY
    BY <1>1, <2>1 DEF BigPage
  <2> QED
    BY <1>1, <1>3, <2>2 DEF Translate, InWindow, VIR_TO_PHY
<1>4. CASE ~(i >= KERNEL_ENTRY)
  <2>1. ~mem[d][p[1]].present
    BY <1>1, <1>4 DEF KernelDirectoryAt
  <2> QED
    BY <1>1, <1>4, <2>1 DEF Translate, InWindow
<1> QED
  BY <1>3, <1>4

\* Under the boot directory the first big page shows twice.
LEMMA BootTranslation ==
  ASSUME BootDirectoryFilled, NEW p \in Pages,
         Low(p) \/ (InWindow(p) /\ Low(VIR_TO_PHY(p)))
  PROVE  Translate(BootDirectory, p) = Meant(p)
<1>1. PICK i \in Index, j \in Index : p = <<i, j>>
  BY DEF Pages, Frames
<1>2. i \in Nat
  BY Constants DEF Index
<1>3. i \in {0, KERNEL_ENTRY}
  BY <1>1, <1>2, Constants DEF Low, InWindow, VIR_TO_PHY
<1>4. mem[BootDirectory][p[1]] = SmallPage(BootTable)
  BY <1>1, <1>3 DEF BootDirectoryFilled
<1>5. mem[BootTable][p[2]] = SmallPage(<<0, j>>)
  BY <1>1 DEF BootDirectoryFilled
<1>6. Translate(BootDirectory, p) = <<0, j>>
  BY <1>4, <1>5 DEF Translate, SmallPage
<1>7. Meant(p) = <<0, j>>
  BY <1>1, <1>2, <1>3, Constants DEF Meant, InWindow, VIR_TO_PHY
<1> QED
  BY <1>6, <1>7

(***************************************************************************)
(* Counting frames.  The loop of vmm_init takes the first HEAP_PAGES frames, *)
(* which HeapFrames picks by their rank: these facts say that the ranks of *)
(* a set of frames leave no gap.                                           *)
(***************************************************************************)

\* A set of naturals has a least element; a claim about every natural follows
\* by looking at the least one that would break it.
LEMMA NatMin ==
  ASSUME NEW T, T \subseteq Nat, T # {}
  PROVE  \E x \in T : \A y \in T : x <= y
<1>1. PICK x \in T : \A y \in T : ~ (<<y, x>> \in OpToRel(<, Nat))
  BY NatLessThanWellFounded, WFMin, Zenon
<1>2. \A y \in T : ~(y < x)
  BY <1>1 DEF OpToRel
<1> QED
  BY <1>2

LEMMA FramesFinite ==
  ASSUME NEW S, S \subseteq Frames
  PROVE  IsFiniteSet(S) /\ Cardinality(S) \in Nat
<1>1. IsFiniteSet(Index)
  BY Constants, FS_Interval DEF Index
<1>2. IsFiniteSet(Frames)
  BY <1>1, FS_Product DEF Frames
<1> QED
  BY <1>2, FS_Subset, FS_CardinalityType

\* The order in which the bitmap is scanned.
LEMMA BeforeIsOrder ==
  ASSUME NEW f \in Frames, NEW g \in Frames
  PROVE  /\ ~(Before(f, g) /\ Before(g, f))
         /\ f # g => Before(f, g) \/ Before(g, f)
         /\ \A h \in Frames : Before(f, g) /\ Before(g, h) => Before(f, h)
<1>1. \A h \in Frames : h[1] \in Nat /\ h[2] \in Nat /\ h = <<h[1], h[2]>>
  BY DEF Frames, Index
<1> QED
  BY <1>1 DEF Before

LEMMA FirstExists ==
  ASSUME NEW S, S \subseteq Frames, S # {}
  PROVE  First(S) \in S /\ \A g \in S \ {First(S)} : Before(First(S), g)
<1>1. \A f \in S : f[1] \in Nat /\ f[2] \in Nat /\ f = <<f[1], f[2]>>
  BY DEF Frames, Index
<1> DEFINE Rows == {n \in Nat : \E f \in S : f[1] = n}
<1>2. PICK i \in Rows : \A j \in Rows : i <= j
  <2>1. Rows # {}
    BY <1>1
  <2> HIDE DEF Rows
  <2>2. Rows \subseteq Nat
    BY DEF Rows
  <2> QED
    BY <2>1, <2>2, NatMin
<1> DEFINE Columns == {n \in Nat : \E f \in S : f[1] = i /\ f[2] = n}
<1>3. PICK j \in Columns : \A k \in Columns : j <= k
  <2>1. Columns # {}
    BY <1>1, <1>2
  <2> HIDE DEF Columns
  <2>2. Columns \subseteq Nat
    BY DEF Columns
  <2> QED
    BY <2>1, <2>2, NatMin
<1>4. PICK m \in S : m[1] = i /\ m[2] = j
  BY <1>3
<1>5. ASSUME NEW g \in S \ {m} PROVE Before(m, g)
  <2>1. g[1] \in Rows /\ i \in Nat /\ j \in Nat
    BY <1>1
  <2>2. i <= g[1]
    BY <1>2, <2>1
  <2>3. g[1] = i => g[2] \in Columns
    BY <1>1
  <2>4. g[1] = i => j <= g[2]
    BY <1>3, <2>3
  <2>5. g # m /\ g = <<g[1], g[2]>> /\ m = <<m[1], m[2]>>
    BY <1>1, <1>5
  <2> HIDE DEF Rows, Columns
  <2> QED
    BY <1>1, <1>4, <2>1, <2>2, <2>4, <2>5 DEF Before
<1>6. m \in Firsts(S)
  BY <1>5 DEF Firsts
<1> QED
  BY <1>6 DEF First, Firsts

\* The frames in front of one, and those with fewer than n in front.
Below(S, f) == {g \in S : Before(g, f)}
Lowest(S, n) == {f \in S : Cardinality(Below(S, f)) < n}

LEMMA LowestGrows ==
  ASSUME NEW S, S \subseteq Frames, NEW n \in Nat, n + 1 <= Cardinality(S),
         Cardinality(Lowest(S, n)) = n
  PROVE  Cardinality(Lowest(S, n + 1)) = n + 1
<1> DEFINE L == Lowest(S, n)
           m == First(S \ L)
<1>1. L \subseteq S /\ IsFiniteSet(L) /\ IsFiniteSet(S)
  BY FramesFinite DEF Lowest
<1>2. S \ L # {}
  <2> SUFFICES ASSUME S \subseteq L PROVE FALSE
    OBVIOUS
  <2>1. Cardinality(S) <= Cardinality(L)
    BY <1>1, FS_Subset
  <2> QED
    BY <2>1, FramesFinite
<1>3. m \in S /\ m \notin L /\ m \in Frames /\ \A g \in S \ L : g # m => Before(m, g)
  BY <1>2, FirstExists
<1> HIDE DEF m
<1>4. \A f \in S : IsFiniteSet(Below(S, f)) /\ Cardinality(Below(S, f)) \in Nat
                 /\ Below(S, f) \subseteq S
  BY FramesFinite DEF Below
<1>5. \A f \in S : f \in L <=> Cardinality(Below(S, f)) < n
  BY DEF Lowest
<1>6. Below(S, m) = L
  <2>1. ASSUME NEW g \in Below(S, m) PROVE g \in L
    BY <1>3, <2>1, BeforeIsOrder DEF Below
  <2>2. ASSUME NEW g \in L PROVE g \in Below(S, m)
    <3>1. g \in S /\ g \in Frames /\ g # m
      BY <1>1, <1>3
    <3>2. ASSUME Before(m, g) PROVE FALSE
      <4>1. Below(S, m) \subseteq Below(S, g)
        BY <1>3, <3>1, <3>2, BeforeIsOrder DEF Below
      <4>2. Cardinality(Below(S, m)) <= Cardinality(Below(S, g))
        BY <1>4, <3>1, <4>1, FS_Subset
      <4> QED
        BY <1>3, <1>4, <1>5, <3>1, <4>2
    <3> QED
      BY <1>3, <3>1, <3>2, BeforeIsOrder DEF Below
  <2> QED
    BY <2>1, <2>2
<1>7. Cardinality(L \cup {m}) = n + 1
  <2>1. Cardinality(L) = n
    OBVIOUS
  <2> HIDE DEF L
  <2> QED
    BY <1>1, <1>3, <2>1, FS_AddElement
<1>8. Lowest(S, n + 1) = L \cup {m}
  <2>1. ASSUME NEW f \in S, f \notin L, f # m PROVE ~(Cardinality(Below(S, f)) < n + 1)
    <3>1. Before(m, f) /\ f \in Frames
      BY <1>3, <2>1
    <3>2. L \cup {m} \subseteq Below(S, f)
      BY <1>3, <1>6, <3>1, BeforeIsOrder DEF Below
    <3>4. Cardinality(L \cup {m}) <= Cardinality(Below(S, f))
      BY <1>4, <3>2, FS_Subset
    <3> QED
      BY <1>4, <1>7, <3>4
  <2>2. \A f \in S : f \in Lowest(S, n + 1) <=> Cardinality(Below(S, f)) < n + 1
    BY DEF Lowest
  <2>3. \A f \in L \cup {m} : Cardinality(Below(S, f)) < n + 1
    BY <1>1, <1>4, <1>5, <1>6
  <2> QED
    BY <1>1, <1>3, <2>1, <2>2, <2>3 DEF Lowest
<1> QED
  BY <1>8, <1>7

\* Enough frames give exactly as many as the loop asks for.
LEMMA LowestCount ==
  ASSUME NEW S, S \subseteq Frames, NEW n \in Nat, n <= Cardinality(S)
  PROVE  Cardinality(Lowest(S, n)) = n
<1> DEFINE Wrong == {k \in Nat : k <= Cardinality(S) /\ Cardinality(Lowest(S, k)) # k}
<1> SUFFICES ASSUME Wrong # {} PROVE FALSE
  OBVIOUS
<1>1. PICK k \in Wrong : \A j \in Wrong : k <= j
  <2>1. Wrong \subseteq Nat
    OBVIOUS
  <2> HIDE DEF Wrong
  <2> QED
    BY <2>1, NatMin
<1>2. CASE k = 0
  <2>1. \A f \in S : Cardinality(Below(S, f)) \in Nat
    BY FramesFinite DEF Below
  <2>2. Lowest(S, 0) = {}
    BY <2>1 DEF Lowest
  <2> QED
    BY <1>2, <2>2, FS_EmptySet
<1>3. CASE k # 0
  <2>1. k - 1 \in Nat /\ ~(k <= k - 1) /\ k - 1 <= Cardinality(S) /\ (k - 1) + 1 = k
    BY <1>3, FramesFinite
  <2>2. Cardinality(Lowest(S, k - 1)) = k - 1
    BY <1>1, <2>1
  <2>3. Cardinality(Lowest(S, (k - 1) + 1)) = (k - 1) + 1
    BY <2>1, <2>2, LowestGrows
  <2> QED
    BY <2>1, <2>3
<1> QED
  BY <1>2, <1>3

(***************************************************************************)
(* The invariant.                                                          *)
(***************************************************************************)

LEMMA ZeroedType == Zeroed \in [Index -> Entries]
BY Constants DEF Zeroed, Entries, Frames, Index

LEMMA InitInvariant == Init => IInv
<1> SUFFICES ASSUME Init PROVE IInv
  OBVIOUS
<1>1. TypeOK
  <2>1. mem \in [Frames -> [Index -> Entries]]
    <3>1. PICK e \in Leftovers :
            mem = [f \in Frames |-> IF f \in {BootDirectory, BootTable} THEN Zeroed
                                    ELSE [i \in Index |-> e]]
      BY DEF Init
    <3>2. [i \in Index |-> e] \in [Index -> Entries]
      BY Constants
    <3> QED
      BY <3>1, <3>2, ZeroedType
  <2>2. eip \in Pages /\ esp \in Pages
    BY Constants DEF Init, Pages, Frames
  <2> QED
    BY <2>1, <2>2 DEF Init, TypeOK
<1>2. StagesInv
  BY Constants DEF Init, StagesInv, BeforePaging, OnBootDirectory, OnOwnDirectory
<1>3. DirectoriesInv
  BY Constants DEF Init, DirectoriesInv, OnOwnDirectory
<1> QED
  BY <1>1, <1>2, <1>3 DEF IInv

\* Writing into a frame that was free leaves the directories in use alone.
LEMMA DirectoriesKept ==
  ASSUME NEW d, KernelDirectoryAt(d), free' \subseteq free,
         mem'[d] = mem[d]
  PROVE  KernelDirectoryAt(d)'
BY DEF KernelDirectoryAt

\* The directory vmm_map_kernel makes, of any initialised directory.
LEMMA MapKernel ==
  ASSUME NEW words \in [Index -> Entries]
  PROVE  LET d == vmm_map_kernel(paging_init_directory(words))
         IN  /\ d \in [Index -> Entries]
             /\ \A i \in Index : IF i >= KERNEL_ENTRY THEN d[i] = BigPage(i) ELSE ~d[i].present
<1>1. paging_init_directory(words) \in [Index -> Entries]
  BY DEF paging_init_directory, Entries
<1>2. \A i \in Index : ~paging_init_directory(words)[i].present
  BY DEF paging_init_directory, Entries
<1>3. ASSUME NEW i \in Index, i >= KERNEL_ENTRY PROVE BigPage(i) \in Entries
  <2>1. i - KERNEL_ENTRY \in Index /\ 0 \in Index
    BY <1>3, Constants DEF Index
  <2> QED
    BY <2>1 DEF BigPage, Entries, Frames
<1> QED
  BY <1>1, <1>2, <1>3 DEF vmm_map_kernel

LEMMA BootTablesFill ==
  ASSUME TypeOK, mem[BootDirectory] = Zeroed, mem' = BootTables({0, KERNEL_ENTRY})
  PROVE  mem' \in [Frames -> [Index -> Entries]] /\ BootDirectoryFilled'
<1>1. \A i \in Index : SmallPage(<<0, i>>) \in Entries
  BY Constants DEF SmallPage, Entries, Frames, Index
<1>2. SmallPage(BootTable) \in Entries
  BY Constants DEF SmallPage, Entries
<1>3. mem' \in [Frames -> [Index -> Entries]]
  <2> DEFINE table == [i \in Index |-> SmallPage(<<0, i>>)]
             directory == [i \in Index |-> IF i \in {0, KERNEL_ENTRY} THEN SmallPage(BootTable)
                                                                     ELSE Zeroed[i]]
  <2>1. table \in [Index -> Entries]
    BY <1>1
  <2>2. directory \in [Index -> Entries]
    BY <1>2, ZeroedType
  <2>3. BootDirectory # BootTable
    BY Constants
  <2>4. mem' = [mem EXCEPT ![BootTable] = table, ![BootDirectory] = directory]
    BY <2>3 DEF BootTables, TypeOK
  <2> HIDE DEF table, directory
  <2> QED
    BY <2>1, <2>2, <2>4 DEF TypeOK
<1>4. \A i \in Index : mem'[BootTable][i] = SmallPage(<<0, i>>)
  BY Constants DEF TypeOK, BootTables
<1>5. \A i \in Index : mem'[BootDirectory][i] =
        IF i \in {0, KERNEL_ENTRY} THEN SmallPage(BootTable) ELSE Zeroed[i]
  BY Constants DEF TypeOK, BootTables
<1> QED
  BY <1>3, <1>4, <1>5 DEF BootDirectoryFilled

\* The steps of _start, and kernel_main up to the memory map.
LEMMA BootStep ==
  ASSUME IInv, FillTables \/ EnablePaging \/ EnterKernel \/ ParseMultiboot
  PROVE  IInv'
<1> USE DEF IInv, Stage, boot, tasks
<1>1. CASE FillTables
  <2>1. mem' \in [Frames -> [Index -> Entries]] /\ BootDirectoryFilled'
    BY <1>1, BootTablesFill DEF FillTables, StagesInv
  <2>2. TypeOK'
    BY <1>1, <2>1 DEF FillTables, TypeOK
  <2>3. StagesInv'
    BY <1>1, <2>1 DEF FillTables, StagesInv, BeforePaging, OnBootDirectory, OnOwnDirectory
  <2>4. DirectoriesInv'
    BY <1>1 DEF FillTables, DirectoriesInv, OnOwnDirectory
  <2> QED
    BY <2>2, <2>3, <2>4
<1>2. CASE EnablePaging
  <2>1. TypeOK'
    BY <1>2, Constants DEF EnablePaging, TypeOK
  <2>2. StagesInv'
    BY <1>2 DEF EnablePaging, StagesInv, BeforePaging, OnBootDirectory, OnOwnDirectory,
                BootDirectoryFilled
  <2>3. DirectoriesInv'
    BY <1>2 DEF EnablePaging, DirectoriesInv, OnOwnDirectory
  <2> QED
    BY <2>1, <2>2, <2>3
<1>3. CASE EnterKernel
  <2>1. eip \in Frames /\ esp \in Frames /\ Low(eip) /\ Low(esp)
    BY <1>3 DEF EnterKernel, TypeOK, StagesInv, Pages
  <2>2. /\ eip' \in Frames /\ InWindow(eip') /\ VIR_TO_PHY(eip') = eip
        /\ esp' \in Frames /\ InWindow(esp') /\ VIR_TO_PHY(esp') = esp
    BY <1>3, <2>1, Addresses DEF EnterKernel
  <2>3. TypeOK'
    BY <1>3, <2>2 DEF EnterKernel, TypeOK, Pages
  <2>4. StagesInv'
    BY <1>3, <2>1, <2>2 DEF EnterKernel, StagesInv, BeforePaging, OnBootDirectory, OnOwnDirectory,
                BootDirectoryFilled
  <2>5. DirectoriesInv'
    BY <1>3 DEF EnterKernel, DirectoriesInv, OnOwnDirectory
  <2> QED
    BY <2>3, <2>4, <2>5
<1>4. CASE ParseMultiboot
  <2>1. free' \subseteq Frames /\ BootDirectory \notin free' /\ BootTable \notin free'
    BY <1>4, Constants DEF ParseMultiboot
  <2>2. TypeOK'
    BY <1>4, <2>1 DEF ParseMultiboot, TypeOK
  <2>3. StagesInv'
    BY <1>4 DEF ParseMultiboot, StagesInv, BeforePaging, OnBootDirectory, OnOwnDirectory,
                BootDirectoryFilled
  <2>4. DirectoriesInv'
    BY <1>4, <2>1 DEF ParseMultiboot, DirectoriesInv, OnOwnDirectory
  <2> QED
    BY <2>2, <2>3, <2>4
<1> QED
  BY <1>1, <1>2, <1>3, <1>4

\* vmm_init: the kernel's directory, its loading and the heap.
LEMMA KernelDirectoryStep ==
  ASSUME IInv, KernelDirectory
  PROVE  IInv'
<1> USE DEF IInv, Stage, tasks
<1>1. CASE FirstFree \in free /\ Reaches(FirstFree)
  <2> DEFINE d == vmm_map_kernel(paging_init_directory(Zeroed))
  <2>1. /\ d \in [Index -> Entries]
        /\ \A i \in Index : IF i >= KERNEL_ENTRY THEN d[i] = BigPage(i) ELSE ~d[i].present
    BY MapKernel, ZeroedType
  <2>2. /\ mem' = [mem EXCEPT ![FirstFree] = d]
        /\ vmm_kernel_pd' = FirstFree /\ free' = free \ {FirstFree} /\ FirstFree \in Frames
    BY <1>1 DEF KernelDirectory, TypeOK
  <2> HIDE DEF d
  <2>3. TypeOK'
    BY <1>1, <2>1, <2>2 DEF KernelDirectory, TypeOK
  <2>4. KernelDirectoryAt(vmm_kernel_pd)'
    BY <2>1, <2>2 DEF KernelDirectoryAt, TypeOK, BigPage
  <2>5. BootDirectoryFilled'
    <3>1. FirstFree # BootDirectory /\ FirstFree # BootTable
      BY <1>1 DEF DirectoriesInv
    <3>2. BootDirectoryFilled
      BY DEF KernelDirectory, StagesInv, OnBootDirectory
    <3> QED
      BY <2>2, <3>1, <3>2, Constants DEF BootDirectoryFilled, TypeOK
  <2>6. StagesInv'
    BY <2>5 DEF KernelDirectory, StagesInv, BeforePaging, OnBootDirectory, OnOwnDirectory
  <2>7. DirectoriesInv'
    BY <2>2, <2>4, Constants DEF KernelDirectory, DirectoriesInv, OnOwnDirectory
  <2> QED
    BY <2>3, <2>6, <2>7
<1>2. CASE ~(FirstFree \in free /\ Reaches(FirstFree))
  <2>1. UNCHANGED <<mem, cr3, eip, esp, paging, free, vmm_kernel_pd, heap, task_cr3,
                    alive, current_task>> /\ astray' = "vmm_init"
    BY <1>2 DEF KernelDirectory
  <2>2. TypeOK'
    BY <2>1 DEF KernelDirectory, TypeOK
  <2>3. StagesInv'
    BY <2>1 DEF KernelDirectory, StagesInv, BeforePaging, OnBootDirectory, OnOwnDirectory,
                BootDirectoryFilled
  <2>4. DirectoriesInv'
    BY <2>1, Constants DEF KernelDirectory, DirectoriesInv, OnOwnDirectory
  <2> QED
    BY <2>2, <2>3, <2>4
<1> QED
  BY <1>1, <1>2

LEMMA LoadStep ==
  ASSUME IInv, paging_load_directory \/ HeapInit
  PROVE  IInv'
<1> USE DEF IInv, Stage, tasks
<1>1. CASE paging_load_directory
  <2>1. KernelDirectoryAt(vmm_kernel_pd)
    BY <1>1 DEF paging_load_directory, DirectoriesInv
  <2>2. cr3' = vmm_kernel_pd /\ cr3' \in Frames
    BY <1>1, <2>1, Addresses DEF paging_load_directory, KernelDirectoryAt
  <2>3. KernelDirectoryAt(vmm_kernel_pd)' /\ KernelDirectoryAt(cr3)'
    BY <1>1, <2>1, <2>2 DEF paging_load_directory, KernelDirectoryAt
  <2>4. TypeOK'
    BY <1>1, <2>2 DEF paging_load_directory, TypeOK
  <2>5. StagesInv'
    BY <1>1, <2>3 DEF paging_load_directory, StagesInv, BeforePaging, OnBootDirectory,
                      OnOwnDirectory
  <2>6. DirectoriesInv'
    BY <1>1, <2>3 DEF paging_load_directory, DirectoriesInv, OnOwnDirectory
  <2> QED
    BY <2>4, <2>5, <2>6
<1>2. CASE HeapInit
  <2>1. ASSUME NEW f \in heap' PROVE f \in Frames /\ InWindow(PHY_TO_VIR(f))
    <3>1. CASE f \in heap
      BY <3>1 DEF DirectoriesInv, TypeOK
    <3>2. CASE f \notin heap
      <4>1. f \in Frames /\ Reaches(f)
        BY <1>2, <2>1, <3>2 DEF HeapInit, HeapFrames, TypeOK
      <4>2. PHY_TO_VIR(f) \in Pages
        BY <4>1, Addresses DEF Pages
      <4>3. paging /\ KernelDirectoryAt(cr3)
        BY <1>2 DEF HeapInit, StagesInv, OnOwnDirectory
      <4> QED
        BY <4>1, <4>2, <4>3, KernelTranslation, Constants DEF Reaches, At
    <3> QED
      BY <3>1, <3>2
  <2>2. free' \subseteq free
    BY <1>2 DEF HeapInit
  <2>3. \A d : KernelDirectoryAt(d) => KernelDirectoryAt(d)'
    BY <1>2, <2>2 DEF HeapInit, KernelDirectoryAt
  <2>4. TypeOK'
    BY <1>2, <2>1, <2>2 DEF HeapInit, TypeOK
  <2>5. StagesInv'
    BY <1>2, <2>3 DEF HeapInit, StagesInv, BeforePaging, OnBootDirectory, OnOwnDirectory
  <2>6. DirectoriesInv'
    BY <1>2, <2>1, <2>2, <2>3 DEF HeapInit, DirectoriesInv, OnOwnDirectory
  <2> QED
    BY <2>4, <2>5, <2>6
<1> QED
  BY <1>1, <1>2

\* task_create.
LEMMA CreateStep ==
  ASSUME IInv, NEW t \in Tasks, CreateKernelTask(t) \/ CreateUserTask(t)
  PROVE  IInv'
<1> USE DEF IInv, boot
<1>1. CASE CreateKernelTask(t)
  <2>1. KernelDirectoryAt(vmm_kernel_pd)
    BY <1>1 DEF CreateKernelTask, Running, DirectoriesInv, OnOwnDirectory
  <2>2. task_cr3' = [task_cr3 EXCEPT ![t] = vmm_kernel_pd] /\ vmm_kernel_pd \in Frames
    BY <1>1, <2>1, Addresses DEF CreateKernelTask, KernelDirectoryAt
  <2>3. \A d : KernelDirectoryAt(d) => KernelDirectoryAt(d)'
    BY <1>1 DEF CreateKernelTask, KernelDirectoryAt
  <2>4. TypeOK'
    BY <1>1, <2>2 DEF CreateKernelTask, TypeOK
  <2>5. StagesInv'
    BY <1>1, <2>3 DEF CreateKernelTask, Running, StagesInv, BeforePaging, OnBootDirectory,
                      OnOwnDirectory
  <2>6. DirectoriesInv'
    BY <1>1, <2>1, <2>2, <2>3, Constants
       DEF CreateKernelTask, Running, DirectoriesInv, OnOwnDirectory, TypeOK
  <2> QED
    BY <2>4, <2>5, <2>6
<1>2. CASE CreateUserTask(t)
  <2>1. CASE FirstFree \in free /\ Reaches(FirstFree)
    <3>0. PICK f \in Frames : f = FirstFree /\ f \in free
      BY <2>1 DEF TypeOK
    <3> DEFINE d == vmm_map_kernel(paging_init_directory(mem[f]))
    <3>1. mem[f] \in [Index -> Entries]
      BY <3>0 DEF TypeOK
    <3>2. /\ d \in [Index -> Entries]
          /\ \A i \in Index : IF i >= KERNEL_ENTRY THEN d[i] = BigPage(i) ELSE ~d[i].present
      BY <3>1, MapKernel
    <3>3. /\ mem' = [mem EXCEPT ![f] = d] /\ free' = free \ {f}
          /\ task_cr3' = [task_cr3 EXCEPT ![t] = f] /\ alive' = alive \cup {t}
          /\ astray' = astray /\ astray = "no" /\ stage = "running"
      BY <1>2, <2>1, <3>0 DEF CreateUserTask, Running
    <3> HIDE DEF d
    <3>4. TypeOK'
      BY <1>2, <3>0, <3>2, <3>3 DEF CreateUserTask, TypeOK
    <3>5. KernelDirectoryAt(f)'
      BY <3>0, <3>2, <3>3 DEF KernelDirectoryAt, TypeOK, BigPage
    <3>6. \A x : KernelDirectoryAt(x) => KernelDirectoryAt(x)'
      BY <3>0, <3>3 DEF KernelDirectoryAt, TypeOK
    <3>7. StagesInv'
      BY <1>2, <3>3, <3>6 DEF CreateUserTask, StagesInv, BeforePaging, OnBootDirectory,
                        OnOwnDirectory
    <3>8. DirectoriesInv'
      BY <1>2, <3>0, <3>3, <3>5, <3>6, Constants
         DEF CreateUserTask, DirectoriesInv, OnOwnDirectory, TypeOK
    <3> QED
      BY <3>4, <3>7, <3>8
  <2>2. CASE ~(FirstFree \in free /\ Reaches(FirstFree))
    <3>1. UNCHANGED <<mem, cr3, eip, esp, stage, paging, free, vmm_kernel_pd, heap, task_cr3,
                      alive, current_task>> /\ astray' = "task_create"
      BY <1>2, <2>2 DEF CreateUserTask
    <3> QED
      BY <3>1 DEF TypeOK, StagesInv, DirectoriesInv, KernelDirectoryAt, BootDirectoryFilled,
                  BeforePaging, OnBootDirectory, OnOwnDirectory
  <2> QED
    BY <2>1, <2>2
<1> QED
  BY <1>1, <1>2

\* task_switch, and the end of a task.
LEMMA SwitchStep ==
  ASSUME IInv, NEW t \in Tasks \cup {Idle}, Switch(t) \/ KillTask(t)
  PROVE  IInv'
<1> USE DEF IInv, boot
<1>1. CASE Switch(t)
  <2>1. stage = "running" /\ KernelDirectoryAt(cr3) /\ cr3 \in Frames
    BY <1>1 DEF Switch, Running, StagesInv, OnOwnDirectory, KernelDirectoryAt
  <2>2. KernelDirectoryAt(task_cr3[t]) /\ task_cr3[t] \in Frames
    BY <1>1 DEF Switch, DirectoriesInv, KernelDirectoryAt
  <2>3. \A d : KernelDirectoryAt(d) => KernelDirectoryAt(d)'
    BY <1>1 DEF Switch, KernelDirectoryAt
  <2>4. esp' \in Pages /\ InWindow(esp')
    <3>1. CASE t = Idle
      BY <1>1, <3>1, Addresses, Constants DEF Switch, Pages
    <3>2. CASE t # Idle
      BY <1>1, <3>2, Addresses DEF Switch, Pages, DirectoriesInv, TypeOK
    <3> QED
      BY <3>1, <3>2
  <2>5. TypeOK'
    BY <1>1, <2>1, <2>2, <2>4 DEF Switch, TypeOK
  <2>6. StagesInv'
    BY <1>1, <2>1, <2>2, <2>3, <2>4 DEF Switch, StagesInv, BeforePaging, OnBootDirectory,
                                        OnOwnDirectory
  <2>7. DirectoriesInv'
    BY <1>1, <2>1, <2>2, <2>3, Constants DEF Switch, DirectoriesInv, OnOwnDirectory, TypeOK
  <2> QED
    BY <2>5, <2>6, <2>7
<1>2. CASE KillTask(t)
  <2>1. \A d : KernelDirectoryAt(d) => KernelDirectoryAt(d)'
    BY <1>2 DEF KillTask, KernelDirectoryAt
  <2>2. TypeOK'
    BY <1>2 DEF KillTask, TypeOK
  <2>3. StagesInv'
    BY <1>2, <2>1 DEF KillTask, Running, StagesInv, BeforePaging, OnBootDirectory, OnOwnDirectory
  <2>4. DirectoriesInv'
    BY <1>2, <2>1 DEF KillTask, Running, DirectoriesInv, OnOwnDirectory, TypeOK
  <2> QED
    BY <2>2, <2>3, <2>4
<1> QED
  BY <1>1, <1>2

\* No directory in use shows a frame at its own address, so paging_map gets
\* nowhere.
LEMMA MappingStrays ==
  ASSUME IInv, NEW p \in Pages, vmm_alloc_pages(p)
  PROVE  /\ astray' = "paging_map"
         /\ UNCHANGED <<mem, free, cr3, boot, vmm_kernel_pd, heap, tasks>>
<1>1. paging /\ KernelDirectoryAt(cr3) /\ vmm_kernel_pd \in Frames
  BY DEF vmm_alloc_pages, Running, IInv, StagesInv, DirectoriesInv, OnOwnDirectory,
         KernelDirectoryAt
<1>2. ASSUME NEW f \in Frames PROVE At(f) # f
  <2>1. At(f) = IF InWindow(f) THEN VIR_TO_PHY(f) ELSE None
    BY <1>1, KernelTranslation DEF IInv, At, Pages
  <2> QED
    BY <2>1, Addresses, Constants
<1>3. mem[vmm_kernel_pd][p[1]].address \in Frames
  BY <1>1 DEF IInv, TypeOK, Entries, Pages, Frames
<1>4. First(free \ {FirstFree}) \in Frames
  BY FirstIsFrame DEF IInv, TypeOK
<1> QED
  BY <1>2, <1>3, <1>4 DEF vmm_alloc_pages, PresentTable

(***************************************************************************)
(* The theorems.                                                           *)
(***************************************************************************)

LEMMA NextInvariant == IInv /\ [Next]_vars => IInv'
<1> SUFFICES ASSUME IInv, [Next]_vars PROVE IInv'
  OBVIOUS
<1>1. CASE FillTables \/ EnablePaging \/ EnterKernel \/ ParseMultiboot
  BY <1>1, BootStep
<1>2. CASE KernelDirectory
  BY <1>2, KernelDirectoryStep
<1>3. CASE paging_load_directory \/ HeapInit
  BY <1>3, LoadStep
<1>4. ASSUME NEW t \in Tasks, CreateKernelTask(t) \/ CreateUserTask(t) PROVE IInv'
  BY <1>4, CreateStep
<1>5. ASSUME NEW t \in Tasks \cup {Idle}, Switch(t) \/ KillTask(t) PROVE IInv'
  BY <1>5, SwitchStep
<1>6. CASE UNCHANGED <<mem, cr3, boot, free, vmm_kernel_pd, heap, tasks>>
           /\ astray' \in {astray, "paging_map"}
  BY <1>6 DEF IInv, boot, tasks, TypeOK, StagesInv, DirectoriesInv, KernelDirectoryAt,
              BootDirectoryFilled, BeforePaging, OnBootDirectory, OnOwnDirectory
<1>7. ASSUME NEW p \in Pages, vmm_alloc_pages(p) PROVE IInv'
  BY <1>6, <1>7, MappingStrays
<1>8. CASE UNCHANGED vars
  BY <1>6, <1>8 DEF vars
<1> QED
  BY <1>1, <1>2, <1>3, <1>4, <1>5, <1>7, <1>8 DEF Next

\* The frames, directories and addresses keep their shape.
THEOREM TypeCorrect == Spec => []TypeOK
<1>1. IInv => TypeOK
  BY DEF IInv
<1> QED
  BY <1>1, InitInvariant, NextInvariant, PTL DEF Spec

\* Code, stack and the loader's structures stay where the CPU finds them,
\* whatever directory is loaded.
THEOREM KernelMapped == Spec => []KernelStaysMapped
<1>1. IInv => KernelStaysMapped
  <2> SUFFICES ASSUME IInv PROVE KernelStaysMapped
    OBVIOUS
  <2>1. CASE BeforePaging
    BY <2>1, Constants DEF BeforePaging, IInv, StagesInv, KernelStaysMapped, At, Meant, Low, InWindow
  <2>2. CASE OnBootDirectory
    <3>1. /\ paging /\ cr3 = BootDirectory /\ BootDirectoryFilled
          /\ eip \in Pages /\ (Low(eip) \/ (InWindow(eip) /\ Low(VIR_TO_PHY(eip))))
          /\ esp \in Pages /\ (Low(esp) \/ (InWindow(esp) /\ Low(VIR_TO_PHY(esp))))
      BY <2>2 DEF IInv, TypeOK, StagesInv, OnBootDirectory
    <3>2. At(eip) = Meant(eip) /\ At(esp) = Meant(esp)
      BY <3>1, BootTranslation DEF At
    <3>3. MultibootInfo \in Pages /\ Low(MultibootInfo) /\ Meant(MultibootInfo) = MultibootInfo
      BY Constants DEF Pages, Low, Meant, InWindow
    <3>4. At(MultibootInfo) = MultibootInfo
      BY <3>1, <3>3, BootTranslation DEF At
    <3> QED
      BY <3>2, <3>4 DEF KernelStaysMapped
  <2>3. CASE OnOwnDirectory
    <3>1. /\ TypeOK /\ paging /\ KernelDirectoryAt(cr3)
          /\ eip \in Pages /\ InWindow(eip) /\ esp \in Pages /\ InWindow(esp)
      BY <2>3 DEF IInv, TypeOK, StagesInv
    <3>2. Translate(cr3, eip) = VIR_TO_PHY(eip) /\ Translate(cr3, esp) = VIR_TO_PHY(esp)
      BY <3>1, KernelTranslation
    <3> QED
      BY <2>3, <3>1, <3>2 DEF KernelStaysMapped, At, Meant, OnOwnDirectory
  <2> QED
    BY <2>1, <2>2, <2>3 DEF IInv, TypeOK, BeforePaging, OnBootDirectory, OnOwnDirectory
<1> QED
  BY <1>1, InitInvariant, NextInvariant, PTL DEF Spec

\* Every directory of a task translates as the kernel's does, whatever its
\* frame held before.
THEOREM DirectoriesAgree == Spec => []DirectoriesAlike
<1>1. IInv => DirectoriesAlike
  <2> SUFFICES ASSUME IInv, NEW d, d # None, NEW p \in Pages,
                      d = vmm_kernel_pd \/ \E t \in Tasks \cup {Idle} : d = task_cr3[t]
               PROVE  Translate(d, p) = IF InWindow(p) THEN VIR_TO_PHY(p) ELSE None
    BY DEF DirectoriesAlike
  <2>1. TypeOK /\ KernelDirectoryAt(d)
    BY DEF IInv, DirectoriesInv
  <2> QED
    BY <2>1, KernelTranslation
<1> QED
  BY <1>1, InitInvariant, NextInvariant, PTL DEF Spec

\* A page never changes its meaning under a loaded directory.
THEOREM TranslationsFresh == Spec => NoStaleTranslation
<1>1. ASSUME IInv, [Next]_vars, paging, cr3' = cr3, NEW p \in Pages
      PROVE  Translate(cr3, p)' = Translate(cr3, p)
  <2> p[1] \in Index /\ p[2] \in Index
    BY DEF Pages, Frames
  <2>1. CASE mem' = mem
    BY <1>1, <2>1 DEF Translate
  <2>2. CASE KernelDirectory /\ mem' # mem
    <3>1. PICK f \in free : \E d : mem' = [mem EXCEPT ![f] = d]
      BY <2>2 DEF KernelDirectory
    <3>2. mem'[BootDirectory] = mem[BootDirectory] /\ mem'[BootTable] = mem[BootTable]
      BY <1>1, <3>1 DEF IInv, TypeOK, DirectoriesInv
    <3>3. BootDirectoryFilled /\ cr3 = BootDirectory
      BY <1>1, <2>2 DEF KernelDirectory, Stage, IInv, StagesInv, OnBootDirectory
    <3>4. mem[cr3][p[1]].present => mem[cr3][p[1]].address = BootTable
      BY <3>3 DEF BootDirectoryFilled, SmallPage, Zeroed
    <3> QED
      BY <1>1, <3>2, <3>3, <3>4 DEF Translate
  <2>3. ASSUME NEW t \in Tasks, CreateUserTask(t), mem' # mem
        PROVE  Translate(cr3, p)' = Translate(cr3, p)
    <3>1. PICK f \in free : \E d : mem' = [mem EXCEPT ![f] = d]
      BY <2>3 DEF CreateUserTask
    <3>2. KernelDirectoryAt(cr3)
      BY <1>1, <2>3 DEF CreateUserTask, Running, IInv, StagesInv, OnOwnDirectory
    <3>3. mem'[cr3] = mem[cr3]
      BY <1>1, <3>1, <3>2 DEF KernelDirectoryAt, IInv, TypeOK
    <3>4. mem[cr3][p[1]] = BigPage(p[1]) \/ ~mem[cr3][p[1]].present
      BY <3>2 DEF KernelDirectoryAt
    <3>5. mem[cr3][p[1]].page_size \/ ~mem[cr3][p[1]].present
      BY <3>4 DEF BigPage
    <3> QED
      BY <1>1, <3>3, <3>5 DEF Translate
  <2>4. ASSUME NEW q \in Pages, vmm_alloc_pages(q) PROVE mem' = mem
    BY <1>1, <2>4, MappingStrays
  <2>5. ~FillTables
    BY <1>1 DEF FillTables, Stage, IInv, StagesInv, BeforePaging
  <2>6. mem' = mem \/ KernelDirectory \/ \E t \in Tasks : CreateUserTask(t)
    BY <1>1, <2>4, <2>5 DEF Next, vars, EnablePaging, EnterKernel, ParseMultiboot,
       paging_load_directory, HeapInit, CreateKernelTask, Switch, KillTask
  <2> QED
    BY <2>1, <2>2, <2>3, <2>6
<1>2. IInv /\ [Next]_vars =>
        [paging /\ cr3' = cr3 => \A p \in Pages : Translate(cr3, p)' = Translate(cr3, p)]_vars
  BY <1>1
<1> QED
  BY <1>2, InitInvariant, NextInvariant, PTL DEF Spec, NoStaleTranslation

\* vmm_init, the heap and a user task fail only for want of memory, or for
\* memory the window does not show, and paging_map always does.
THEOREM StraysAccountedFor == Spec => []StraysExplained
<1>1. Init => StraysExplained
  BY DEF Init, StraysExplained
<1>2. ASSUME IInv, StraysExplained, KernelDirectory PROVE StraysExplained'
  <2>1. CASE FirstFree \in free /\ Reaches(FirstFree)
    BY <1>2, <2>1 DEF KernelDirectory, Stage, StraysExplained
  <2>2. CASE ~(FirstFree \in free /\ Reaches(FirstFree))
    <3>1. astray' = "vmm_init" /\ free' = free /\ paging /\ cr3 = BootDirectory
            /\ BootDirectoryFilled /\ free \subseteq Frames
      BY <1>2, <2>2 DEF KernelDirectory, Stage, IInv, StagesInv, OnBootDirectory, TypeOK
    <3>2. ASSUME free # {}, Low(FirstFree) PROVE FALSE
      <4>1. FirstFree \in free /\ FirstFree \in Frames
        BY <3>1, <3>2, FirstExists DEF FirstFree
      <4>2. PHY_TO_VIR(FirstFree) \in Pages /\ InWindow(PHY_TO_VIR(FirstFree))
              /\ VIR_TO_PHY(PHY_TO_VIR(FirstFree)) = FirstFree
        BY <3>2, <4>1, Addresses DEF Pages
      <4>3. Translate(BootDirectory, PHY_TO_VIR(FirstFree)) = FirstFree
        BY <3>1, <3>2, <4>2, BootTranslation DEF Meant
      <4> QED
        BY <2>2, <3>1, <4>1, <4>3 DEF Reaches, At
    <3>3. FirstFree' = FirstFree
      BY <3>1 DEF FirstFree
    <3> QED
      BY <3>1, <3>2, <3>3 DEF StraysExplained, Low
  <2> QED
    BY <2>1, <2>2
<1>3. ASSUME IInv, NEW f \in Frames, InWindow(PHY_TO_VIR(f)), OnOwnDirectory PROVE Reaches(f)
  <2>1. paging /\ KernelDirectoryAt(cr3) /\ TypeOK
    BY <1>3 DEF IInv, StagesInv
  <2>2. PHY_TO_VIR(f) \in Pages /\ VIR_TO_PHY(PHY_TO_VIR(f)) = f
    BY Addresses DEF Pages
  <2>3. Translate(cr3, PHY_TO_VIR(f)) = f
    BY <1>3, <2>1, <2>2, KernelTranslation
  <2> QED
    BY <2>1, <2>3 DEF Reaches, At
<1>4. ASSUME IInv, StraysExplained, HeapInit PROVE StraysExplained'
  <2>1. HEAP_PAGES \in Nat /\ free \subseteq Frames /\ OnOwnDirectory
    BY <1>4, PagingAssumption DEF HeapInit, Stage, OnOwnDirectory, IInv, TypeOK
  <2>2. HeapFrames = Lowest(free, HEAP_PAGES)
    BY DEF HeapFrames, Lowest, Below
  <2>3. Cardinality(free) \in Nat
    BY <2>1, FramesFinite
  <2>4. CASE Cardinality(HeapFrames) = HEAP_PAGES /\ \A f \in HeapFrames : Reaches(f)
    BY <1>4, <2>4 DEF HeapInit, Stage, StraysExplained
  <2>5. CASE Cardinality(HeapFrames) # HEAP_PAGES
    <3>1. Cardinality(free) < HEAP_PAGES
      BY <2>1, <2>2, <2>3, <2>5, LowestCount
    <3> QED
      BY <1>4, <2>5, <3>1 DEF HeapInit, StraysExplained
  <2>6. ASSUME NEW f \in HeapFrames, ~Reaches(f) PROVE StraysExplained'
    <3>1. f \in free /\ f \in Frames
      BY <2>1 DEF HeapFrames
    <3>2. ~InWindow(PHY_TO_VIR(f))
      BY <1>3, <1>4, <2>1, <2>6, <3>1
    <3> QED
      BY <1>4, <2>6, <3>1, <3>2 DEF HeapInit, StraysExplained
  <2> QED
    BY <2>4, <2>5, <2>6
<1>5. ASSUME IInv, StraysExplained, NEW t \in Tasks, CreateUserTask(t) PROVE StraysExplained'
  <2>1. free \subseteq Frames /\ OnOwnDirectory
    BY <1>5 DEF CreateUserTask, Running, OnOwnDirectory, IInv, TypeOK
  <2>2. CASE FirstFree \in free /\ Reaches(FirstFree)
    BY <1>5, <2>2 DEF CreateUserTask, Running, StraysExplained
  <2>3. CASE ~(FirstFree \in free /\ Reaches(FirstFree))
    <3>1. free # {} => FirstFree \in free
      BY <2>1, FirstExists DEF FirstFree
    <3>2. free = {} \/ ~InWindow(PHY_TO_VIR(FirstFree))
      BY <1>3, <1>5, <2>1, <2>3, <3>1
    <3>3. FirstFree' = FirstFree /\ free' = free /\ astray' = "task_create"
      BY <1>5, <2>3 DEF CreateUserTask, FirstFree
    <3>4. PHY_TO_VIR(FirstFree)' = PHY_TO_VIR(FirstFree)
      BY <3>3 DEF PHY_TO_VIR
    <3> QED
      BY <3>2, <3>3 DEF StraysExplained
  <2> QED
    BY <2>2, <2>3
<1>6. ASSUME IInv, NEW p \in Pages, vmm_alloc_pages(p) PROVE StraysExplained'
  BY <1>6, MappingStrays DEF StraysExplained
<1>7. ASSUME StraysExplained, astray = "no", astray' = "no" PROVE StraysExplained'
  BY <1>7 DEF StraysExplained
<1>8. ASSUME StraysExplained, UNCHANGED vars PROVE StraysExplained'
  BY <1>8 DEF StraysExplained, FirstFree, vars
<1>9. IInv /\ StraysExplained /\ [Next]_vars => StraysExplained'
  <2> SUFFICES ASSUME IInv, StraysExplained, [Next]_vars PROVE StraysExplained'
    OBVIOUS
  <2>1. CASE FillTables \/ EnablePaging \/ EnterKernel \/ ParseMultiboot \/ paging_load_directory
    BY <1>7, <2>1 DEF FillTables, EnablePaging, EnterKernel, ParseMultiboot,
                      paging_load_directory, Stage
  <2>2. ASSUME NEW t \in Tasks \cup {Idle}, CreateKernelTask(t) \/ Switch(t) \/ KillTask(t)
        PROVE  StraysExplained'
    BY <1>7, <2>2 DEF CreateKernelTask, Switch, KillTask, Running
  <2> QED
    BY <1>2, <1>4, <1>5, <1>6, <1>8, <2>1, <2>2 DEF Next
<1> QED
  BY <1>1, <1>9, InitInvariant, NextInvariant, PTL DEF Spec
=============================================================================
