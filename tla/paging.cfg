SPECIFICATION Spec
CONSTANTS
  ENTRIES = 4
  KERNEL_ENTRY = 2
  BootDirectory <- FrameDirectory
  BootTable <- FrameTable
  BootCode <- FrameCode
  BootStack <- FrameCode
  MultibootInfo <- FrameCode
  LastImageFrame <- FrameCode
  MemoryRanges <- RangesSmall
  HEAP_PAGES = 2
  Leftovers <- LeftoversSmall
  Idle = idle
  Tasks = {t1, t2}
  None = none
INVARIANTS
  TypeOK
  KernelStaysMapped
  DirectoriesAlike
  StraysExplained
PROPERTIES
  NoStaleTranslation
CHECK_DEADLOCK FALSE
