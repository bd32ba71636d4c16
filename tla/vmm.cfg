CONSTANTS
  ADDRESS_FRAMES = 24
  WORD_BITS = 2
  Ranges <- AllRanges
  Never <- NoRequest
  KERNEL_PHYS_END = 3
  MemoryMaps <- AllMaps
  HEAP_PAGES = 2
  UserTasks <- FirstIds
  KillIds <- TestKill
  NoDirectory <- NullCr3
SPECIFICATION Spec
CHECK_DEADLOCK FALSE
INVARIANTS TypeOK HeapIsReserved DirectoriesAreOwn GrantsAreMemory
