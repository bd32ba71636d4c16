CONSTANTS
  ADDRESS_WORDS = 4096
  heap_start_vaddr = 100
  HEAP_MAX_SIZE = 76
  SLACK = 6
  Sizes <- Stacks
  MaxFrees = 1
  MemZeroOnFree = TRUE
  Data = 7
SPECIFICATION Spec
INVARIANTS BlocksTile FreeListComplete LiveDataIntact
PROPERTIES AllocatorImplemented
