SPECIFICATION KSpec
CONSTANTS
  PAGE_SIZE = 32
  Fanout = 4
  RECURSIVE_INDEX = 2
  MemoryMaps <- MCMemoryMaps
  HHDM <- MCHHDM
  Sections <- MCSections
  KernelPhys <- MCKernelPhys
  HEAP_PAGES = 2
  StackPointers <- MCStackPointers
  STACK_SIZE = 64
  Sizes <- MCSizes
  PAGE_ALLOCATOR_START <- MCPageAllocatorStart
INVARIANTS
  TypeOK
  FreeFramesAreFree
  KernelProtected
  BootTakesItsDemand
  BootPanicsExplained
  BootErrorsExplained
PROPERTIES
  BootAdvances
  LoadedTableIsFinal
  LoadEndsAllocation
