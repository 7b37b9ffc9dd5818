SPECIFICATION KSpec
CONSTANTS
  PAGE_SIZE = 32
  Fanout = 4
  RECURSIVE_INDEX = 2
  MemoryMaps <- ManyMaps
  HHDM <- MCHHDM
  Sections <- MCSections
  KernelPhys <- MCKernelPhys
  HEAP_PAGES = 2
  StackPointers <- MCStackPointers
  STACK_SIZE = 64
  Sizes <- MCSizes
  PAGE_ALLOCATOR_START <- MCPageAllocatorStart
INVARIANT
  Level4ReachesRoot
