SPECIFICATION Spec
CONSTANTS
  PAGE_SIZE = 4
  Fanout = 4
  RECURSIVE_INDEX = 3
  Root = 400
  FrameBytes = 7
  PageBytes = 2
  UsableRanges <- MCUsableRanges
  AssignedRanges <- MCAssignedRanges
  PAGE_ALLOCATOR_START = 512
  WordSize = 1024
  Sizes <- MCSizes
  Flags <- MCFlags
  PhysAddrs <- MCPhysAddrs
  Offsets <- MCOffsets
  ValueSizes <- MCValueSizes
  MaxChunks = 2
INVARIANTS
  TypeOK
  ChunksStayMapped
  PagesOwnedOnce
  AdmittedAccessIsMapped
  GrantsAreFresh
