SPECIFICATION Spec
CONSTANTS
  PAGE_SIZE = 2
  Fanout = 2
  RECURSIVE_INDEX = 1
  Root <- MCRoot
  Pools <- MCPools
  Froms = {0, 1, 2}
  Tos = {3, 14}
  Flags <- MCFlags
  MaxPages = 2
INVARIANTS
  TypeOK
  TablesFormTree
  TablesBounded
  PanicsOnlyMisaligned
PROPERTIES
  MapAllOrNothing
  ImplementsAddressSpace
