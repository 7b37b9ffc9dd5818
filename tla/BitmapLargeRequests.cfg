SPECIFICATION Spec
CONSTANTS
  Bytes = 137
  SetupRanges <- MCReserved
  Requests = {17}
  FreeEnds = {}
  MaxSetup = 2
INVARIANT
  NoClash
