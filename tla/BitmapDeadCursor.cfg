SPECIFICATION Spec
CONSTANTS
  Bytes = 3
  SetupRanges <- MCTail
  Requests = {1, 16}
  FreeEnds = {}
  MaxSetup = 3
INVARIANT
  FailureMeansFull
