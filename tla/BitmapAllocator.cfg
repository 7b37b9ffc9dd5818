SPECIFICATION Spec
CONSTANTS
  Bytes = 3
  SetupRanges <- MCSetupRanges
  Requests = {0, 1, 3, 8, 9, 16, 17, 24}
  FreeEnds = {0, 5, 8, 23, 24, 30, 193}
  MaxSetup = 3
INVARIANTS
  TypeOK
  HeldMarked
  NoClash
  CursorInsideOrDead
  FailureIsTruthful

  
