SPECIFICATION ScanSpec
CONSTANT Inputs <- MCInputs
INVARIANTS
  ScanTypeOK
  ReturnsFirstFit
PROPERTY
  Terminates
