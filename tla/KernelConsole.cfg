SPECIFICATION Spec
CONSTANT MaxFaults = 4
INVARIANTS
  TypeOK
  WriterReady
  MainNeverWaits
  HungPanicWasReported
  ExceptionsAreHandled
PROPERTY
  PanicIsReported
