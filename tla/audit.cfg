SPECIFICATION Spec
CONSTANTS
  Tenants = {t1, t2}
  Callers = {c1, c2}
  Entries <- MixedEntries
  MaxClock = 2
  MaxRows = 3
SYMMETRY Symmetry
INVARIANTS
  TypeOK
  ParentStored
  NoForkWhenSerial
  SerialChainVerifies
  TamperLocated
PROPERTIES
  ImplementsHashTree
  PagesSurviveInsert
