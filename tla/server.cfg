SPECIFICATION Spec
CONSTANTS
  Connections = {c1, c2}
  Triggers = {t1, t2}
INVARIANTS
  TypeOK
  CleanExit
  CutExplained
  DatabaseLostOnSignal
PROPERTIES
  ShutdownEnds
  ImplementsDraining
CHECK_DEADLOCK FALSE
