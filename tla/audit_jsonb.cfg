SPECIFICATION Spec
CONSTANTS
  Tenants = {"t1"}
  Callers = {c1}
  Entries <- ReorderedEntries
  MaxClock = 1
  MaxRows = 1
INVARIANT ChainVerifies
