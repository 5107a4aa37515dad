SPECIFICATION Spec
CONSTANTS
  Tenants = {"t1"}
  Callers = {c1, c2}
  Entries <- StableEntries
  MaxClock = 2
  MaxRows = 2
INVARIANT ChainVerifies
