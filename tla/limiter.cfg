SPECIFICATION LiveSpec
CONSTANTS
  Tenants = {"A", "B"}
  ApiKeys = {"a1", "b1"}
  TenantOf <- TwoTenants
  Requests = {q1, q2, q3}
  GlobalLimit = 2
  GlobalWindow = 2
  BurstLimit = 1
  BurstWindow = 1
  MaxClock = 2
CHECK_DEADLOCK FALSE
INVARIANTS
  TypeOK
  SetBounded
  WithinWindow
  OwnStamps
  StampsInOrder
PROPERTIES
  RequestsPass
