SPECIFICATION Spec
CONSTANTS
  Tenants = {"A"}
  ApiKeys = {"a1"}
  TenantOf <- OneTenant
  Requests = {q1, q2, q3}
  GlobalLimit = 3
  GlobalWindow = 6
  BurstLimit = 2
  BurstWindow = 3
  MaxClock = 3
CHECK_DEADLOCK FALSE
INVARIANT LimitHolds
