SPECIFICATION LiveSpec
CONSTANTS
  Jobs <- OneJob
  Workers <- ThreeSlots
  Attempts = 3
  MaxStalls = 2
CHECK_DEADLOCK FALSE
INVARIANTS
  TypeOK
  MailsBounded
  OverlapOnlyAfterStall
  LogHonest
PROPERTIES
  ImplementsDelivery
  JobsEnd
