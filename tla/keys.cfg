SPECIFICATION LiveSpec
CONSTANTS
  owner1 = owner1
  member1 = member1
  k1 = k1
  k2 = k2
  Users <- MCUsers
  Owners = {owner1}
  Keys = {k1, k3, k4}
  SeedOwner <- OneSeedOwner
  Requests = {q1, q2}
INVARIANTS
  TypeOK
  KeyHasOwner
  SuccessorFirst
  TimersOnlyForRetired
  DeletionExplained
PROPERTIES
  ImplementsLifecycle
  RequestsEnd
  TimersRun
