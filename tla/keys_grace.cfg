SPECIFICATION Spec
CONSTANTS
  owner1 = owner1
  member1 = member1
  k1 = k1
  k2 = k2
  Users <- MCUsers
  Owners = {owner1}
  Keys = {k1, k2, k3, k4}
  SeedOwner <- MCSeedOwner
  Requests = {q1, q2}
INVARIANT GraceHonoured
