SPECIFICATION Spec
CONSTANTS
  alice = alice
  Ids = {alice, u2, u3}
  Tenants = {"acme", "globex"}
  Emails = {"a@x", "b@x"}
  Names = {"Ann", "Bob"}
  Seed <- OneUser
  Bodies <- SomeBodies
  Requests = {r1, r2, r3}
SYMMETRY Symmetry
CHECK_DEADLOCK FALSE
INVARIANTS
  TypeOK
  SharedEmailExplained
  DeletedOnce
  TrailTellsHistory
  InvitationAccounted
PROPERTIES
  ImplementsDirectory
