---------------------------- MODULE MCAuditChain ----------------------------
(* AuditChain on small instances. *)
EXTENDS AuditChain, TLC

(* The calls of log() are interchangeable, and so are the tenants. *)
Symmetry == Permutations(Callers) \cup Permutations(Tenants)

(* One entry whose values survive JSONB, one whose keys are reordered. *)
MixedEntries == {KeyRevoked("k1"), UserCreated("u1")}

(* Only entries whose values survive JSONB, from three services. *)
StableEntries == {KeyRevoked("k1"), KeyRotated("k1"), TenantUpdated("t1"), TenantCreated("t1"),
                  UserUpdated("u1", <<"name">>)}

(* Entries whose hashed value is not the value the column returns. *)
ReorderedEntries == {UserCreated("u1"), UserDeleted("u1"),
                     Requested("POST_User", "unknown", <<"email", "name", "role">>),
                     Requested("PUT_User", "u1", Undefined)}
=============================================================================
