------------------------------ MODULE HashTree ------------------------------
(***************************************************************************)
(* What the audit trail promises whatever the interleaving of its writers: *)
(* an append-only store of digests.  Every node that is ever added has a   *)
(* digest of its own and hangs under a digest that its own tenant already  *)
(* stored, or starts a tree of its own.  Nothing is changed or removed.    *)
(* Whether a tenant's nodes form one chain is not promised here: that is   *)
(* the question AuditChain asks.                                           *)
(***************************************************************************)
CONSTANTS Tenants,  \* the tenants that own nodes
          Root      \* the parent of a node that starts a tree

VARIABLE nodes      \* set of records with tenantId, parent and digest

Init == nodes = {}

(* A node of tenant t may be added under parent p. *)
Parent(t, p) == p = Root \/ \E m \in nodes : m.tenantId = t /\ m.digest = p

Append == \E n \in nodes' :
            /\ n.tenantId \in Tenants
            /\ Parent(n.tenantId, n.parent)
            /\ \A m \in nodes : m.digest # n.digest
            /\ nodes' = nodes \cup {n}

Spec == Init /\ [][Append]_nodes
=============================================================================
