----------------------------- MODULE MCApiKeys ------------------------------
(* ApiKeys on a small instance: an owner and a member with one seeded key    *)
(* each.                                                                     *)
EXTENDS ApiKeys, TLC

CONSTANTS owner1, member1, k1, k2

MCUsers == {owner1, member1}
OneSeedOwner == k1 :> owner1
MCSeedOwner == (k1 :> owner1) @@ (k2 :> member1)
=============================================================================
