--------------------------- MODULE MCRateLimiter ----------------------------
(* RateLimiter on small instances: two tenants with a key each, or a tenant  *)
(* with one key.                                                             *)
EXTENDS RateLimiter, TLC

TwoTenants == ("a1" :> "A") @@ ("b1" :> "B")
OneTenant  == "a1" :> "A"
=============================================================================
