------------------------------ MODULE MCUsers -------------------------------
(* Users on a small instance: one user exists, two can be created, and an     *)
(* update sets one field, or all but the id.                                  *)
EXTENDS Users, TLC

CONSTANTS alice

Some(S) == CHOOSE x \in S : TRUE

OneUser == alice :> [tenant |-> Some(Tenants), email |-> Some(Emails), name |-> Some(Names)]

Blank == [id |-> None, tenant |-> None, email |-> None, name |-> None]

SomeBodies ==      {[Blank EXCEPT !.id = u] : u \in Ids}
              \cup {[Blank EXCEPT !.tenant = t] : t \in Tenants}
              \cup {[Blank EXCEPT !.email = e] : e \in Emails}
              \cup {[Blank EXCEPT !.name = n] : n \in Names}
              \cup {[id |-> None, tenant |-> t, email |-> Some(Emails), name |-> Some(Names)] :
                     t \in Tenants}

Symmetry == Permutations(Requests) \cup Permutations(Ids \ {alice})
=============================================================================
