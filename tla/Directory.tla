----------------------------- MODULE Directory ------------------------------
(***************************************************************************)
(* What a directory of users promises: whoever joins gets an id that       *)
(* nobody ever had; a change concerns one user who is there, and moves it  *)
(* to a free id at most; a removed user stays removed; and no tenant ever  *)
(* has two users with one email.                                           *)
(***************************************************************************)
CONSTANTS Ids, Rows, Nobody

VARIABLES row,      \* each id's row, or Nobody
          enrolled  \* the ids that users have had so far

Present == {u \in Ids : row[u] # Nobody}

Distinct == \A u, v \in Present :
              u # v => row[u].tenant # row[v].tenant \/ row[u].email # row[v].email

Init == /\ row \in [Ids -> Rows \cup {Nobody}]
        /\ enrolled = Present
        /\ Distinct

Enrol(u, r) == /\ u \notin enrolled
               /\ row' = [row EXCEPT ![u] = r]
               /\ enrolled' = enrolled \cup {u}

(* u's row becomes r, under the id v. *)
Change(u, v, r) == /\ u \in Present
                   /\ v = u \/ v \notin Present
                   /\ row' = [row EXCEPT ![u] = Nobody, ![v] = r]
                   /\ enrolled' = enrolled \cup {v}

Remove(u) == /\ u \in Present
             /\ row' = [row EXCEPT ![u] = Nobody]
             /\ UNCHANGED enrolled

Next == /\ \E u \in Ids : \/ Remove(u)
                          \/ \E r \in Rows : \/ Enrol(u, r)
                                             \/ \E v \in Ids : Change(u, v, r)
        /\ Distinct'

Spec == Init /\ [][Next]_<<row, enrolled>>
=============================================================================
