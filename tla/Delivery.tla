------------------------------ MODULE Delivery ------------------------------
(***************************************************************************)
(* What the email queue promises for each job: it stays open until it is   *)
(* done, which takes at least one mail, or given up; then nothing about    *)
(* its outcome changes.                                                    *)
(***************************************************************************)
EXTENDS Naturals

CONSTANT Jobs

VARIABLES outcome,  \* "open", "done" or "givenUp"
          mailed    \* the jobs for which a mail has gone out

Init == /\ outcome = [j \in Jobs |-> "open"]
        /\ mailed = {}

Mail(j) == mailed' = mailed \cup {j} /\ UNCHANGED outcome

Finish(j) == /\ outcome[j] = "open"
             /\ j \in mailed
             /\ outcome' = [outcome EXCEPT ![j] = "done"]
             /\ UNCHANGED mailed

GiveUp(j) == /\ outcome[j] = "open"
             /\ outcome' = [outcome EXCEPT ![j] = "givenUp"]
             /\ UNCHANGED mailed

Next == \E j \in Jobs : Mail(j) \/ Finish(j) \/ GiveUp(j)

Spec == Init /\ [][Next]_<<outcome, mailed>>
=============================================================================
