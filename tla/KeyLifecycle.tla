---------------------------- MODULE KeyLifecycle ----------------------------
(***************************************************************************)
(* The life an API key is promised: it is issued once, active; it may be   *)
(* switched off; and it may be removed, together with others when their    *)
(* owner is removed.  No step brings a key back.                           *)
(***************************************************************************)
CONSTANT Keys

VARIABLE status  \* "unused" before the key exists

Exists(k) == status[k] \in {"active", "inactive"}

Init == status \in [Keys -> {"unused", "active"}]

Issue(k) == /\ status[k] = "unused"
            /\ status' = [status EXCEPT ![k] = "active"]

SwitchOff(k) == /\ status[k] = "active"
                /\ status' = [status EXCEPT ![k] = "inactive"]

Remove(S) == /\ \A k \in S : Exists(k)
             /\ status' = [k \in Keys |-> IF k \in S THEN "deleted" ELSE status[k]]

Next == \/ \E k \in Keys : Issue(k) \/ SwitchOff(k)
        \/ \E S \in SUBSET Keys : Remove(S)

Spec == Init /\ [][Next]_status
=============================================================================
