------------------------------ MODULE Draining ------------------------------
(***************************************************************************)
(* What a draining shutdown promises: the server takes clients only while  *)
(* it serves, and stops in good order only after the last one has left; a  *)
(* failure may come at any time and is final.                              *)
(***************************************************************************)
CONSTANT Clients

VARIABLES phase,  \* "starting", "serving", "draining", "drained", "stopped" or "failed"
          open    \* the clients that are connected

Init == phase = "starting" /\ open = {}

Serve == phase = "starting" /\ phase' = "serving" /\ UNCHANGED open

Accept(c) == /\ phase = "serving"
             /\ open' = open \cup {c}
             /\ UNCHANGED phase

Leave(gone) == /\ phase \in {"serving", "draining"}
               /\ open' = open \ gone
               /\ UNCHANGED phase

(* Draining starts with sending some of the clients away. *)
Drain(gone) == /\ phase = "serving"
               /\ phase' = "draining"
               /\ open' = open \ gone

Drained == /\ phase = "draining" /\ open = {}
           /\ phase' = "drained"
           /\ UNCHANGED open

Stop == phase = "drained" /\ phase' = "stopped" /\ UNCHANGED open

Fail == /\ phase \notin {"stopped", "failed"}
        /\ phase' = "failed"
        /\ UNCHANGED open

Next == \/ Serve \/ Drained \/ Stop \/ Fail
        \/ \E c \in Clients : Accept(c)
        \/ \E gone \in SUBSET Clients : Leave(gone) \/ Drain(gone)

Spec == Init /\ [][Next]_<<phase, open>>
=============================================================================
