---------------------------- MODULE MCEmailQueue ----------------------------
(* EmailQueue on small instances. *)
EXTENDS EmailQueue

OneJob == {"welcome"}

(* Two slots of the server's worker and one of the worker script. *)
ThreeSlots == {"server1", "server2", "script1"}
=============================================================================
