---------------------------- MODULE MCOpen5GSPods ----------------------------
(* Small instances of Open5GSPods, with the specs of MCOpen5GSController. *)
EXTENDS Open5GSPods, MCOpen5GSController
===============================================================================
