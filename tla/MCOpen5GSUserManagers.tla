------------------------ MODULE MCOpen5GSUserManagers ------------------------
(***************************************************************************)
(* A small instance of Open5GSUserManagers: one user, made twice, that may *)
(* change its key.                                                         *)
(***************************************************************************)
EXTENDS Open5GSUserManagers, MCOpen5GSUser

BoundManagers == Budget(2, 0, 1, 0, 0, 1, 0, 0)

===============================================================================
