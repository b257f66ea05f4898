------------------------------ MODULE MCOperator -------------------------------
(***************************************************************************)
(* A small instance of Operator: one Open5GS of which only MongoDB is      *)
(* looked at, and one user.                                                *)
(***************************************************************************)
EXTENDS Operator, MCOpen5GSController

CONSTANT u1

MCAtoiTable == [sst \in {"1"} |-> 1]
\* The profile is complete and the user names the one Open5GS there is.
MCSpecsOf ==
  [u \in Users |->
    {[profile |-> [imsi |-> "imsi1", key |-> k, opc |-> "opc", sst |-> "1", sd |-> "0x1", apn |-> "ims"],
      open5gs |-> Named(<<"core">>)] : k \in UserKeys}]

UserBudget(create, edit, delete, crash) ==
  [create |-> create, edit |-> edit, delete |-> delete, external |-> 0,
   core |-> 0, fault |-> 0, lookup |-> 0, crash |-> crash]

\* Others enlarge the claim, or take it away with its volume.
TheClaim == {ClaimKey(<<"core">>)}

\* create edit delete tamper crd fault crash; and of the user create edit delete crash
BoundOperator == Budget(1, 2, 0, 1, 0, 0, 1)
BoundOperatorUser == UserBudget(1, 0, 1, 1)

===============================================================================
