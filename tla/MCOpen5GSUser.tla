---------------------------- MODULE MCOpen5GSUser ----------------------------
(***************************************************************************)
(* Small instances of Open5GSUser: the users, the specs each may have, the *)
(* documents scripts write, and the bounds on the environment, per run.    *)
(***************************************************************************)
EXTENDS Open5GSUserStore

CONSTANTS u1, u2

MCAtoiTable == [sst \in {"1", "2"} |-> IF sst = "1" THEN 1 ELSE 2]
MCSSTs == {"", "1", "2"}
MCSDs == {"", "0x1"}
MCAPNs == {"", "internet", "ims"}

ProfileOf(imsi, key, sst, sd, apn) ==
  [imsi |-> imsi, key |-> key, opc |-> "opc", sst |-> sst, sd |-> sd, apn |-> apn]
FullSpec(imsi, key, sst) ==
  [profile |-> ProfileOf(imsi, key, sst, "0x1", "ims"),
   open5gs |-> [name |-> "core", namespace |-> "ns1"]]

OneNamespace == [u \in Users |-> "ns1"]
Core(namespace) == [name |-> "core", namespace |-> namespace]
CoreInNs1 == {Core("ns1")}

\* A user that may rotate its key.
RotatingKeys == [u \in Users |-> {FullSpec("imsi1", k, "1") : k \in {"k1", "k2"}}]
\* Both users have the same IMSI; one of them may rotate its key.
SharedIMSI ==
  [u \in Users |-> {FullSpec("imsi1", k, "1") : k \in IF u = u1 THEN {"k1", "k2"} ELSE {"k2"}}]
\* A user that moves to another slice.
ChangingSST == [u \in Users |-> {FullSpec("imsi1", "k1", sst) : sst \in {"1", "2"}}]

\* A script that changes credentials and APN of the first subscriber.
ScriptDocuments ==
  {[imsi |-> "imsi1", k |-> "k2", opc |-> "opc", sst |-> BsonInteger(1), sd |-> NoField, name |-> "internet"],
   [imsi |-> "imsi1", k |-> "k1", opc |-> "opc", sst |-> [gotype |-> "int64", n |-> 2], sd |-> "0x1", name |-> "ims"]}

Budget(create, edit, delete, external, core, fault, lookup, crash) ==
  [kind \in Kinds |->
     CASE kind = "create" -> create [] kind = "edit" -> edit [] kind = "delete" -> delete
       [] kind = "external" -> external [] kind = "core" -> core
       [] kind = "fault" -> fault [] kind = "lookup" -> lookup [] kind = "crash" -> crash]

\*                       create edit delete external core fault lookup crash
BoundSafety ==    Budget(3, 1, 2, 1, 0, 1, 0, 1)
BoundConverges == Budget(1, 1, 1, 1, 2, 1, 1, 1)
BoundLate ==      Budget(1, 0, 1, 1, 0, 0, 0, 0)
BoundEdit ==      Budget(1, 1, 0, 0, 0, 0, 0, 0)

===============================================================================
