-------------------------- MODULE Open5GSUserManagers --------------------------
(***************************************************************************)
(* Two managers at once: leader election is off unless a flag asks for it, *)
(* and where it is on it does not call back what a pass has sent. Each has *)
(* its cache, its queue and its worker; API server and MongoDB are shared. *)
(*                                                                         *)
(* A call that a manager has given up, because it took too long or the     *)
(* manager was stopped, may still be executed by MongoDB later on.         *)
(*                                                                         *)
(* Here a document may be written for a resource that is gone, and an IMSI *)
(* may have several: NoOrphan and AtMostOneDocument are for one manager.   *)
(***************************************************************************)
EXTENDS Open5GSUser

VARIABLES
  seen2, queue2, worker2,  \* of the other manager, as seen, queue and worker
  late                     \* the calls to MongoDB that were given up and not executed

Other == INSTANCE Open5GSUser WITH seen <- seen2, queue <- queue2, worker <- worker2

thisManager == <<seen, queue, worker>>
otherManager == <<seen2, queue2, worker2>>
managersVars == <<vars, otherManager, late>>

ManagersInit == Init /\ Other!Init /\ late = {}

Environment == (Owners \/ Outside) /\ UNCHANGED <<otherManager, late>>
ThisManager == (Manager \/ Worker \/ Faults) /\ UNCHANGED <<otherManager, late>>
OtherManager == (Other!Manager \/ Other!Worker \/ Other!Faults) /\ UNCHANGED <<thisManager, late>>

-------------------------------------------------------------------------------
Writes == {"InsertOne", "UpdateOne", "DeleteOne"}

GiveUp ==
  /\ worker.pc \in Writes /\ RequestFails
  /\ late' = late \cup {worker} /\ UNCHANGED otherManager
OtherGivesUp ==
  /\ worker2.pc \in Writes /\ Other!RequestFails
  /\ late' = late \cup {worker2} /\ UNCHANGED thisManager

\* What a write makes of the documents it finds when it is executed.
Written(pc, p, found) ==
  IF pc = "InsertOne" THEN Append(found, AddedDocument(p))
  ELSE IF found = <<>> THEN <<>>
  ELSE IF pc = "UpdateOne" THEN <<UpdatedDocument(p, Head(found))>> \o Tail(found)
  ELSE Tail(found)

LateCall ==
  \E call \in late :
    LET p == history[call.user][call.rv].spec.profile
    IN  /\ call.core \in serving
        /\ SetDocs(call.core, p.imsi, Written(call.pc, p, docs[call.core][p.imsi]))
        /\ late' = late \ {call}
        /\ UNCHANGED <<history, thisManager, otherManager, cluster, used>>

ManagersNext == Environment \/ ThisManager \/ OtherManager \/ GiveUp \/ OtherGivesUp \/ LateCall

\* Both managers are scheduled as the one is in Open5GSUser; nothing makes a call
\* that was given up happen.
ManagersFairness ==
  /\ WF_managersVars(Worker /\ UNCHANGED <<otherManager, late>>)
  /\ WF_managersVars(Other!Worker /\ UNCHANGED <<thisManager, late>>)
  /\ \A u \in Users :
       /\ WF_managersVars(SyncCache(u) /\ UNCHANGED <<otherManager, late>>)
       /\ SF_managersVars(Start(u) /\ UNCHANGED <<otherManager, late>>)
       /\ WF_managersVars(StartGone(u) /\ UNCHANGED <<otherManager, late>>)
       /\ WF_managersVars(Other!SyncCache(u) /\ UNCHANGED <<thisManager, late>>)
       /\ SF_managersVars(Other!Start(u) /\ UNCHANGED <<thisManager, late>>)
       /\ WF_managersVars(Other!StartGone(u) /\ UNCHANGED <<thisManager, late>>)

ManagersSpec == ManagersInit /\ [][ManagersNext]_managersVars /\ ManagersFairness

-------------------------------------------------------------------------------
(***************************************************************************)
(* No IMSI collects documents for ever: each manager adds at most one to   *)
(* none, and so does each insert that was given up; however often the      *)
(* managers then meet, the documents get no more.                          *)
(***************************************************************************)
DocumentsBounded ==
  \A i \in Cores, imsi \in IMSIs : Len(docs[i][imsi]) <= 2 + used["fault"]

===============================================================================
