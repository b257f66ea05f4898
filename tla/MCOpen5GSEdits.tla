---------------------------- MODULE MCOpen5GSEdits ----------------------------
(* The spec that leaves every field of the custom resource unset. *)
EXTENDS Open5GSEdits

MCEmptySpec ==
  [functions |-> [c \in Names |->
     [enabled |-> Nil, serviceAccount |-> Nil, metrics |-> Nil, serviceMonitor |-> Nil,
      service |-> <<>>, gtpuDev |-> Nil, deploymentAnnotations |-> Nil, unprivileged |-> Nil]],
   configuration |-> [mcc |-> Nil, mnc |-> Nil, region |-> Nil, set |-> Nil, tac |-> Nil, slices |-> Nil],
   open5gsImage |-> Nil, webuiImage |-> Nil, mongoDBVersion |-> Nil]
MCInstance == <<"core">>
AllButTwo == Names \ {"upf", "webui"}

===============================================================================
