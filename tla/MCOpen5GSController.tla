------------------------- MODULE MCOpen5GSController -------------------------
(***************************************************************************)
(* Small instances of Open5GSController: the specs its owner may give a    *)
(* resource, and the bounds on the environment, per run.                   *)
(***************************************************************************)
EXTENDS Open5GSController

Unset == [enabled |-> Nil, serviceAccount |-> Nil, metrics |-> Nil, serviceMonitor |-> Nil,
          service |-> <<>>, gtpuDev |-> Nil, deploymentAnnotations |-> Nil, unprivileged |-> Nil]
Empty ==
  [functions |-> [c \in Names |-> Unset],
   configuration |-> [mcc |-> Nil, mnc |-> Nil, region |-> Nil, set |-> Nil, tac |-> Nil, slices |-> Nil],
   open5gsImage |-> Nil, webuiImage |-> Nil, mongoDBVersion |-> Nil]
With(field, value) == [Empty EXCEPT !.functions = [c \in Names |-> [@[c] EXCEPT ![field] = value]]]

\* "plain" leaves everything to the defaults; each other version sets something.
MCSpecOf ==
  [v \in Versions |->
     CASE v = "plain" -> Empty
       [] v = "disabled" -> With("enabled", FALSE)
       [] v = "unmetered" -> [Empty EXCEPT !.functions = [c \in Names |->
                                [@[c] EXCEPT !.metrics = FALSE, !.serviceMonitor = FALSE]]]
       [] v = "plmn" -> [Empty EXCEPT !.configuration.mcc = "001"]
       [] v = "nodePortAccount" -> [Empty EXCEPT !.functions = [c \in Names |->
                                [@[c] EXCEPT !.serviceAccount = TRUE,
                                             !.service = <<[name |-> "ngap", serviceType |-> "NodePort"],
                                                           [name |-> "ngap", serviceType |-> "LoadBalancer"]>>]]]]

Core == {<<"core">>}
\* The name of one instance is the name of a function of the other.
Nested == {<<"core">>, <<"core", "nrf">>}
NoOthers == {}
\* A Service of somebody else's that carries the labels of a function.
OtherService == {[kind |-> "Service", name |-> <<"core", "nrf", "other">>]}
\* Of the Services of a function, one stands for all.
OneOfEach == Keys \ {Key("Service", <<"core">>, "upf", <<port>>) : port \in {"gtpu", "metrics"}}
\* Besides, an object whose cache may lag.
SomeKeys ==
  OtherService \cup {Key("Deployment", <<"core">>, "nrf", <<>>)}

Budget(create, edit, delete, tamper, crd, fault, crash) ==
  [event \in Events |->
     CASE event = "create" -> create [] event = "edit" -> edit [] event = "delete" -> delete
       [] event = "tamper" -> tamper [] event = "crd" -> crd
       [] event = "fault" -> fault [] event = "crash" -> crash]

\*                      create edit delete tamper crd fault crash
BoundSafety ==   Budget(2, 0, 1, 1, 0, 0, 0)
BoundUPF ==      Budget(1, 1, 0, 1, 2, 1, 1)
BoundPods ==     Budget(1, 1, 0, 0, 1, 1, 0)
BoundTwice ==    Budget(2, 0, 1, 0, 0, 0, 0)

===============================================================================
