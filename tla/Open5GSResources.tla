--------------------------- MODULE Open5GSResources ---------------------------
(***************************************************************************)
(* What an Open5GS custom resource asks for: the defaults that fill its    *)
(* spec, the Kubernetes objects of each network function, and the fields   *)
(* by which an object that exists is compared and updated.                 *)
(*                                                                         *)
(* An object's body has six fields. "labels" and "annotations" are its     *)
(* metadata. "spec" is the part of its spec or data that a comparison      *)
(* looks at; "rest" is the part that none looks at (replicas, ports,       *)
(* security contexts, init containers). "template" and "hash" are the pod  *)
(* template annotations of a Deployment. A field holds what it is made     *)
(* from: the inputs that are printed into a file, not the text.            *)
(*                                                                         *)
(* Names are sequences of their "-"-separated parts: the instance          *)
(* "core-upf" is <<"core", "upf">>. Everything is in one namespace.        *)
(*                                                                         *)
(* A definition marked "Mutant" is a faulty variant of the one after it.   *)
(* No specification uses it: put in its place, it breaks a property.       *)
(***************************************************************************)
EXTENDS Naturals, Sequences

CONSTANT Nil           \* a pointer, slice or string of the CR that is not set

Names == {"amf", "ausf", "bsf", "nrf", "nssf", "smf", "pcf", "scp",
          "udm", "udr", "upf", "webui", "mongodb"}
Monitored == {"amf", "smf", "pcf", "upf"}     \* those that have metrics

-------------------------------------------------------------------------------
OrElse(value, default) == IF value = Nil THEN default ELSE value
Default(value, default, has) == IF has THEN OrElse(value, default) ELSE value

setDefaultValues(spec) ==
  [functions |-> [c \in DOMAIN spec.functions |->
     LET f == spec.functions[c]
     IN  [enabled |-> OrElse(f.enabled, c # "webui"),
          serviceAccount |-> OrElse(f.serviceAccount, FALSE),
          metrics |-> Default(f.metrics, TRUE, c \in Monitored),
          serviceMonitor |-> Default(f.serviceMonitor, TRUE, c \in Monitored),
          service |-> f.service,
          gtpuDev |-> Default(f.gtpuDev, "eth0", c = "upf"),
          deploymentAnnotations |-> f.deploymentAnnotations,
          unprivileged |-> Default(f.unprivileged, FALSE, c = "upf")]],
   configuration |->
     [mcc |-> OrElse(spec.configuration.mcc, "999"),
      mnc |-> OrElse(spec.configuration.mnc, "70"),
      region |-> OrElse(spec.configuration.region, "2"),
      set |-> OrElse(spec.configuration.set, "1"),
      tac |-> OrElse(spec.configuration.tac, "0001"),
      slices |-> OrElse(spec.configuration.slices, <<[sst |-> "1", sd |-> "0xffffff"]>>)],
   open5gsImage |-> OrElse(spec.open5gsImage, "open5gs:2.7.5"),
   webuiImage |-> OrElse(spec.webuiImage, "open5gs-webui:2.7.5"),
   mongoDBVersion |-> OrElse(spec.mongoDBVersion, "mongodb:latest")]

-------------------------------------------------------------------------------
(* Keys and bodies. *)

Key(kind, i, c, suffix) == [kind |-> kind, name |-> Append(i, c) \o suffix]

Body(i, c, spec, rest) ==
  [labels |-> [instance |-> i, name |-> c], annotations |-> Nil,
   spec |-> spec, rest |-> rest, template |-> Nil, hash |-> Nil]

-------------------------------------------------------------------------------
(* The data of the ConfigMaps: the fields of the CR each file prints. *)

CreateAMFConfigMap(configuration, metrics) == <<configuration, metrics>>
CreateNRFConfigMap(configuration) == <<configuration.mcc, configuration.mnc>>
CreateNSSFConfigMap(configuration) == <<configuration.slices>>

\* Mutant: the SMF's file does not depend on whether it has metrics.
CreateSMFConfigMapFixed(metrics) == <<>>

CreateSMFConfigMap(metrics) == <<metrics>>
CreatePCFConfigMap(metrics) == <<metrics>>
CreateUPFConfigMap(metrics, gtpuDev) == <<metrics, gtpuDev>>
CreateUPFEntrypointConfigMap(unprivileged) == <<unprivileged>>
FixedConfigMap == <<>>     \* AUSF, BSF, SCP, UDM, UDR, WebUI and MongoDB print nothing of it

ConfigMapData(s, c) ==
  LET f == s.functions[c]
  IN  CASE c = "amf" -> CreateAMFConfigMap(s.configuration, f.metrics)
        [] c = "nrf" -> CreateNRFConfigMap(s.configuration)
        [] c = "nssf" -> CreateNSSFConfigMap(s.configuration)
        [] c = "smf" -> CreateSMFConfigMap(f.metrics)
        [] c = "pcf" -> CreatePCFConfigMap(f.metrics)
        [] c = "upf" -> CreateUPFConfigMap(f.metrics, f.gtpuDev)
        [] OTHER -> FixedConfigMap

ConfigMapKey(i, c) ==
  Key("ConfigMap", i, c, IF c = "mongodb" THEN <<"common", "scripts">> ELSE <<>>)
EntrypointKey(i) == Key("ConfigMap", i, "upf", <<"entrypoint">>)

-------------------------------------------------------------------------------
(* Deployments. deploymentEqual looks at the image and the service account. *)

ServiceAccountName(f, i, c) == IF f.serviceAccount THEN Append(i, c) ELSE <<"default">>

CreateDeployment(s, i, c) ==
  LET f == s.functions[c]
  IN  Body(i, c, <<s.open5gsImage, ServiceAccountName(f, i, c)>>,
           IF c \in Monitored THEN <<f.metrics>> ELSE <<>>)
CreateUPFDeployment(s, i) ==
  LET f == s.functions["upf"]
  IN  [Body(i, "upf", <<s.open5gsImage, ServiceAccountName(f, i, "upf")>>,
            <<f.metrics, f.unprivileged>>) EXCEPT !.template = f.deploymentAnnotations]
CreateWebUIDeployment(s, i) ==
  Body(i, "webui", <<s.webuiImage, ServiceAccountName(s.functions["webui"], i, "webui")>>,
       <<s.mongoDBVersion>>)
CreateMongoDBDeployment(s, i) ==
  Body(i, "mongodb", <<s.mongoDBVersion, ServiceAccountName(s.functions["mongodb"], i, "mongodb")>>,
       <<>>)

\* The pod template carries the hash of the ConfigMap that goes with it.
DeploymentBody(s, i, c) ==
  LET deployment == IF c = "upf" THEN CreateUPFDeployment(s, i)
                    ELSE IF c = "webui" THEN CreateWebUIDeployment(s, i)
                    ELSE IF c = "mongodb" THEN CreateMongoDBDeployment(s, i)
                    ELSE CreateDeployment(s, i, c)
  IN  [deployment EXCEPT !.hash = ConfigMapData(s, c)]

-------------------------------------------------------------------------------
(* Services. *)

ServiceTypeOf(requested) == IF requested \in {"NodePort", "LoadBalancer"} THEN requested ELSE "ClusterIP"
Requests(f, port) == {n \in DOMAIN f.service : f.service[n].name = port}
\* Of several entries for a port AMF and SMF take the first, UPF the last.
ServiceTypeFor(f, c, port) ==
  LET entries == Requests(f, port)
      Chosen(n) == \A m \in entries : IF c = "upf" THEN n >= m ELSE n <= m
  IN  IF entries = {} THEN "ClusterIP"
      ELSE ServiceTypeOf(f.service[CHOOSE n \in entries : Chosen(n)].serviceType)

OwnPorts ==
  [amf |-> <<"sbi", "ngap">>, smf |-> <<"sbi", "gtpc", "gtpu", "pfcp">>,
   upf |-> <<"pfcp", "gtpu">>, webui |-> <<"http">>]
ServicePorts(c) == IF c \in DOMAIN OwnPorts THEN OwnPorts[c] ELSE <<"sbi">>
TypedPorts(c) ==
  CASE c = "amf" -> {"ngap"} [] c = "smf" -> {"pfcp"} [] c = "upf" -> {"pfcp", "gtpu"} [] OTHER -> {}

CreateService(f, i, c, port) ==
  [key |-> Key("Service", i, c, <<port>>),
   body |-> Body(i, c, IF port \in TypedPorts(c) THEN ServiceTypeFor(f, c, port) ELSE "ClusterIP", <<port>>)]
CreateMongoDBService(i) ==
  [key |-> Key("Service", i, "mongodb", <<>>), body |-> Body(i, "mongodb", "ClusterIP", <<"mongodb">>)]

Services(s, i, c) ==
  LET f == s.functions[c]
      ports == ServicePorts(c) \o (IF c \in Monitored /\ f.metrics THEN <<"metrics">> ELSE <<>>)
  IN  IF c = "mongodb" THEN <<CreateMongoDBService(i)>>
      ELSE [n \in DOMAIN ports |-> CreateService(f, i, c, ports[n])]

-------------------------------------------------------------------------------
(* The kinds of which a function has at most one object, of a fixed content. *)

CreateServiceMonitor(i, c) == [key |-> Key("ServiceMonitor", i, c, <<>>), body |-> Body(i, c, <<>>, <<>>)]
CreateMongoDBPVC(i) ==
  [key |-> Key("PersistentVolumeClaim", i, "mongodb", <<>>), body |-> Body(i, "mongodb", <<"8Gi">>, <<>>)]
CreateServiceAccount(i, c) == [key |-> Key("ServiceAccount", i, c, <<>>), body |-> Body(i, c, <<>>, <<>>)]

-------------------------------------------------------------------------------
(***************************************************************************)
(* How an object that exists is brought in line: the fields that are       *)
(* compared with the desired object, and those that are copied when one of *)
(* them differs.                                                           *)
(***************************************************************************)
configMapEqual == {"spec", "labels", "annotations"}
deploymentEqual == {"labels", "spec"}

\* Mutant: the type and selector of a Service are not compared.
serviceEqualByMetadata == {"labels", "annotations"}

serviceEqual == {"spec", "labels", "annotations"}
serviceMonitorEqual == {"spec", "labels", "annotations"}
serviceAccountEqual == {"labels", "annotations"}
pvcEqual == {"spec"}

IsUPFDeployment(key, i) == key = Key("Deployment", i, "upf", <<>>)

reconcileConfigMap == [compared |-> configMapEqual, copied |-> {"spec"}]

\* Mutant: a new hash alone is no reason to update.
reconcileDeploymentWithoutHash ==
  [compared |-> deploymentEqual, copied |-> {"spec", "rest", "template", "hash"}]

reconcileDeployment ==
  [compared |-> deploymentEqual \cup {"hash"}, copied |-> {"spec", "rest", "template", "hash"}]

\* Mutant: of the annotations of the UPF's pods the hash is not compared.
reconcileUPFDeploymentWithoutHash ==
  [compared |-> {"template"}, copied |-> {"template", "hash"}]

reconcileUPFDeployment == [compared |-> {"template", "hash"}, copied |-> {"template", "hash"}]
reconcileService == [compared |-> serviceEqual, copied |-> {"spec", "rest"}]
reconcileServiceMonitor == [compared |-> serviceMonitorEqual, copied |-> {"spec", "rest"}]
reconcilePVC == [compared |-> pvcEqual, copied |-> {"spec", "rest"}]
reconcileServiceAccount == [compared |-> serviceAccountEqual, copied |-> {"labels", "annotations"}]

PolicyOfKind ==
  [Deployment |-> reconcileDeployment, ConfigMap |-> reconcileConfigMap, Service |-> reconcileService,
   ServiceMonitor |-> reconcileServiceMonitor, PersistentVolumeClaim |-> reconcilePVC,
   ServiceAccount |-> reconcileServiceAccount]
Policy(key, i) == IF IsUPFDeployment(key, i) THEN reconcileUPFDeployment ELSE PolicyOfKind[key.kind]

Drifted(key, i, found, desired) == \E f \in Policy(key, i).compared : found[f] # desired[f]
Updated(key, i, found, desired) ==
  [f \in DOMAIN found |-> IF f \in Policy(key, i).copied THEN desired[f] ELSE found[f]]

\* The API server takes no change of a claim's spec that makes it smaller or
\* takes its volume away.
Refused(key, found, updated) == key.kind = "PersistentVolumeClaim" /\ updated # found

===============================================================================
