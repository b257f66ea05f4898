------------------------------ MODULE Open5GSPlan ------------------------------
(***************************************************************************)
(* One pass of the Open5GS controller, as the sequence of its calls. The   *)
(* sequence depends on the custom resource alone; what each call finds,    *)
(* and whether the pass gets that far, depends on the cluster.             *)
(*                                                                         *)
(* A definition marked "Mutant" is a faulty variant of the one after it.   *)
(* No specification uses it: put in its place, it breaks a property.       *)
(***************************************************************************)
EXTENDS Open5GSResources, SequencesExt

NoKey == [kind |-> "none", name |-> <<>>]

Step(do, key, body, keep) == [do |-> do, key |-> key, body |-> body, keep |-> keep]

\* Get the object; create it, update it or leave it alone.
Apply(object) == Step("apply", object.key, object.body, {})
ApplyIgnoringErrors(object) == Step("applyIgnoringErrors", object.key, object.body, {})
\* The same if the ServiceMonitor API was there when the component was begun.
ApplyMonitor(object) == Step("applyMonitor", object.key, object.body, {})
LookUpMonitors == Step("lookUpMonitors", NoKey, Nil, {})

\* List the objects of a kind with the labels of a component; those not to keep
\* are deleted by a later step.
List(kind, i, c, keep) == Step("list", Key(kind, i, c, <<>>), [instance |-> i, name |-> c], keep)
\* List the Services whose names begin like the component's and that are owned.
ListOwned(i, c) == Step("listOwned", Key("Service", i, c, <<>>), Nil, {})
DeleteListed == Step("deleteListed", NoKey, Nil, {})
\* Get the object, and delete it if it is owned.
Delete(kind, i, c) == Step("delete", Key(kind, i, c, <<>>), Nil, {})

-------------------------------------------------------------------------------
ConfigMap(s, i, c) == [key |-> ConfigMapKey(i, c), body |-> Body(i, c, ConfigMapData(s, c), <<>>)]
EntrypointConfigMap(s, i) ==
  [key |-> EntrypointKey(i),
   body |-> Body(i, "upf", CreateUPFEntrypointConfigMap(s.functions["upf"].unprivileged), <<>>)]
Deployment(s, i, c) == [key |-> Key("Deployment", i, c, <<>>), body |-> DeploymentBody(s, i, c)]

\* The Services of a component are applied, the others with its labels are
\* deleted, and each that is wanted is applied once more.
reconcileServices(s, i, c) ==
  LET services == Services(s, i, c)
      applyServices == [n \in DOMAIN services |-> Apply(services[n])]
  IN  <<List("Service", i, c, {services[n].key : n \in DOMAIN services})>>
      \o applyServices \o <<DeleteListed>> \o applyServices

reconcileComponent(s, i, c) ==
  LET f == s.functions[c]
      wantsMonitor == c \in Monitored /\ f.serviceMonitor
  IN  (IF wantsMonitor THEN <<LookUpMonitors>> ELSE <<>>)
      \o <<Apply(ConfigMap(s, i, c)), Apply(Deployment(s, i, c))>>
      \o reconcileServices(s, i, c)
      \o (IF wantsMonitor THEN <<ApplyMonitor(CreateServiceMonitor(i, c)), DeleteListed>>
          ELSE <<List("ServiceMonitor", i, c, {}), DeleteListed>>)
      \o (IF c = "mongodb" THEN <<Apply(CreateMongoDBPVC(i))>> ELSE <<>>)
      \o (IF f.serviceAccount THEN <<Apply(CreateServiceAccount(i, c))>>
          ELSE <<List("ServiceAccount", i, c, {}), DeleteListed>>)

reconcileUPF(s, i) ==
  <<ApplyIgnoringErrors(EntrypointConfigMap(s, i))>> \o reconcileComponent(s, i, "upf")

\* Mutant: the Services of a disabled component stay.
deleteComponentResourcesButServices(i, c) ==
  <<Delete("ConfigMap", i, c), Delete("Deployment", i, c),
    Delete("ServiceMonitor", i, c), Delete("PersistentVolumeClaim", i, c), Delete("ServiceAccount", i, c)>>

deleteComponentResources(i, c) ==
  <<Delete("ConfigMap", i, c), Delete("Deployment", i, c), ListOwned(i, c), DeleteListed,
    Delete("ServiceMonitor", i, c), Delete("PersistentVolumeClaim", i, c), Delete("ServiceAccount", i, c)>>

Reconcile(s, i, c) ==
  IF ~s.functions[c].enabled THEN deleteComponentResources(i, c)
  ELSE IF c = "upf" THEN reconcileUPF(s, i)
  ELSE reconcileComponent(s, i, c)

\* The order of the functions in a pass.
InOrder(calls) ==
  calls["amf"] \o calls["ausf"] \o calls["bsf"] \o calls["nrf"] \o calls["nssf"] \o calls["smf"]
  \o calls["pcf"] \o calls["scp"] \o calls["udm"] \o calls["udr"] \o calls["upf"]
  \o calls["webui"] \o calls["mongodb"]

\* Of the functions in the given set: a pass over all of them has some 150 calls.
Pass(s, i, functions) ==
  InOrder([c \in Names |-> IF c \in functions THEN Reconcile(s, i, c) ELSE <<>>])

-------------------------------------------------------------------------------
Applies == {"apply", "applyIgnoringErrors", "applyMonitor"}
\* The calls of a pass that ask for an object, and the keys of those objects.
Desired(pass) == {n \in DOMAIN pass : pass[n].do \in Applies}
DesiredKeys(pass) == {pass[n].key : n \in Desired(pass)}
HasPrefix(key, prefix) == key.kind = prefix.kind /\ IsPrefix(prefix.name, key.name)

===============================================================================
