---- MODULE SpecBuilder ----
(***************************************************************************)
(* The spec builders of the Kubernetes provider: the kinds of object that  *)
(* each service of a source, a reaction or a query container is made of,   *)
(* and what its Deployment depends on.                                     *)
(*                                                                         *)
(* Of the specification of a service a definition keeps what decides that: *)
(* its role, the settings of its endpoints, whether the resource has an    *)
(* identity, and the storage of a query container.  Images, ports,         *)
(* environment and labels are left out.                                    *)
(***************************************************************************)
EXTENDS Naturals, FiniteSets

SourceRoles == {"change-router", "change-dispatcher", "query-api"}
ContainerRoles == {"publish-api", "query-host", "view-svc"}
Roles == SourceRoles \cup ContainerRoles \cup {"proxy", "custom", "reaction"}

Definition == [role : Roles, endpoints : SUBSET {"Internal", "External"},
               identity : BOOLEAN,
               stores : SUBSET {"Memory", "Redis", "RocksDb"}]

If(cond, kinds) == IF cond THEN kinds ELSE {}

\* The services that the builder adds to every source.
SourceBuiltIn(d) ==
    {"deployment"} \cup If(d.role = "query-api", {"service"})

\* Of n Services the first one, and the others together.
ServiceObjects(n) ==
    If(n > 0, {"service"}) \cup If(n > 1, {"laterService"})

\* The proxy is reached by the query API under a Service of its own.
ApplyProxySvc(d) == IF d.role = "proxy" THEN 1 ELSE 0

\* A Service for every endpoint, and an Ingress for an external one.
EndpointObjects(d) ==
    ServiceObjects(Cardinality(d.endpoints) + ApplyProxySvc(d)) \cup
    If("External" \in d.endpoints, {"ingress"})

\* A ServiceAccount, whatever the identity is.
ApplyIdentity(d) == If(d.identity, {"account"})

\* A service the provider of a source defines.
SourceService(d) ==
    {"deployment"} \cup EndpointObjects(d) \cup ApplyIdentity(d)

\* A service of a reaction, with the queries in a ConfigMap and a Dapr
\* component for its subscriptions.
ReactionService(d) ==
    {"configmap", "component", "deployment"} \cup EndpointObjects(d) \cup
    ApplyIdentity(d)

\* A RocksDb store is a claim.
StorageClaims(d) == If("RocksDb" \in d.stores, {"claim"})

PublishApiService(d) == {"deployment"}
QueryHostService(d) == {"deployment"} \cup StorageClaims(d)
ViewService(d) == {"deployment", "service"}

ObjectsOf(d) ==
    CASE d.role \in SourceRoles -> SourceBuiltIn(d)
      [] d.role \in {"proxy", "custom"} -> SourceService(d)
      [] d.role = "reaction" -> ReactionService(d)
      [] d.role = "publish-api" -> PublishApiService(d)
      [] d.role = "query-host" -> QueryHostService(d)
      [] d.role = "view-svc" -> ViewService(d)

\* The specification is in the environment of the services it defines, and
\* of the query host; the others have only the ids of resource and instance.
SpecInDeployment(d) == d.role \in {"proxy", "custom", "reaction", "query-host"}

\* Every service but the query host has the instance id in its environment.
InstanceInDeployment(d) == d.role # "query-host"

\* Whatever a service is defined as, the builders give it a Deployment that a
\* change of the specification, or of the instance id, replaces.
ASSUME BuilderAssumption ==
    \A d \in Definition :
      /\ "deployment" \in ObjectsOf(d)
      /\ SpecInDeployment(d) \/ InstanceInDeployment(d)
      /\ {"ingress", "laterService"} \cap ObjectsOf(d) # {} =>
           "service" \in ObjectsOf(d)
====
