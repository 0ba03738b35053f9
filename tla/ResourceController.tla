---- MODULE ResourceController ----
(***************************************************************************)
(* The Kubernetes provider for one resource (a source, a reaction or a     *)
(* query container): ResourceActor with the specifications it persists,    *)
(* one controller task per service of the resource, the objects they       *)
(* reconcile in the cluster, and the monitor that turns events of pods     *)
(* into reconciliations.                                                   *)
(*                                                                         *)
(* The actor is turn based: its methods do not overlap.  A controller is a *)
(* task of its own behind an unbounded channel; a controller that the      *)
(* actor replaces goes on until its channel is drained, beside the new     *)
(* one.  The read and the write of one object are one step.                *)
(*                                                                         *)
(* An object is abstracted to the version of the resource's specification  *)
(* it was made from and, for a Deployment, the instance id in its          *)
(* environment.  Of the Services of a service, kind "service" is the first *)
(* in the order of their names and "laterService" stands for the others.   *)
(* The status that a controller reports is left out.                       *)
(***************************************************************************)
EXTENDS Naturals, Sequences, FiniteSets, SpecBuilder

CONSTANTS
    Services,      \* names of the services of the resource
    Definitions,   \* for each service, how it is defined
    Versions,      \* versions of the specification a client may set
    Slots,         \* tasks a service may have at once, a bound
    MaxQueue,      \* commands in the channel of a controller, a bound
    MaxInstances,  \* instance ids that are ever generated, a bound
    MaxEvents      \* requests, failed calls, crashes and outside
                   \* interference in all, a bound

VARIABLES
    specs,         \* actor state "<type>-platform-specs"
    instance,      \* actor state "<type>-instance-id", 0 if there is none
    issued,        \* instance ids generated so far
    actor,         \* whether the actor is activated
    controllers,   \* the tasks of each service
    cluster,       \* the objects in Kubernetes
    watching,      \* the watch of the pods is established
    podEvent,      \* the watch has an event about a pod of the resource
    debounced,     \* the resource is in the debounce set
    spent,         \* of MaxEvents
    excused,       \* what may keep a service from its specification
    dropped        \* services a later specification left out before they
                   \* were removed

providerState == <<specs, instance, issued, actor, controllers, cluster,
                   watching, podEvent, debounced, excused, dropped>>
providerVars == <<providerState, spent>>

-----------------------------------------------------------------------------
(* Objects, specifications and controllers.                                *)

\* The order in which reconcile handles the kinds, and deprovision removes
\* them; what deprovision does not list it leaves in the cluster.
ReconcileOrder == [configmap |-> 1, claim |-> 2, component |-> 3,
                   account |-> 4, deployment |-> 5, service |-> 6,
                   laterService |-> 7, ingress |-> 8]
DeprovisionOrder == [deployment |-> 1, service |-> 2, laterService |-> 3,
                     configmap |-> 4, ingress |-> 5, account |-> 6]
Kinds == DOMAIN ReconcileOrder
Removable == DOMAIN DeprovisionOrder
ServiceKinds == {"service", "laterService"}

NoObject == [version |-> 0, instance |-> 0]
Object == [version : Versions \cup {0}, instance : 0..MaxInstances]

NoSpecs == [services |-> {}, version |-> 0, instance |-> 0, removed |-> FALSE]
KubernetesSpecs == [services : SUBSET Services, version : Versions \cup {0},
                    instance : 0..MaxInstances, removed : BOOLEAN]

Commands == {"reconcile", "deprovision"}
Controller == [held : BOOLEAN, version : Versions \cup {0},
               instance : 0..MaxInstances, removed : BOOLEAN,
               cmds : Seq(Commands), busy : BOOLEAN, todo : SUBSET Kinds,
               clean : BOOLEAN]   \* no call failed since the command began
Free == [held |-> FALSE, version |-> 0, instance |-> 0, removed |-> FALSE,
         cmds |-> <<>>, busy |-> FALSE, todo |-> {}, clean |-> TRUE]

Working(c) == c.busy \/ c.cmds # <<>>

Objects == [s \in Services |-> ObjectsOf(Definitions[s])]

\* The specification of a kind of object as the builders write it: only the
\* Deployment has the instance id in it; a Deployment that does not depend on
\* the specification counts as one of version 1.
Built(kind, s, c) ==
    IF kind # "deployment" THEN [version |-> c.version, instance |-> 0]
    ELSE [version |-> IF SpecInDeployment(Definitions[s]) THEN c.version ELSE 1,
          instance |-> IF InstanceInDeployment(Definitions[s]) THEN c.instance
                       ELSE 0]

\* Every variable holds a value the code can give it; a controller that the
\* actor holds is one of a service of the specification it persisted.
TypeOK ==
    /\ specs \in KubernetesSpecs
    /\ instance \in 0..MaxInstances
    /\ issued \in 0..MaxInstances
    /\ actor \in {"off", "activating", "on"}
    /\ controllers \in [Services -> [Slots -> Controller]]
    /\ \A s \in Services, k \in Slots :
         /\ Len(controllers[s][k].cmds) <= MaxQueue
         /\ controllers[s][k].held => s \in specs.services
    /\ cluster \in [Services -> [Kinds -> Object]]
    /\ watching \in BOOLEAN
    /\ podEvent \in BOOLEAN
    /\ debounced \in BOOLEAN
    /\ spent \in 0..MaxEvents
    /\ excused \in [Services -> SUBSET {"failure", "race", "stray", "blocked"}]
    /\ dropped \subseteq Services

ProviderInit ==
    /\ specs = NoSpecs
    /\ instance = 0
    /\ issued = 0
    /\ actor = "off"
    /\ controllers = [s \in Services |-> [k \in Slots |-> Free]]
    /\ cluster = [s \in Services |-> [k \in Kinds |-> NoObject]]
    /\ watching = FALSE
    /\ podEvent = FALSE
    /\ debounced = FALSE
    /\ spent = 0
    /\ excused = [s \in Services |-> {}]
    /\ dropped = {}

\* Something that happens only so many times.
Spend == spent < MaxEvents /\ spent' = spent + 1

-----------------------------------------------------------------------------
(* ResourceActor.                                                          *)

\* ResourceController::start: a task with the specification and an empty
\* channel, in which the actor puts a first command.
StartController(sp) ==
    [Free EXCEPT !.held = TRUE, !.version = sp.version,
                 !.instance = sp.instance, !.removed = sp.removed,
                 !.cmds = <<"reconcile">>]

\* Dropping a ResourceController closes its channel: the task handles what
\* is in the channel and ends.
Release(c) == IF Working(c) THEN [c EXCEPT !.held = FALSE] ELSE Free

Released == [s \in Services |-> [k \in Slots |-> Release(controllers[s][k])]]
FreeSlots(s) == {k \in Slots : Released[s][k] = Free}

\* Mutant: the controllers of the old specification stay in the map.
LoadControllersKeeping(sp) ==
    /\ \A s \in sp.services : FreeSlots(s) # {}
    /\ controllers' =
         [s \in Services |->
            IF s \in sp.services
              THEN [Released[s] EXCEPT
                      ![CHOOSE k \in FreeSlots(s) : TRUE] = StartController(sp)]
              ELSE controllers[s]]

\* load_controllers and reconcile_internal.
LoadControllers(sp) ==
    /\ \A s \in sp.services : FreeSlots(s) # {}
    /\ controllers' =
         [s \in Services |->
            IF s \in sp.services
              THEN [Released[s] EXCEPT
                      ![CHOOSE k \in FreeSlots(s) : TRUE] = StartController(sp)]
              ELSE Released[s]]

\* on_activate starts the controllers and waits for their first
\* reconciliation; until then the actor takes no call.
Activate ==
    /\ actor = "off"
    /\ actor' = "activating"
    /\ LoadControllers(specs)
    /\ UNCHANGED <<specs, instance, issued, cluster, watching, podEvent,
                   debounced, spent, excused, dropped>>

Activated ==
    /\ actor = "activating"
    /\ \A s \in Services, k \in Slots :
         controllers[s][k].held => ~ Working(controllers[s][k])
    /\ actor' = "on"
    /\ UNCHANGED <<specs, instance, issued, controllers, cluster, watching,
                   podEvent, debounced, spent, excused, dropped>>

\* The Dapr runtime drops an actor that nobody called for a while.
Deactivate ==
    /\ actor = "on"
    /\ Spend
    /\ actor' = "off"
    /\ controllers' = Released
    /\ UNCHANGED <<specs, instance, issued, cluster, watching, podEvent,
                   debounced, excused, dropped>>

\* The state store of the actor.
WriteSpecs(sp) == specs' = sp
WriteInstanceId(id) == instance' = id
DeleteInstanceId == instance' = 0

\* read_instance_id: an error counts as "there is none".
InstanceId(o) ==
    IF instance # 0 /\ o # "instance unread" THEN instance ELSE issued + 1

\* The actor's controller of s will still handle the Deployment.
Attends(s) ==
    \E k \in Slots :
      LET c == controllers[s][k]
      IN  c.held /\ (c.cmds # <<>> \/ (c.busy /\ "deployment" \in c.todo))

\* The services of the specification that lose their controller before it
\* has removed the Deployment, or will.
Abandoned ==
    {s \in specs.services :
       \/ ~ specs.removed
       \/ cluster[s].deployment # NoObject /\ ~ Attends(s)}

\* configure.  The result o says which call to the state store fails; with
\* "ok" and "instance unread" the actor answers without an error.
ConfigureOutcomes == {"ok", "instance unread", "instance unwritten",
                      "specs unwritten"}
Configure(spec, o) ==
    /\ actor = "on"
    /\ InstanceId(o) \in 1..MaxInstances
    /\ o = "instance unwritten" => InstanceId(o) # instance
    /\ IF o = "ok" THEN UNCHANGED spent ELSE Spend
    /\ IF o = "instance unwritten"
         THEN UNCHANGED <<instance, issued>>
         ELSE /\ WriteInstanceId(InstanceId(o))
              /\ issued' = IF InstanceId(o) = instance THEN issued ELSE issued + 1
    /\ IF o \in {"ok", "instance unread"}
         THEN LET built == [services |-> spec.services, version |-> spec.version,
                            instance |-> InstanceId(o), removed |-> FALSE]
              IN  /\ WriteSpecs(built)
                  /\ LoadControllers(built)
                  /\ dropped' = (dropped \cup Abandoned) \ spec.services
         ELSE UNCHANGED <<specs, controllers, dropped>>
    /\ UNCHANGED <<actor, cluster, watching, podEvent, debounced,
                   excused>>

Enqueue(cmd) ==
    /\ \A s \in Services, k \in Slots :
         controllers[s][k].held => Len(controllers[s][k].cmds) < MaxQueue
    /\ controllers' =
         [s \in Services |-> [k \in Slots |->
            IF controllers[s][k].held
              THEN [controllers[s][k] EXCEPT !.cmds = Append(@, cmd)]
              ELSE controllers[s][k]]]

\* deprovision: the specifications are marked in the state store before the
\* controllers are told, and the answer does not wait for them.
DeprovisionOutcomes == {"ok", "specs unread", "specs unwritten",
                        "instance kept"}
Deprovision(o) ==
    /\ actor = "on"
    /\ IF o = "ok" THEN UNCHANGED spent ELSE Spend
    /\ IF o \in {"ok", "instance kept"}
         THEN /\ WriteSpecs([specs EXCEPT !.removed = (specs.services # {})])
              /\ Enqueue("deprovision")
              /\ IF o = "ok" THEN DeleteInstanceId ELSE UNCHANGED instance
         ELSE UNCHANGED <<specs, controllers, instance>>
    /\ UNCHANGED <<issued, actor, cluster, watching, podEvent,
                   debounced, excused, dropped>>

-----------------------------------------------------------------------------
(* ResourceReconciler: what each reconcile_... function leaves of an        *)
(* object that was cur before, when no call fails.                         *)

ReconcileConfigMap(cur, s, c) == Built("configmap", s, c)
\* A claim is inserted once and never changed.
ReconcileClaim(cur, s, c) == IF cur = NoObject THEN Built("claim", s, c) ELSE cur
ReconcileComponent(cur, s, c) == Built("component", s, c)
ReconcileAccount(cur, s, c) == Built("account", s, c)
ReconcileDeployment(cur, s, c) == Built("deployment", s, c)
\* A Service is looked up under its name in the specification and created
\* under that name with the prefix of the resource: it is never found, and
\* creating it again is a conflict, which ends the loop over the Services.
ReconcileService(cur, s, c) == IF cur = NoObject THEN Built("service", s, c) ELSE cur
ReconcileIngress(cur, s, c) == Built("ingress", s, c)

Reconciled(kind, cur, s, c) ==
    CASE kind = "configmap"  -> ReconcileConfigMap(cur, s, c)
      [] kind = "claim"      -> ReconcileClaim(cur, s, c)
      [] kind = "component"  -> ReconcileComponent(cur, s, c)
      [] kind = "account"    -> ReconcileAccount(cur, s, c)
      [] kind = "deployment" -> ReconcileDeployment(cur, s, c)
      [] kind \in ServiceKinds -> ReconcileService(cur, s, c)
      [] kind = "ingress"    -> ReconcileIngress(cur, s, c)

\* Mutant: the hash is not compared.
WritesAlways(cur, s, c) == TRUE

\* Whether the function writes the Deployment: reconcile_deployment compares
\* the hash in its annotation.
WritesDeployment(cur, s, c) == cur # Built("deployment", s, c)

\* What is behind a task that has handled a kind: reconcile_services returns
\* at its first error, and the Services after it are not looked at.
Passed(kind, ok) ==
    IF kind \in ServiceKinds /\ ~ ok THEN ServiceKinds ELSE {kind}

\* The kind a controller handles next.
IsNext(kind, c) ==
    /\ kind \in c.todo
    /\ LET order == IF c.removed THEN DeprovisionOrder ELSE ReconcileOrder
       IN  \A other \in c.todo : order[kind] <= order[other]

\* What is left of a controller that has handled everything on its list.
Ended(c) ==
    IF c.todo # {} THEN c
    ELSE IF c.held \/ c.cmds # <<>>
      THEN [c EXCEPT !.busy = FALSE, !.clean = TRUE] ELSE Free

Replace(s, k, c) == controllers' = [controllers EXCEPT ![s][k] = c]

\* The first Service is there and keeps the others from being created.
Blocked(s, objects) ==
    /\ "laterService" \in Objects[s]
    /\ objects.service # NoObject
    /\ objects.laterService = NoObject

\* A step of a command.  With the last one, a controller of the actor that
\* met no failed call, and began when its service had no other task, has
\* made good what came before, but for Services that were left unmade then.
Proceed(s, k, c, reasons) ==
    /\ Replace(s, k, Ended(c))
    /\ excused' = [excused EXCEPT ![s] =
         IF ~ (c.todo = {} /\ c.held /\ c.clean) THEN @ \cup reasons
         ELSE IF @ # {} /\ Blocked(s, cluster'[s]) THEN {"blocked"} ELSE {}]

\* A command is taken from the channel.  remove marks the specification of
\* the task, and reconcile of a marked specification deprovisions.
TakeCommand(s, k) ==
    LET c == controllers[s][k]
        removed == c.removed \/ Head(c.cmds) = "deprovision"
        alone == \A j \in Slots \ {k} : controllers[s][j] = Free
    IN  /\ ~ c.busy
        /\ c.cmds # <<>>
        /\ Replace(s, k, [c EXCEPT
             !.busy = TRUE, !.cmds = Tail(@), !.removed = removed,
             !.todo = IF removed THEN Objects[s] \cap Removable ELSE Objects[s],
             !.clean = alone])
        /\ UNCHANGED <<specs, instance, issued, actor, cluster, watching,
                       podEvent, debounced, spent, excused, dropped>>

\* A task that is not the actor's works on objects that may be the business
\* of another: what it changes besides the Deployment shows in no pod.
Race(c, kind, changed) ==
    IF changed /\ ~ c.held /\ kind # "deployment" THEN {"race"} ELSE {}

\* It removes the Deployment while nobody watches the pods: their end is not
\* reported later.
Unseen(c, removed) ==
    IF removed /\ ~ c.held /\ ~ watching THEN {"failure"} ELSE {}

\* A task of a service that the specification no longer has writes its
\* Deployment: no controller is there for the events of its pods.
Stray(s, written) ==
    IF written /\ s \notin specs.services THEN {"stray"} ELSE {}

\* One reconcile_... function for one object, without a failed call.
ReconcileObject(s, k, kind) ==
    LET c == controllers[s][k]
        cur == cluster[s][kind]
        new == Reconciled(kind, cur, s, c)
        written == kind = "deployment" /\ WritesDeployment(cur, s, c)
    IN  /\ c.busy /\ ~ c.removed
        /\ IsNext(kind, c)
        /\ cluster' = [cluster EXCEPT ![s][kind] = new]
        /\ podEvent' = (podEvent \/ (written /\ watching))
        /\ Proceed(s, k, [c EXCEPT !.todo = @ \ Passed(kind, cur = NoObject)],
                   Race(c, kind, new # cur) \cup Stray(s, written))
        /\ UNCHANGED <<specs, instance, issued, actor, watching,
                       debounced, spent, dropped>>

\* One step of deprovision: an object that is not there is no error.
RemoveObject(s, k, kind) ==
    LET c == controllers[s][k]
        cur == cluster[s][kind]
        ended == kind = "deployment" /\ cur # NoObject
    IN  /\ c.busy /\ c.removed
        /\ IsNext(kind, c)
        /\ cluster' = [cluster EXCEPT ![s][kind] = NoObject]
        /\ podEvent' = (podEvent \/ (ended /\ watching))
        /\ Proceed(s, k, [c EXCEPT !.todo = @ \ {kind}],
                   Race(c, kind, cur # NoObject) \cup Unseen(c, ended))
        /\ UNCHANGED <<specs, instance, issued, actor, watching, debounced,
                       spent, dropped>>

\* A call to the API server fails: reconcile logs it and goes on with the
\* next kind, deprovision returns.
CallFails(s, k, kind) ==
    LET c == controllers[s][k]
    IN  /\ c.busy
        /\ IsNext(kind, c)
        /\ Spend
        /\ UNCHANGED <<specs, instance, issued, actor, cluster, watching,
                       podEvent, debounced, dropped>>
        /\ Proceed(s, k,
             [c EXCEPT !.todo = IF c.removed THEN {} ELSE @ \ Passed(kind, FALSE),
                       !.clean = FALSE],
             {"failure"})

-----------------------------------------------------------------------------
(* Kubernetes and the monitor.                                             *)

\* What goes on at s now does not make good what has been missed.
Soil(s, k) ==
    [controllers[s][k] EXCEPT !.clean = @ /\ ~ controllers[s][k].busy]

\* The monitor task waits a while, lists the pods, each of which counts as an
\* event, and watches from there.
StartWatch ==
    /\ ~ watching
    /\ watching' = TRUE
    /\ podEvent' = (podEvent \/ \E s \in Services : cluster[s].deployment # NoObject)
    /\ UNCHANGED <<specs, instance, issued, actor, controllers, cluster,
                   debounced, spent, excused, dropped>>

\* The stream of the watch yields an error and ends; what has come is in the
\* channel of the handler.
WatchFails ==
    /\ watching
    /\ Spend
    /\ watching' = FALSE
    /\ UNCHANGED <<specs, instance, issued, actor, controllers, cluster,
                   podEvent, debounced, excused, dropped>>

\* A pod of a Deployment becomes ready, restarts or fails.
PodChanges ==
    /\ \E s \in Services : cluster[s].deployment # NoObject
    /\ watching /\ ~ podEvent
    /\ Spend
    /\ podEvent' = TRUE
    /\ UNCHANGED <<specs, instance, issued, actor, controllers, cluster,
                   watching, debounced, excused, dropped>>

\* Somebody deletes a Deployment behind the provider's back: the end of its
\* pods is an event if somebody watches.
DeleteOutside(s) ==
    /\ cluster[s].deployment # NoObject
    /\ Spend
    /\ cluster' = [cluster EXCEPT ![s].deployment = NoObject]
    /\ podEvent' = (podEvent \/ watching)
    /\ IF watching THEN UNCHANGED <<controllers, excused>>
       ELSE /\ excused' = [excused EXCEPT ![s] = @ \cup {"failure"}]
            /\ controllers' = [controllers EXCEPT ![s] = [k \in Slots |-> Soil(s, k)]]
    /\ UNCHANGED <<specs, instance, issued, actor, watching, debounced, dropped>>

\* The handler task receives an event and invokes the actor's method
\* reconcile, or skips a resource that is in the debounce set, since it will
\* be reconciled when the set is drained.
TakeEvent ==
    /\ podEvent
    /\ podEvent' = FALSE
    /\ IF debounced
         THEN UNCHANGED <<controllers, debounced>>
         ELSE /\ actor = "on"
              /\ Enqueue("reconcile")
              /\ debounced' = TRUE
    /\ UNCHANGED <<specs, instance, issued, actor, cluster, watching, spent,
                   excused, dropped>>

\* Mutant: the set is emptied and nothing is reconciled.
DrainForgets ==
    /\ debounced
    /\ debounced' = FALSE
    /\ UNCHANGED <<specs, instance, issued, actor, controllers, cluster,
                   watching, podEvent, spent, excused, dropped>>

\* After 1.5 seconds the set is drained, with a reconciliation of each.
DrainDebounced ==
    /\ debounced
    /\ actor = "on"
    /\ Enqueue("reconcile")
    /\ debounced' = FALSE
    /\ UNCHANGED <<specs, instance, issued, actor, cluster, watching,
                   podEvent, spent, excused, dropped>>

\* The invocation fails, which is logged: after an event the resource is in
\* the debounce set all the same, after the drain it is forgotten.
InvokeFails ==
    /\ Spend
    /\ \/ /\ podEvent /\ ~ debounced
          /\ podEvent' = FALSE
          /\ debounced' = TRUE
          /\ UNCHANGED <<excused, controllers>>
       \/ /\ debounced
          /\ debounced' = FALSE
          /\ excused' = [s \in Services |-> excused[s] \cup {"failure"}]
          /\ controllers' = [s \in Services |-> [k \in Slots |-> Soil(s, k)]]
          /\ UNCHANGED podEvent
    /\ UNCHANGED <<specs, instance, issued, actor, cluster, watching, dropped>>

\* Nothing is under way in the provider.
Idle ==
    /\ actor # "activating"
    /\ ~ podEvent /\ ~ debounced
    /\ \A s \in Services, k \in Slots : ~ Working(controllers[s][k])
Quiet == Idle /\ watching

\* The process dies, with its tasks, its channels and its watch.
Crash ==
    /\ Spend
    /\ actor' = "off"
    /\ controllers' = [s \in Services |-> [k \in Slots |-> Free]]
    /\ watching' = FALSE
    /\ debounced' = FALSE
    /\ podEvent' = FALSE
    /\ excused' = IF Idle THEN excused
                  ELSE [s \in Services |-> excused[s] \cup {"failure"}]
    /\ UNCHANGED <<specs, instance, issued, cluster, dropped>>

\* A step of a controller or of its surroundings, which nobody calls.
WorkerStep(s, k) ==
    \/ TakeCommand(s, k)
    \/ \E kind \in Kinds : ReconcileObject(s, k, kind)
    \/ \E kind \in Kinds : RemoveObject(s, k, kind)
MonitorStep == StartWatch \/ TakeEvent \/ DrainDebounced

-----------------------------------------------------------------------------
(* What a service must look like when nothing is under way.                *)

\* The Deployment of a service of the specification has its version and the
\* current instance id; a service of a removed specification, or of none,
\* has no Deployment, unless a later specification left it out.
DeploymentSettled(s) ==
    IF s \notin specs.services
      THEN s \in dropped \/ cluster[s].deployment = NoObject
    ELSE cluster[s].deployment =
           IF specs.removed THEN NoObject ELSE Built("deployment", s, specs)

\* The other objects: deprovision leaves claims and components, and a
\* Service stays as it was first created.
OthersSettled(s) ==
    \A kind \in Objects[s] \ {"deployment"} :
      IF s \notin specs.services
        THEN s \in dropped \/ kind \notin Removable
                           \/ cluster[s][kind] = NoObject
      ELSE IF specs.removed
        THEN kind \in Removable => cluster[s][kind] = NoObject
      ELSE IF kind = "laterService"
        THEN "blocked" \in excused[s] \/ cluster[s][kind] # NoObject
      ELSE IF kind \in {"claim", "service"} THEN cluster[s][kind] # NoObject
      ELSE cluster[s][kind] = Built(kind, s, specs)

\* Whenever nothing is under way, the cluster has what the actor persisted:
\* however replaced controllers, pod events, debouncing, watches and restarts
\* interleaved, the Deployments are those of the specification unless a
\* call failed for good, a Deployment was removed while nobody watched its
\* pods, or a replaced controller wrote one for a service without a
\* controller; the other objects too unless a replaced controller changed
\* one after the last reconciliation, and but for Services whose creation
\* failed or was disturbed once, which no later reconciliation makes good.
\* (actors/mod.rs load_controllers, monitor/mod.rs spawn_handler_task,
\* reconciler.rs reconcile_services)
SettledWhenQuiet ==
    Quiet => \A s \in Services :
      /\ excused[s] \subseteq {"race", "blocked"} => DeploymentSettled(s)
      /\ excused[s] \subseteq {"blocked"} => OthersSettled(s)
====
