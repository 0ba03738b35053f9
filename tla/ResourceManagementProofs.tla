---- MODULE ResourceManagementProofs ----
(***************************************************************************)
(* Proofs about ResourceManagement, for every set of services, provider    *)
(* versions and slots and every bound.                                     *)
(***************************************************************************)
EXTENDS ResourceManagement, TLAPS, SequenceTheorems

(***************************************************************************)
(* Inductive invariants.                                                   *)
(***************************************************************************)

\* A specification is numbered from 1 and has services, and clients wrote no more of them
\* than there were events.
SpecsInv ==
    /\ revision <= spent
    /\ specs = NoSpecs \/ (specs.services # {} /\ specs.version # 0)
    /\ \A r \in requests :
         r.op = "set" => r.spec.services # {} /\ r.spec.version # 0

\* A request that runs alone finds what it wrote.
RequestInv ==
    \A r \in requests :
      /\ r.op = "set" => r.at \in {"store", "call"}
      /\ r.op = "delete" => r.at \in {"call", "erase"}
      /\ r.alone =>
           /\ requests = {r}
           /\ r.op = "set" /\ r.at = "call" => stored = r.spec
           /\ r.at = "erase" => specs = NoSpecs \/ specs.removed

IsTold(c) == \E i \in DOMAIN c.cmds : c.cmds[i] = "deprovision"

\* The task has still to handle the kind.
Pending(c, kind) == c.cmds # <<>> \/ (c.busy /\ kind \in c.todo)

(***************************************************************************)
(* Controllers.                                                            *)
(***************************************************************************)

LEMMA KindsAre ==
    /\ Kinds = {"configmap", "claim", "component", "account", "deployment", "service", "laterService",
                "ingress"}
    /\ Removable = {"deployment", "service", "laterService", "configmap", "ingress", "account"}
    /\ Removable \subseteq Kinds
  BY DEF Kinds, Removable, ReconcileOrder, DeprovisionOrder

LEMMA ControllerFields ==
  ASSUME NEW c \in Controller
  PROVE  /\ c.held \in BOOLEAN /\ c.version \in Versions \cup {0} /\ c.instance \in 0..MaxInstances
         /\ c.removed \in BOOLEAN /\ c.cmds \in Seq(Commands) /\ c.busy \in BOOLEAN
         /\ c.todo \in SUBSET Kinds /\ c.clean \in BOOLEAN
  BY DEF Controller

LEMMA EmptyCommands == <<>> \in Seq(Commands) /\ Len(<<>>) = 0
  BY EmptySeq

LEMMA FreeType ==
    /\ Free \in Controller /\ ~ Free.held /\ ~ Free.busy /\ Free.cmds = <<>> /\ ~ Working(Free)
  <1>1. ~ Free.held /\ ~ Free.busy /\ Free.cmds = <<>>
    BY DEF Free
  <1>2. Free \in Controller
    BY EmptyCommands, ResourceAssumption DEF Free, Controller
  <1> QED BY <1>1, <1>2 DEF Working

LEMMA ReleaseType ==
  ASSUME NEW c \in Controller
  PROVE  /\ Release(c) \in Controller /\ ~ Release(c).held
         /\ Working(c) => /\ Release(c).version = c.version /\ Release(c).instance = c.instance
                          /\ (Release(c).removed <=> c.removed) /\ Release(c).cmds = c.cmds
                          /\ (Release(c).busy <=> c.busy) /\ Release(c).todo = c.todo
         /\ ~ Working(c) => Release(c) = Free
         /\ Len(Release(c).cmds) <= Len(c.cmds)
  <1>1. CASE Working(c)
    <2>1. Release(c) = [c EXCEPT !.held = FALSE]
      BY <1>1 DEF Release
    <2>2. Release(c) \in Controller
      BY <2>1 DEF Controller
    <2>3. /\ Release(c).version = c.version /\ Release(c).instance = c.instance
          /\ (Release(c).removed <=> c.removed) /\ Release(c).cmds = c.cmds
          /\ (Release(c).busy <=> c.busy) /\ Release(c).todo = c.todo /\ ~ Release(c).held
      BY <2>1 DEF Controller
    <2>4. Len(c.cmds) \in Nat
      BY ControllerFields
    <2> QED BY <1>1, <2>2, <2>3, <2>4
  <1>2. CASE ~ Working(c)
    <2>1. Release(c) = Free
      BY <1>2 DEF Release
    <2>2. c.cmds = <<>> /\ Free.cmds = <<>>
      BY <1>2, FreeType DEF Working
    <2> QED BY <1>2, <2>1, <2>2, FreeType, EmptyCommands
  <1> QED BY <1>1, <1>2

LEMMA StartType ==
  ASSUME NEW sp \in KubernetesSpecs
  PROVE  /\ StartController(sp) \in Controller /\ StartController(sp).held
         /\ StartController(sp).version = sp.version /\ StartController(sp).instance = sp.instance
         /\ (StartController(sp).removed <=> sp.removed)
         /\ StartController(sp).cmds = <<"reconcile">> /\ ~ StartController(sp).busy
         /\ Len(StartController(sp).cmds) = 1 /\ StartController(sp).cmds # <<>>
  <1>1. <<"reconcile">> \in Seq(Commands) /\ Len(<<"reconcile">>) = 1 /\ <<"reconcile">> # <<>>
    BY DEF Commands
  <1>2. StartController(sp) \in Controller
    BY <1>1, FreeType DEF StartController, Controller, KubernetesSpecs
  <1>3. /\ StartController(sp).held /\ ~ StartController(sp).busy
        /\ StartController(sp).version = sp.version /\ StartController(sp).instance = sp.instance
        /\ (StartController(sp).removed <=> sp.removed)
        /\ StartController(sp).cmds = <<"reconcile">>
    BY FreeType DEF StartController, Controller, KubernetesSpecs
  <1> QED BY <1>1, <1>2, <1>3

\* A task that has handled everything: it ends when nobody holds it and no command is left.
LEMMA EndedType ==
  ASSUME NEW c \in Controller
  PROVE  /\ Ended(c) \in Controller /\ Len(Ended(c).cmds) <= Len(c.cmds)
         /\ (Ended(c).held <=> c.held)
         /\ c.todo # {} => Ended(c) = c
         /\ c.held \/ c.cmds # <<>> =>
              /\ Ended(c).version = c.version /\ Ended(c).instance = c.instance
              /\ (Ended(c).removed <=> c.removed) /\ Ended(c).cmds = c.cmds
              /\ Ended(c).todo = c.todo
         /\ c.todo = {} => ~ Ended(c).busy
  <1>0. Len(c.cmds) \in Nat
    BY ControllerFields
  <1>1. CASE c.todo # {}
    <2>1. Ended(c) = c
      BY <1>1 DEF Ended
    <2> QED BY <1>0, <1>1, <2>1
  <1>2. CASE c.todo = {} /\ (c.held \/ c.cmds # <<>>)
    <2>1. Ended(c) = [c EXCEPT !.busy = FALSE, !.clean = TRUE]
      BY <1>2 DEF Ended
    <2>2. Ended(c) \in Controller
      BY <2>1 DEF Controller
    <2>3. /\ Ended(c).version = c.version /\ Ended(c).instance = c.instance
          /\ (Ended(c).removed <=> c.removed) /\ Ended(c).cmds = c.cmds /\ (Ended(c).held <=> c.held)
          /\ Ended(c).todo = c.todo /\ ~ Ended(c).busy
      BY <2>1 DEF Controller
    <2> QED BY <1>0, <1>2, <2>2, <2>3
  <1>3. CASE c.todo = {} /\ ~ c.held /\ c.cmds = <<>>
    <2>1. Ended(c) = Free
      BY <1>3 DEF Ended
    <2> QED BY <1>3, <2>1, FreeType, EmptyCommands
  <1> QED BY <1>1, <1>2, <1>3

Tasks == [Services -> [Slots -> Controller]]

LEMMA ReleasedIs ==
  ASSUME controllers \in Tasks
  PROVE  Released \in Tasks /\ \A s \in Services, k \in Slots : Released[s][k] = Release(controllers[s][k])
  <1>1. \A s \in Services, k \in Slots : Release(controllers[s][k]) \in Controller
    BY ReleaseType DEF Tasks
  <1> QED BY <1>1 DEF Released, Tasks

\* load_controllers: every task is released, and each service gets a new one.
LEMMA LoadedIs ==
  ASSUME controllers \in Tasks, NEW sp \in KubernetesSpecs, LoadControllers(sp)
  PROVE  /\ controllers' \in Tasks
         /\ \A s \in Services, k \in Slots :
              \/ controllers'[s][k] = Release(controllers[s][k])
              \/ /\ s \in sp.services /\ Release(controllers[s][k]) = Free
                 /\ controllers'[s][k] = StartController(sp)
         /\ \A s \in sp.services : \E k \in Slots :
              /\ controllers'[s][k] = StartController(sp)
              /\ \A j \in Slots \ {k} : controllers'[s][j] = Release(controllers[s][j])
  <1>1. /\ Released \in Tasks
        /\ \A s \in Services, k \in Slots : Released[s][k] = Release(controllers[s][k])
    BY ReleasedIs
  <1>2. StartController(sp) \in Controller /\ sp.services \subseteq Services
    BY StartType DEF KubernetesSpecs
  <1> DEFINE j(s) == CHOOSE k \in FreeSlots(s) : TRUE
             new(s) == [Released[s] EXCEPT ![j(s)] = StartController(sp)]
  <1>3. ASSUME NEW s \in sp.services
        PROVE  /\ j(s) \in Slots /\ Released[s][j(s)] = Free
               /\ new(s) \in [Slots -> Controller]
               /\ new(s)[j(s)] = StartController(sp)
               /\ \A k \in Slots \ {j(s)} : new(s)[k] = Released[s][k]
    <2>1. FreeSlots(s) # {}
      BY DEF LoadControllers
    <2>2. j(s) \in FreeSlots(s)
      BY <2>1
    <2>3. j(s) \in Slots /\ Released[s][j(s)] = Free
      BY <2>2 DEF FreeSlots
    <2>4. Released[s] \in [Slots -> Controller]
      BY <1>1, <1>2 DEF Tasks
    <2> HIDE DEF j
    <2> QED BY <1>2, <2>3, <2>4
  <1>4. controllers' = [s \in Services |-> IF s \in sp.services THEN new(s) ELSE Released[s]]
    BY DEF LoadControllers
  <1> HIDE DEF j, new
  <1>5. controllers' \in Tasks
    BY <1>1, <1>3, <1>4 DEF Tasks
  <1>6. \A s \in sp.services : controllers'[s] = new(s)
    BY <1>2, <1>4
  <1>7. \A s \in Services \ sp.services : controllers'[s] = Released[s]
    BY <1>4
  <1>8. ASSUME NEW s \in Services, NEW k \in Slots
        PROVE  \/ controllers'[s][k] = Release(controllers[s][k])
               \/ /\ s \in sp.services /\ Release(controllers[s][k]) = Free
                  /\ controllers'[s][k] = StartController(sp)
    <2>1. CASE s \notin sp.services
      BY <1>1, <1>7, <2>1
    <2>2. CASE s \in sp.services /\ k # j(s)
      BY <1>1, <1>3, <1>6, <2>2
    <2>3. CASE s \in sp.services /\ k = j(s)
      BY <1>1, <1>3, <1>6, <2>3
    <2> QED BY <2>1, <2>2, <2>3
  <1>9. ASSUME NEW s \in sp.services
        PROVE  \E k \in Slots : /\ controllers'[s][k] = StartController(sp)
                               /\ \A i \in Slots \ {k} : controllers'[s][i] = Release(controllers[s][i])
    <2>1. j(s) \in Slots /\ controllers'[s][j(s)] = StartController(sp)
      BY <1>3, <1>6
    <2>2. \A i \in Slots \ {j(s)} : controllers'[s][i] = Release(controllers[s][i])
      BY <1>1, <1>2, <1>3, <1>6
    <2> QED BY <2>1, <2>2
  <1> QED BY <1>5, <1>8, <1>9

Enqueued(c, cmd) == [c EXCEPT !.cmds = Append(c.cmds, cmd)]

LEMMA EnqueuedType ==
  ASSUME NEW c \in Controller, NEW cmd \in Commands
  PROVE  /\ Enqueued(c, cmd) \in Controller
         /\ (Enqueued(c, cmd).held <=> c.held) /\ (Enqueued(c, cmd).removed <=> c.removed)
         /\ (Enqueued(c, cmd).busy <=> c.busy) /\ (Enqueued(c, cmd).clean <=> c.clean)
         /\ Enqueued(c, cmd).version = c.version /\ Enqueued(c, cmd).instance = c.instance
         /\ Enqueued(c, cmd).cmds = Append(c.cmds, cmd) /\ Enqueued(c, cmd).todo = c.todo
         /\ Enqueued(c, cmd).cmds # <<>>
         /\ Len(Enqueued(c, cmd).cmds) = Len(c.cmds) + 1
         /\ IsTold(Enqueued(c, cmd)) <=> (IsTold(c) \/ cmd = "deprovision")
  <1>1. c.cmds \in Seq(Commands)
    BY ControllerFields
  <1>2. /\ Append(c.cmds, cmd) \in Seq(Commands) /\ Len(Append(c.cmds, cmd)) = Len(c.cmds) + 1
        /\ Append(c.cmds, cmd) # <<>> /\ Len(c.cmds) \in Nat
        /\ DOMAIN c.cmds = 1..Len(c.cmds) /\ DOMAIN Append(c.cmds, cmd) = 1..(Len(c.cmds) + 1)
        /\ \A i \in 1..Len(c.cmds) : Append(c.cmds, cmd)[i] = c.cmds[i]
        /\ Append(c.cmds, cmd)[Len(c.cmds) + 1] = cmd
    BY <1>1
  <1> DEFINE q == Append(c.cmds, cmd)
  <1> HIDE DEF q
  <1>3. /\ Enqueued(c, cmd) \in Controller
        /\ (Enqueued(c, cmd).held <=> c.held) /\ (Enqueued(c, cmd).removed <=> c.removed)
        /\ (Enqueued(c, cmd).busy <=> c.busy) /\ (Enqueued(c, cmd).clean <=> c.clean)
        /\ Enqueued(c, cmd).version = c.version /\ Enqueued(c, cmd).instance = c.instance
        /\ Enqueued(c, cmd).cmds = q /\ Enqueued(c, cmd).todo = c.todo
    BY <1>2 DEF Enqueued, Controller, q
  <1>4. (\E i \in DOMAIN Append(c.cmds, cmd) : Append(c.cmds, cmd)[i] = "deprovision")
        <=> ((\E i \in DOMAIN c.cmds : c.cmds[i] = "deprovision") \/ cmd = "deprovision")
    <2>1. \A i \in 1..(Len(c.cmds) + 1) : i \in 1..Len(c.cmds) \/ i = Len(c.cmds) + 1
      BY <1>2
    <2>2. \A i \in 1..Len(c.cmds) : i \in 1..(Len(c.cmds) + 1)
      BY <1>2
    <2>3. Len(c.cmds) + 1 \in 1..(Len(c.cmds) + 1)
      BY <1>2
    <2> QED BY <1>2, <2>1, <2>2, <2>3
  <1> QED BY <1>2, <1>3, <1>4 DEF IsTold, q

LEMMA EnqueueIs ==
  ASSUME controllers \in Tasks, NEW cmd \in Commands, Enqueue(cmd)
  PROVE  /\ controllers' \in Tasks
         /\ \A s \in Services, k \in Slots :
              /\ controllers[s][k].held =>
                   controllers'[s][k] = Enqueued(controllers[s][k], cmd) /\ Len(controllers[s][k].cmds) < MaxQueue
              /\ ~ controllers[s][k].held => controllers'[s][k] = controllers[s][k]
  <1>1. \A s \in Services, k \in Slots : controllers[s][k] \in Controller
    BY DEF Tasks
  <1>2. controllers' =
         [s \in Services |-> [k \in Slots |->
            IF controllers[s][k].held THEN Enqueued(controllers[s][k], cmd) ELSE controllers[s][k]]]
    BY DEF Enqueue, Enqueued
  <1>3. \A s \in Services, k \in Slots : Enqueued(controllers[s][k], cmd) \in Controller
    BY <1>1, EnqueuedType
  <1>4. controllers' \in Tasks
    BY <1>1, <1>2, <1>3 DEF Tasks
  <1>5. \A s \in Services, k \in Slots :
          /\ controllers[s][k].held => controllers'[s][k] = Enqueued(controllers[s][k], cmd)
          /\ ~ controllers[s][k].held => controllers'[s][k] = controllers[s][k]
    BY <1>2
  <1>6. \A s \in Services, k \in Slots : controllers[s][k].held => Len(controllers[s][k].cmds) < MaxQueue
    BY DEF Enqueue
  <1> QED BY <1>4, <1>5, <1>6

LEMMA ReplaceIs ==
  ASSUME controllers \in Tasks, NEW s \in Services, NEW k \in Slots, NEW c \in Controller, Replace(s, k, c)
  PROVE  /\ controllers' \in Tasks /\ controllers'[s][k] = c
         /\ \A r \in Services, j \in Slots : r # s \/ j # k => controllers'[r][j] = controllers[r][j]
  BY DEF Replace, Tasks

(***************************************************************************)
(* Objects.                                                                *)
(***************************************************************************)

LEMMA ConstantsType ==
    /\ MaxQueue \in Nat /\ MaxQueue >= 1 /\ MaxEvents \in Nat /\ MaxEvents >= 1
    /\ MaxInstances \in Nat /\ MaxConcurrent \in Nat /\ Versions = 1..MaxEvents /\ 1 \in Versions
    /\ \A s \in Services : Objects[s] \subseteq Kinds /\ "deployment" \in Objects[s]
  <1>1. /\ MaxQueue \in Nat /\ MaxQueue >= 1 /\ MaxEvents \in Nat /\ MaxEvents >= 1
        /\ MaxInstances \in Nat /\ MaxConcurrent \in Nat /\ Versions = 1..MaxEvents
        /\ \A s \in Services : Objects[s] \subseteq Kinds
    BY ResourceAssumption
  <1>2. ASSUME NEW s \in Services PROVE "deployment" \in Objects[s]
    <2>1. Definitions[s] \in Definition
      BY ResourceAssumption
    <2>2. "deployment" \in ObjectsOf(Definitions[s])
      BY <2>1, BuilderAssumption
    <2> QED BY <2>2 DEF Objects
  <1> QED BY <1>1, <1>2

LEMMA LaterIs ==
  ASSUME NEW s \in Services, "laterService" \in Objects[s]
  PROVE  "service" \in Objects[s]
  <1>1. Definitions[s] \in Definition /\ Objects[s] = ObjectsOf(Definitions[s])
    BY ResourceAssumption DEF Objects
  <1> QED BY <1>1, BuilderAssumption

LEMMA NoObjectType == NoObject \in Object
  BY ConstantsType DEF NoObject, Object

LEMMA BuiltType ==
  ASSUME NEW kind, NEW s, NEW c, c.version \in Versions \cup {0}, c.instance \in 0..MaxInstances
  PROVE  Built(kind, s, c) \in Object
  <1>1. 0 \in 0..MaxInstances /\ 1 \in Versions
    BY ConstantsType
  <1> QED BY <1>1 DEF Built, Object

LEMMA ReconciledType ==
  ASSUME NEW kind \in Kinds, NEW cur \in Object, NEW s, NEW c \in Controller
  PROVE  /\ Reconciled(kind, cur, s, c) \in Object
         /\ kind \notin {"claim", "service", "laterService"} =>
              Reconciled(kind, cur, s, c) = Built(kind, s, c)
         /\ kind \in {"claim", "service", "laterService"} =>
              Reconciled(kind, cur, s, c) = IF cur = NoObject THEN Built(kind, s, c) ELSE cur
  <1>1. \A n : Built(n, s, c) \in Object
    BY BuiltType, ControllerFields
  <1>2. kind \in {"configmap", "claim", "component", "account", "deployment", "service", "laterService",
                  "ingress"}
    BY KindsAre
  <1>3. Built("service", s, c) = Built("laterService", s, c)
    BY DEF Built
  <1> QED BY <1>1, <1>2, <1>3 DEF Reconciled, ServiceKinds, ReconcileConfigMap, ReconcileClaim, ReconcileComponent,
                            ReconcileAccount, ReconcileDeployment, ReconcileService, ReconcileIngress

LEMMA CommandType == "reconcile" \in Commands /\ "deprovision" \in Commands
  BY DEF Commands

\* What the first command does to the rest of a task.
Taken(c, removed, todo, alone) ==
    [c EXCEPT !.busy = TRUE, !.cmds = Tail(c.cmds), !.removed = removed, !.todo = todo,
              !.clean = alone]

LEMMA TakenType ==
  ASSUME NEW c \in Controller, c.cmds # <<>>, NEW removed \in BOOLEAN, NEW todo \in SUBSET Kinds,
         NEW alone \in BOOLEAN
  PROVE  LET n == Taken(c, removed, todo, alone)
         IN  /\ n \in Controller /\ (n.held <=> c.held) /\ n.busy /\ n.todo = todo
             /\ (n.removed <=> removed) /\ (n.clean <=> alone) /\ n.cmds = Tail(c.cmds)
             /\ n.version = c.version /\ n.instance = c.instance
             /\ Len(n.cmds) <= Len(c.cmds)
             /\ IsTold(n) => IsTold(c)
             /\ IsTold(c) => IsTold(n) \/ Head(c.cmds) = "deprovision"
             /\ Head(c.cmds) = "deprovision" => IsTold(c)
  <1>1. c.cmds \in Seq(Commands)
    BY ControllerFields
  <1>2. /\ Tail(c.cmds) \in Seq(Commands) /\ Len(Tail(c.cmds)) = Len(c.cmds) - 1 /\ Len(c.cmds) \in Nat
        /\ Len(c.cmds) >= 1 /\ Head(c.cmds) = c.cmds[1]
        /\ DOMAIN c.cmds = 1..Len(c.cmds) /\ DOMAIN Tail(c.cmds) = 1..(Len(c.cmds) - 1)
        /\ \A i \in 1..(Len(c.cmds) - 1) : Tail(c.cmds)[i] = c.cmds[i + 1]
    BY <1>1
  <1> DEFINE q == Tail(c.cmds)
             n == Taken(c, removed, todo, alone)
  <1>3. q \in Seq(Commands)
    BY <1>2
  <1> HIDE DEF q
  <1>4. /\ n \in Controller /\ (n.held <=> c.held) /\ n.busy /\ n.todo = todo
        /\ (n.removed <=> removed) /\ (n.clean <=> alone) /\ n.cmds = q
        /\ n.version = c.version /\ n.instance = c.instance
    BY <1>3 DEF Taken, Controller, q
  <1>5. (\E i \in DOMAIN q : q[i] = "deprovision") => \E i \in DOMAIN c.cmds : c.cmds[i] = "deprovision"
    <2> SUFFICES ASSUME NEW i \in DOMAIN q, q[i] = "deprovision"
                 PROVE  \E h \in DOMAIN c.cmds : c.cmds[h] = "deprovision"
      OBVIOUS
    <2>1. i + 1 \in DOMAIN c.cmds /\ c.cmds[i + 1] = "deprovision"
      BY <1>2 DEF q
    <2> QED BY <2>1
  <1>6. ASSUME NEW i \in DOMAIN c.cmds, c.cmds[i] = "deprovision", c.cmds[1] # "deprovision"
        PROVE  \E h \in DOMAIN q : q[h] = "deprovision"
    <2>1. i - 1 \in DOMAIN q /\ q[i - 1] = c.cmds[i]
      BY <1>2, <1>6 DEF q
    <2> QED BY <1>6, <2>1
  <1>7. 1 \in DOMAIN c.cmds
    BY <1>2
  <1> HIDE DEF n
  <1>8. Len(n.cmds) <= Len(c.cmds)
    BY <1>2, <1>4 DEF q
  <1>9. /\ IsTold(n) => IsTold(c)
        /\ IsTold(c) => IsTold(n) \/ Head(c.cmds) = "deprovision"
        /\ Head(c.cmds) = "deprovision" => IsTold(c)
    BY <1>2, <1>4, <1>5, <1>6, <1>7 DEF IsTold
  <1> QED BY <1>4, <1>8, <1>9 DEF n, q

\* The task and what it is to do are the same, but for its list and its errors.
SameTask(c, n) ==
    /\ (n.held <=> c.held) /\ (n.removed <=> c.removed) /\ n.cmds = c.cmds
    /\ n.version = c.version /\ n.instance = c.instance

Handled(c, todo) == [c EXCEPT !.todo = todo]

LEMMA HandledType ==
  ASSUME NEW c \in Controller, NEW todo \in SUBSET Kinds
  PROVE  /\ Handled(c, todo) \in Controller /\ SameTask(c, Handled(c, todo))
         /\ (Handled(c, todo).busy <=> c.busy) /\ (Handled(c, todo).clean <=> c.clean)
         /\ Handled(c, todo).todo = todo
  BY DEF Controller, SameTask, Handled

LEMMA FailedType ==
  ASSUME NEW c \in Controller, NEW todo \in SUBSET Kinds
  PROVE  LET n == [c EXCEPT !.todo = todo, !.clean = FALSE]
         IN  /\ n \in Controller /\ SameTask(c, n) /\ (n.busy <=> c.busy) /\ ~ n.clean
             /\ n.todo = todo
  BY DEF Controller, SameTask

\* A step of a command, from c over n to what is left of n.
LEMMA ProgressIs ==
  ASSUME NEW c \in Controller, NEW n \in Controller, SameTask(c, n), n.busy <=> c.busy, n.todo \subseteq c.todo
  PROVE  /\ Ended(n) \in Controller /\ (Ended(n).held <=> c.held) /\ Len(Ended(n).cmds) <= Len(c.cmds)
         /\ \A kind : Pending(c, kind) /\ kind \notin c.todo \ n.todo =>
              Pending(Ended(n), kind) /\ SameTask(c, Ended(n))
         /\ c.held => SameTask(c, Ended(n))
         /\ n.todo # {} => Ended(n) = n
         /\ n.todo = {} => ~ Ended(n).busy
  <1>1. /\ Ended(n) \in Controller /\ (Ended(n).held <=> n.held) /\ Len(Ended(n).cmds) <= Len(n.cmds)
        /\ n.todo # {} => Ended(n) = n
        /\ n.held \/ n.cmds # <<>> =>
             /\ Ended(n).version = n.version /\ Ended(n).instance = n.instance
             /\ (Ended(n).removed <=> n.removed) /\ Ended(n).cmds = n.cmds
             /\ Ended(n).todo = n.todo
        /\ n.todo = {} => ~ Ended(n).busy
    BY EndedType
  <1>2. c.held => SameTask(c, Ended(n))
    BY <1>1 DEF SameTask
  <1>3. ASSUME NEW kind, Pending(c, kind), kind \notin c.todo \ n.todo
        PROVE  Pending(Ended(n), kind) /\ SameTask(c, Ended(n))
    <2>1. CASE c.cmds # <<>>
      BY <1>1, <2>1 DEF SameTask, Pending
    <2>2. CASE c.cmds = <<>>
      <3>1. c.busy /\ kind \in n.todo
        BY <1>3, <2>2 DEF Pending
      <3> QED BY <1>1, <3>1 DEF SameTask, Pending
    <2> QED BY <2>1, <2>2
  <1> QED BY <1>1, <1>2, <1>3 DEF SameTask

(***************************************************************************)
(* The type invariant.                                                     *)
(***************************************************************************)

Limits ==
    \A s \in Services, k \in Slots :
      /\ Len(controllers[s][k].cmds) <= MaxQueue
      /\ controllers[s][k].held => s \in specs.services

LEMMA TypeIs ==
  ASSUME TypeOK
  PROVE  /\ controllers \in Tasks /\ Limits /\ specs \in KubernetesSpecs
         /\ specs.services \subseteq Services /\ specs.version \in Versions \cup {0}
         /\ specs.instance \in 0..MaxInstances /\ specs.removed \in BOOLEAN
         /\ cluster \in [Services -> [Kinds -> Object]] /\ watching \in BOOLEAN
         /\ excused \in [Services -> SUBSET {"failure", "race", "stray", "blocked"}] /\ dropped \subseteq Services
         /\ \A s \in Services, k \in Slots : controllers[s][k] \in Controller
         /\ podEvent \in BOOLEAN /\ debounced \in BOOLEAN
  <1>1. /\ controllers \in Tasks /\ Limits /\ specs \in KubernetesSpecs
    BY DEF TypeOK, Tasks, Limits
  <1>2. /\ cluster \in [Services -> [Kinds -> Object]] /\ watching \in BOOLEAN
        /\ excused \in [Services -> SUBSET {"failure", "race", "stray", "blocked"}] /\ dropped \subseteq Services
        /\ podEvent \in BOOLEAN /\ debounced \in BOOLEAN
    BY DEF TypeOK
  <1>3. /\ specs.services \subseteq Services /\ specs.version \in Versions \cup {0}
        /\ specs.instance \in 0..MaxInstances /\ specs.removed \in BOOLEAN
    BY <1>1 DEF KubernetesSpecs
  <1> QED BY <1>1, <1>2, <1>3 DEF Tasks

\* The types of the state that the controllers work on.
LEMMA TypeFrom ==
  ASSUME specs' \in KubernetesSpecs, controllers' \in Tasks, Limits',
         cluster' \in [Services -> [Kinds -> Object]], watching' \in BOOLEAN,
         excused' \in [Services -> SUBSET {"failure", "race", "stray", "blocked"}], dropped' \subseteq Services,
         instance' \in 0..MaxInstances, issued' \in 0..MaxInstances,
         actor' \in {"off", "activating", "on"}, podEvent' \in BOOLEAN, debounced' \in BOOLEAN,
         spent' \in 0..MaxEvents
  PROVE  TypeOK'
  BY DEF TypeOK, Tasks, Limits

LEMMA SpendType == TypeOK /\ (UNCHANGED spent \/ Spend) => spent' \in 0..MaxEvents
  BY ConstantsType DEF TypeOK, Spend

LEMMA LoadLimits ==
  ASSUME TypeOK, NEW sp \in KubernetesSpecs, LoadControllers(sp), specs' = sp
  PROVE  controllers' \in Tasks /\ Limits'
<1>0. controllers \in Tasks /\ Limits /\ \A s \in Services, k \in Slots : controllers[s][k] \in Controller
  BY TypeIs
<1>1. /\ controllers' \in Tasks
      /\ \A s \in Services, k \in Slots :
           \/ controllers'[s][k] = Release(controllers[s][k])
           \/ s \in sp.services /\ controllers'[s][k] = StartController(sp)
  BY <1>0, LoadedIs
<1>2. ASSUME NEW s \in Services, NEW k \in Slots
      PROVE  Len(controllers'[s][k].cmds) <= MaxQueue /\ (controllers'[s][k].held => s \in sp.services)
  <2>1. CASE controllers'[s][k] = Release(controllers[s][k])
    <3>1. /\ ~ Release(controllers[s][k]).held
          /\ Len(Release(controllers[s][k]).cmds) <= Len(controllers[s][k].cmds)
          /\ Release(controllers[s][k]) \in Controller
      BY <1>0, ReleaseType
    <3>2. Len(controllers[s][k].cmds) <= MaxQueue /\ Len(controllers[s][k].cmds) \in Nat
      BY <1>0, ControllerFields DEF Limits
    <3>3. Len(Release(controllers[s][k]).cmds) \in Nat
      BY <3>1, ControllerFields
    <3> QED BY <2>1, <3>1, <3>2, <3>3, ConstantsType
  <2>2. CASE s \in sp.services /\ controllers'[s][k] = StartController(sp)
    BY <2>2, StartType, ConstantsType
  <2> QED BY <1>1, <2>1, <2>2
<1> QED BY <1>1, <1>2 DEF Limits

LEMMA EnqueueLimits ==
  ASSUME TypeOK, NEW cmd \in Commands, Enqueue(cmd), specs'.services = specs.services
  PROVE  controllers' \in Tasks /\ Limits'
<1>0. controllers \in Tasks /\ Limits /\ \A s \in Services, k \in Slots : controllers[s][k] \in Controller
  BY TypeIs
<1>1. /\ controllers' \in Tasks
      /\ \A s \in Services, k \in Slots :
           /\ controllers[s][k].held =>
                controllers'[s][k] = Enqueued(controllers[s][k], cmd) /\ Len(controllers[s][k].cmds) < MaxQueue
           /\ ~ controllers[s][k].held => controllers'[s][k] = controllers[s][k]
  BY <1>0, EnqueueIs
<1>2. ASSUME NEW s \in Services, NEW k \in Slots
      PROVE  Len(controllers'[s][k].cmds) <= MaxQueue /\ (controllers'[s][k].held => s \in specs.services)
  <2>1. CASE controllers[s][k].held
    <3>1. Len(Enqueued(controllers[s][k], cmd).cmds) = Len(controllers[s][k].cmds) + 1
      BY <1>0, EnqueuedType
    <3>2. Len(controllers[s][k].cmds) \in Nat
      BY <1>0, ControllerFields
    <3> QED BY <1>0, <1>1, <2>1, <3>1, <3>2, ConstantsType DEF Limits
  <2>2. CASE ~ controllers[s][k].held
    BY <1>0, <1>1, <2>2 DEF Limits
  <2> QED BY <2>1, <2>2
<1> QED BY <1>1, <1>2 DEF Limits

LEMMA ReplaceLimits ==
  ASSUME TypeOK, NEW s \in Services, NEW k \in Slots, NEW c \in Controller, Replace(s, k, c),
         c.held <=> controllers[s][k].held, Len(c.cmds) <= Len(controllers[s][k].cmds), UNCHANGED specs
  PROVE  controllers' \in Tasks /\ Limits'
<1>0. controllers \in Tasks /\ Limits /\ controllers[s][k] \in Controller
  BY TypeIs
<1>1. /\ controllers' \in Tasks /\ controllers'[s][k] = c
      /\ \A r \in Services, j \in Slots : r # s \/ j # k => controllers'[r][j] = controllers[r][j]
  BY <1>0, ReplaceIs
<1>2. Len(c.cmds) <= MaxQueue
  <2>1. Len(c.cmds) \in Nat /\ Len(controllers[s][k].cmds) \in Nat
    BY <1>0, ControllerFields
  <2> QED BY <1>0, <2>1, ConstantsType DEF Limits
<1>3. ASSUME NEW r \in Services, NEW j \in Slots
      PROVE  Len(controllers'[r][j].cmds) <= MaxQueue /\ (controllers'[r][j].held => r \in specs.services)
  BY <1>0, <1>1, <1>2 DEF Limits
<1> QED BY <1>1, <1>3 DEF Limits

LEMMA ProceedType ==
  ASSUME TypeOK, NEW s \in Services, NEW k \in Slots, NEW n \in Controller, SameTask(controllers[s][k], n),
         n.busy <=> controllers[s][k].busy, n.todo \subseteq controllers[s][k].todo,
         NEW reasons \in SUBSET {"failure", "race", "stray", "blocked"}, Proceed(s, k, n, reasons), UNCHANGED specs
  PROVE  /\ controllers' \in Tasks /\ Limits'
         /\ excused' \in [Services -> SUBSET {"failure", "race", "stray", "blocked"}]
<1>1. controllers[s][k] \in Controller /\ excused \in [Services -> SUBSET {"failure", "race", "stray", "blocked"}]
  BY TypeIs
<1>2. /\ Ended(n) \in Controller /\ (Ended(n).held <=> controllers[s][k].held)
      /\ Len(Ended(n).cmds) <= Len(controllers[s][k].cmds)
  BY <1>1, ProgressIs
<1>3. controllers' \in Tasks /\ Limits'
  BY <1>2, ReplaceLimits DEF Proceed
<1>4. excused' \in [Services -> SUBSET {"failure", "race", "stray", "blocked"}]
  BY <1>1 DEF Proceed
<1> QED BY <1>3, <1>4

\* What ReconcileObject makes of the task.
Reconciling(c, s, kind) ==
    [c EXCEPT !.todo = c.todo \ Passed(kind, cluster[s][kind] = NoObject)]

\* What RemoveObject makes of it.
Removing(c, kind) == [c EXCEPT !.todo = c.todo \ {kind}]

Failing(c, kind) ==
    [c EXCEPT !.todo = IF c.removed THEN {} ELSE c.todo \ Passed(kind, FALSE), !.clean = FALSE]

LEMMA PassedIs ==
  ASSUME NEW kind, NEW ok
  PROVE  /\ kind \in Passed(kind, ok) /\ Passed(kind, ok) \subseteq {kind, "service", "laterService"}
         /\ ok \/ kind \notin {"service", "laterService"} => Passed(kind, ok) = {kind}
  BY DEF Passed, ServiceKinds

\* Services come in the order of their names.
LEMMA NextIs ==
  ASSUME NEW c, NEW kind, IsNext(kind, c)
  PROVE  /\ kind \in c.todo
         /\ kind = "laterService" => "service" \notin c.todo
  <1>1. /\ ReconcileOrder["service"] = 6 /\ ReconcileOrder["laterService"] = 7
        /\ DeprovisionOrder["service"] = 2 /\ DeprovisionOrder["laterService"] = 3
    BY DEF ReconcileOrder, DeprovisionOrder
  <1>2. kind \in c.todo
    BY DEF IsNext
  <1>3. ASSUME kind = "laterService", "service" \in c.todo PROVE FALSE
    <2>1. CASE c.removed
      <3>1. DeprovisionOrder["laterService"] <= DeprovisionOrder["service"]
        BY <1>3, <2>1 DEF IsNext
      <3> QED BY <1>1, <3>1
    <2>2. CASE ~ c.removed
      <3>1. ReconcileOrder["laterService"] <= ReconcileOrder["service"]
        BY <1>3, <2>2 DEF IsNext
      <3> QED BY <1>1, <3>1
    <2> QED BY <2>1, <2>2
  <1> QED BY <1>2, <1>3

LEMMA ReconcilingIs ==
  ASSUME NEW c \in Controller, NEW s, NEW kind
  PROVE  /\ Reconciling(c, s, kind) \in Controller /\ SameTask(c, Reconciling(c, s, kind))
         /\ (Reconciling(c, s, kind).busy <=> c.busy) /\ (Reconciling(c, s, kind).clean <=> c.clean)
         /\ Reconciling(c, s, kind).todo = c.todo \ Passed(kind, cluster[s][kind] = NoObject)
  <1> DEFINE todo == c.todo \ Passed(kind, cluster[s][kind] = NoObject)
  <1>1. todo \in SUBSET Kinds
    BY ControllerFields
  <1>2. Reconciling(c, s, kind) = Handled(c, todo)
    BY DEF Reconciling, Handled
  <1> HIDE DEF todo
  <1>3. /\ Reconciling(c, s, kind) \in Controller /\ SameTask(c, Reconciling(c, s, kind))
        /\ (Reconciling(c, s, kind).busy <=> c.busy) /\ (Reconciling(c, s, kind).clean <=> c.clean)
        /\ Reconciling(c, s, kind).todo = todo
    BY <1>1, <1>2, HandledType
  <1> QED BY <1>3 DEF todo

LEMMA RemovingIs ==
  ASSUME NEW c \in Controller, NEW kind
  PROVE  /\ Removing(c, kind) \in Controller /\ SameTask(c, Removing(c, kind))
         /\ (Removing(c, kind).busy <=> c.busy) /\ (Removing(c, kind).clean <=> c.clean)
         /\ Removing(c, kind).todo = c.todo \ {kind}
  <1>1. c.todo \ {kind} \in SUBSET Kinds
    BY ControllerFields
  <1>2. Removing(c, kind) = Handled(c, c.todo \ {kind})
    BY DEF Removing, Handled
  <1> QED BY <1>1, <1>2, HandledType

LEMMA FailingIs ==
  ASSUME NEW c \in Controller, NEW kind
  PROVE  /\ Failing(c, kind) \in Controller /\ SameTask(c, Failing(c, kind))
         /\ (Failing(c, kind).busy <=> c.busy) /\ ~ Failing(c, kind).clean
         /\ Failing(c, kind).todo \subseteq c.todo
         /\ c.removed => Failing(c, kind).todo = {}
         /\ ~ c.removed => Failing(c, kind).todo = c.todo \ Passed(kind, FALSE)
  <1> DEFINE todo == IF c.removed THEN {} ELSE c.todo \ Passed(kind, FALSE)
  <1>1. todo \in SUBSET Kinds /\ todo \subseteq c.todo
    BY ControllerFields
  <1>2. /\ c.removed => todo = {}
        /\ ~ c.removed => todo = c.todo \ Passed(kind, FALSE)
    OBVIOUS
  <1>3. Failing(c, kind) = [c EXCEPT !.todo = todo, !.clean = FALSE]
    BY DEF Failing
  <1> HIDE DEF todo
  <1>4. LET n == [c EXCEPT !.todo = todo, !.clean = FALSE]
        IN  n \in Controller /\ SameTask(c, n) /\ (n.busy <=> c.busy) /\ ~ n.clean /\ n.todo = todo
    BY <1>1, FailedType
  <1> QED BY <1>1, <1>2, <1>3, <1>4

\* The three steps of a command, in one form.
LEMMA ReconcileIs ==
  ASSUME NEW s \in Services, NEW k \in Slots, NEW kind \in Kinds, ReconcileObject(s, k, kind)
  PROVE  /\ controllers[s][k].busy /\ ~ controllers[s][k].removed /\ IsNext(kind, controllers[s][k])
         /\ cluster' = [cluster EXCEPT ![s][kind] = Reconciled(kind, cluster[s][kind], s, controllers[s][k])]
         /\ podEvent' = (podEvent \/ ((kind = "deployment" /\ WritesDeployment(cluster[s][kind], s, controllers[s][k]))
                                      /\ watching))
         /\ Proceed(s, k, Reconciling(controllers[s][k], s, kind),
              Race(controllers[s][k], kind,
                   Reconciled(kind, cluster[s][kind], s, controllers[s][k]) # cluster[s][kind])
              \cup Stray(s, kind = "deployment" /\ WritesDeployment(cluster[s][kind], s, controllers[s][k])))
         /\ UNCHANGED <<specs, instance, issued, actor, watching, debounced, spent, dropped>>
  BY Zenon DEF ReconcileObject, Reconciling

LEMMA RemoveIs ==
  ASSUME NEW s \in Services, NEW k \in Slots, NEW kind \in Kinds, RemoveObject(s, k, kind)
  PROVE  /\ controllers[s][k].busy /\ controllers[s][k].removed /\ IsNext(kind, controllers[s][k])
         /\ cluster' = [cluster EXCEPT ![s][kind] = NoObject]
         /\ podEvent' = (podEvent \/ ((kind = "deployment" /\ cluster[s][kind] # NoObject) /\ watching))
         /\ Proceed(s, k, Removing(controllers[s][k], kind),
              Race(controllers[s][k], kind, cluster[s][kind] # NoObject)
              \cup Unseen(controllers[s][k], kind = "deployment" /\ cluster[s][kind] # NoObject))
         /\ UNCHANGED <<specs, instance, issued, actor, watching, debounced, spent, dropped>>
  BY Zenon DEF RemoveObject, Removing

LEMMA FailIs ==
  ASSUME NEW s \in Services, NEW k \in Slots, NEW kind \in Kinds, CallFails(s, k, kind)
  PROVE  /\ controllers[s][k].busy /\ IsNext(kind, controllers[s][k]) /\ Spend
         /\ Proceed(s, k, Failing(controllers[s][k], kind), {"failure"})
         /\ UNCHANGED <<specs, instance, issued, actor, cluster, watching, podEvent, debounced, dropped>>
  BY Zenon DEF CallFails, Failing

LEMMA Disjunction == \A a, b : (a \/ b) \in BOOLEAN
  OBVIOUS

\* A step of a command keeps the types.
LEMMA WorkType ==
  ASSUME TypeOK, NEW s \in Services, NEW k \in Slots, NEW kind \in Kinds,
         ReconcileObject(s, k, kind) \/ RemoveObject(s, k, kind) \/ CallFails(s, k, kind)
  PROVE  TypeOK'
<1> DEFINE c == controllers[s][k]
<1>0. /\ c \in Controller /\ cluster \in [Services -> [Kinds -> Object]] /\ watching \in BOOLEAN
      /\ specs \in KubernetesSpecs /\ dropped \subseteq Services /\ podEvent \in BOOLEAN /\ debounced \in BOOLEAN
      /\ cluster[s][kind] \in Object
  BY TypeIs
<1>1. /\ instance \in 0..MaxInstances /\ issued \in 0..MaxInstances /\ actor \in {"off", "activating", "on"}
      /\ spent \in 0..MaxEvents
  BY DEF TypeOK
<1> HIDE DEF c
<1>2. CASE ReconcileObject(s, k, kind)
  <2>1. /\ cluster' = [cluster EXCEPT ![s][kind] = Reconciled(kind, cluster[s][kind], s, c)]
        /\ podEvent' = (podEvent \/ ((kind = "deployment" /\ WritesDeployment(cluster[s][kind], s, c)) /\ watching))
        /\ Proceed(s, k, Reconciling(c, s, kind),
                   Race(c, kind, Reconciled(kind, cluster[s][kind], s, c) # cluster[s][kind])
                   \cup Stray(s, kind = "deployment" /\ WritesDeployment(cluster[s][kind], s, c)))
        /\ UNCHANGED <<specs, instance, issued, actor, watching, debounced, spent, dropped>>
    BY <1>2, ReconcileIs DEF c
  <2>2. PICK reasons \in SUBSET {"failure", "race", "stray", "blocked"} : Proceed(s, k, Reconciling(c, s, kind), reasons)
    BY <2>1 DEF Race, Stray
  <2>3. /\ controllers' \in Tasks /\ Limits'
        /\ excused' \in [Services -> SUBSET {"failure", "race", "stray", "blocked"}]
    <3>1. PICK n \in Controller : /\ SameTask(c, n) /\ (n.busy <=> c.busy) /\ n.todo \subseteq c.todo
                                  /\ Proceed(s, k, n, reasons)
      BY <1>0, <2>2, ReconcilingIs
    <3> QED BY <2>1, <3>1, ProceedType DEF c
  <2>4. cluster' \in [Services -> [Kinds -> Object]]
    BY <1>0, <2>1, ReconciledType
  <2>5. podEvent' \in BOOLEAN
    BY <2>1, Disjunction, Zenon
  <2> QED BY <1>0, <1>1, <2>1, <2>3, <2>4, <2>5, TypeFrom
<1>3. CASE RemoveObject(s, k, kind)
  <2>1. /\ cluster' = [cluster EXCEPT ![s][kind] = NoObject]
        /\ podEvent' = (podEvent \/ ((kind = "deployment" /\ cluster[s][kind] # NoObject) /\ watching))
        /\ Proceed(s, k, Removing(c, kind), Race(c, kind, cluster[s][kind] # NoObject)
                   \cup Unseen(c, kind = "deployment" /\ cluster[s][kind] # NoObject))
        /\ UNCHANGED <<specs, instance, issued, actor, watching, debounced, spent, dropped>>
    BY <1>3, RemoveIs DEF c
  <2>2. PICK reasons \in SUBSET {"failure", "race", "stray", "blocked"} : Proceed(s, k, Removing(c, kind), reasons)
    BY <2>1 DEF Race, Unseen
  <2>3. /\ controllers' \in Tasks /\ Limits'
        /\ excused' \in [Services -> SUBSET {"failure", "race", "stray", "blocked"}]
    <3>1. PICK n \in Controller : /\ SameTask(c, n) /\ (n.busy <=> c.busy) /\ n.todo \subseteq c.todo
                                  /\ Proceed(s, k, n, reasons)
      BY <1>0, <2>2, RemovingIs
    <3> QED BY <2>1, <3>1, ProceedType DEF c
  <2>4. cluster' \in [Services -> [Kinds -> Object]]
    BY <1>0, <2>1, NoObjectType
  <2>5. podEvent' \in BOOLEAN
    BY <2>1, Disjunction, Zenon
  <2> QED BY <1>0, <1>1, <2>1, <2>3, <2>4, <2>5, TypeFrom
<1>4. CASE CallFails(s, k, kind)
  <2>1. /\ Spend /\ Proceed(s, k, Failing(c, kind), {"failure"})
        /\ UNCHANGED <<specs, instance, issued, actor, cluster, watching, podEvent, debounced, dropped>>
    BY <1>4, FailIs DEF c
  <2>2. {"failure"} \in SUBSET {"failure", "race", "stray", "blocked"}
    OBVIOUS
  <2>3. /\ controllers' \in Tasks /\ Limits'
        /\ excused' \in [Services -> SUBSET {"failure", "race", "stray", "blocked"}]
    BY <1>0, <2>1, <2>2, FailingIs, ProceedType DEF c
  <2>4. spent' \in 0..MaxEvents
    BY <2>1, SpendType
  <2> QED BY <1>0, <1>1, <2>1, <2>3, <2>4, TypeFrom
<1> QED BY <1>2, <1>3, <1>4

\* TakeCommand, in the form of Taken.
LEMMA TakeIs ==
  ASSUME TypeOK, NEW s \in Services, NEW k \in Slots, TakeCommand(s, k)
  PROVE  \E removed \in BOOLEAN, todo \in SUBSET Kinds, alone \in BOOLEAN :
           /\ ~ controllers[s][k].busy /\ controllers[s][k].cmds # <<>>
           /\ Replace(s, k, Taken(controllers[s][k], removed, todo, alone))
           /\ removed <=> controllers[s][k].removed \/ Head(controllers[s][k].cmds) = "deprovision"
           /\ todo = IF removed THEN Objects[s] \cap Removable ELSE Objects[s]
           /\ alone => \A j \in Slots \ {k} : controllers[s][j] = Free
           /\ UNCHANGED <<specs, instance, issued, actor, cluster, watching, podEvent, debounced, spent,
                          excused, dropped>>
<1> DEFINE r == controllers[s][k].removed \/ Head(controllers[s][k].cmds) = "deprovision"
           t == IF r THEN Objects[s] \cap Removable ELSE Objects[s]
           a == \A j \in Slots \ {k} : controllers[s][j] = Free
<1>1. r \in BOOLEAN /\ a \in BOOLEAN
  OBVIOUS
<1>2. t \in SUBSET Kinds
  BY ConstantsType
<1>3. /\ ~ controllers[s][k].busy /\ controllers[s][k].cmds # <<>>
      /\ Replace(s, k, Taken(controllers[s][k], r, t, a))
      /\ UNCHANGED <<specs, instance, issued, actor, cluster, watching, podEvent, debounced, spent,
                     excused, dropped>>
  BY Zenon DEF TakeCommand, Taken
<1> QED BY <1>1, <1>2, <1>3, Zenon

LEMMA TakeType ==
  ASSUME TypeOK, NEW s \in Services, NEW k \in Slots, TakeCommand(s, k)
  PROVE  TypeOK'
<1>0. controllers[s][k] \in Controller
  BY TypeIs
<1>1. PICK removed \in BOOLEAN, todo \in SUBSET Kinds, alone \in BOOLEAN :
        /\ controllers[s][k].cmds # <<>>
        /\ Replace(s, k, Taken(controllers[s][k], removed, todo, alone))
        /\ UNCHANGED <<specs, instance, issued, actor, cluster, watching, podEvent, debounced, spent,
                       excused, dropped>>
  BY TakeIs
<1>2. controllers' \in Tasks /\ Limits'
  BY <1>0, <1>1, TakenType, ReplaceLimits
<1> QED BY <1>1, <1>2, TypeFrom, TypeIs DEF TypeOK

LEMMA ReleaseLimits ==
  ASSUME TypeOK, controllers' = Released, UNCHANGED specs
  PROVE  controllers' \in Tasks /\ Limits'
<1>0. controllers \in Tasks /\ Limits /\ \A s \in Services, k \in Slots : controllers[s][k] \in Controller
  BY TypeIs
<1>1. controllers' \in Tasks /\ \A s \in Services, k \in Slots : controllers'[s][k] = Release(controllers[s][k])
  BY <1>0, ReleasedIs
<1>2. ASSUME NEW s \in Services, NEW k \in Slots
      PROVE  Len(controllers'[s][k].cmds) <= MaxQueue /\ (controllers'[s][k].held => s \in specs.services)
  <2>1. /\ ~ Release(controllers[s][k]).held
        /\ Len(Release(controllers[s][k]).cmds) <= Len(controllers[s][k].cmds)
        /\ Release(controllers[s][k]) \in Controller
    BY <1>0, ReleaseType
  <2>2. Len(controllers[s][k].cmds) <= MaxQueue /\ Len(controllers[s][k].cmds) \in Nat
    BY <1>0, ControllerFields DEF Limits
  <2>3. Len(Release(controllers[s][k]).cmds) \in Nat
    BY <2>1, ControllerFields
  <2> QED BY <1>1, <2>1, <2>2, <2>3, ConstantsType
<1> QED BY <1>1, <1>2 DEF Limits

\* A reconciliation that was forgotten.
Soiled(c) == [c EXCEPT !.clean = c.clean /\ ~ c.busy]

LEMMA SoiledIs ==
  ASSUME NEW c \in Controller
  PROVE  /\ Soiled(c) \in Controller /\ SameTask(c, Soiled(c)) /\ (Soiled(c).busy <=> c.busy)
         /\ Soiled(c).todo = c.todo
         /\ Soiled(c).clean => ~ c.busy
  BY DEF Soiled, Controller, SameTask

LEMMA InvokeFailsIs ==
  ASSUME TypeOK, InvokeFails
  PROVE  /\ controllers' \in Tasks /\ Limits'
         /\ \/ /\ podEvent /\ ~ debounced /\ ~ podEvent' /\ debounced' /\ UNCHANGED <<excused, controllers>>
            \/ /\ debounced /\ ~ debounced' /\ UNCHANGED podEvent
               /\ excused' = [s \in Services |-> excused[s] \cup {"failure"}]
               /\ \A s \in Services, k \in Slots : controllers'[s][k] = Soiled(controllers[s][k])
         /\ podEvent' \in BOOLEAN /\ debounced' \in BOOLEAN
         /\ UNCHANGED <<specs, instance, issued, actor, cluster, watching, dropped>> /\ Spend
<1>0. controllers \in Tasks /\ Limits /\ \A s \in Services, k \in Slots : controllers[s][k] \in Controller
  BY TypeIs
<1>1. UNCHANGED <<specs, instance, issued, actor, cluster, watching, dropped>> /\ Spend
  BY DEF InvokeFails
<1>2. CASE /\ podEvent /\ ~ debounced /\ podEvent' = FALSE /\ debounced' = TRUE /\ UNCHANGED <<excused, controllers>>
  <2>1. Limits'
    BY <1>0, <1>1, <1>2 DEF Limits
  <2> QED BY <1>0, <1>1, <1>2, <2>1
<1>3. CASE /\ debounced /\ debounced' = FALSE /\ UNCHANGED podEvent
           /\ excused' = [s \in Services |-> excused[s] \cup {"failure"}]
           /\ controllers' = [s \in Services |-> [k \in Slots |-> Soiled(controllers[s][k])]]
  <2>1. \A s \in Services, k \in Slots : controllers'[s][k] = Soiled(controllers[s][k])
    BY <1>3
  <2>2. \A s \in Services, k \in Slots :
          /\ Soiled(controllers[s][k]) \in Controller /\ (Soiled(controllers[s][k]).held <=> controllers[s][k].held)
          /\ Soiled(controllers[s][k]).cmds = controllers[s][k].cmds
    BY <1>0, SoiledIs DEF SameTask
  <2>3. controllers' \in Tasks
    BY <1>3, <2>2 DEF Tasks
  <2>4. Limits'
    BY <1>0, <1>1, <2>1, <2>2 DEF Limits
  <2>5. podEvent' \in BOOLEAN
    BY <1>3, TypeIs
  <2> QED BY <1>1, <1>3, <2>1, <2>3, <2>4, <2>5
<1> QED BY <1>2, <1>3 DEF InvokeFails, Soil, Soiled

\* A Deployment that somebody deletes, with and without a watch.
LEMMA OutsideIs ==
  ASSUME TypeOK, NEW s \in Services, DeleteOutside(s)
  PROVE  /\ controllers' \in Tasks /\ Limits' /\ podEvent' \in BOOLEAN /\ Spend
         /\ excused' \in [Services -> SUBSET {"failure", "race", "stray", "blocked"}]
         /\ cluster' = [cluster EXCEPT ![s]["deployment"] = NoObject]
         /\ UNCHANGED <<specs, instance, issued, actor, watching, debounced, dropped>>
         /\ podEvent => podEvent'
         /\ watching => podEvent' /\ UNCHANGED <<controllers, excused>>
         /\ ~ watching =>
              /\ excused' = [excused EXCEPT ![s] = excused[s] \cup {"failure"}]
              /\ \A k \in Slots : controllers'[s][k] = Soiled(controllers[s][k])
              /\ \A x \in Services \ {s} : controllers'[x] = controllers[x]
<1>0. /\ controllers \in Tasks /\ Limits /\ \A x \in Services, k \in Slots : controllers[x][k] \in Controller
      /\ excused \in [Services -> SUBSET {"failure", "race", "stray", "blocked"}]
  BY TypeIs
<1>1. /\ UNCHANGED <<specs, instance, issued, actor, watching, debounced, dropped>> /\ Spend
      /\ cluster' = [cluster EXCEPT ![s]["deployment"] = NoObject]
      /\ podEvent' = (podEvent \/ watching)
  BY DEF DeleteOutside
<1>2. podEvent' \in BOOLEAN
  BY <1>1, Disjunction, Zenon
<1>3. (podEvent => podEvent') /\ (watching => podEvent')
  BY <1>1, Zenon
<1>4. CASE watching
  <2>1. UNCHANGED <<controllers, excused>>
    BY <1>4 DEF DeleteOutside
  <2>2. Limits'
    BY <1>0, <1>1, <2>1 DEF Limits
  <2> QED BY <1>0, <1>1, <1>2, <1>3, <1>4, <2>1, <2>2
<1>5. CASE ~ watching
  <2>1. /\ excused' = [excused EXCEPT ![s] = excused[s] \cup {"failure"}]
        /\ controllers' = [controllers EXCEPT ![s] = [k \in Slots |-> Soiled(controllers[s][k])]]
    BY <1>5 DEF DeleteOutside, Soil, Soiled
  <2>2. \A k \in Slots :
          /\ Soiled(controllers[s][k]) \in Controller /\ (Soiled(controllers[s][k]).held <=> controllers[s][k].held)
          /\ Soiled(controllers[s][k]).cmds = controllers[s][k].cmds
    BY <1>0, SoiledIs DEF SameTask
  <2>3. /\ controllers' \in Tasks
        /\ \A k \in Slots : controllers'[s][k] = Soiled(controllers[s][k])
        /\ \A x \in Services \ {s} : controllers'[x] = controllers[x]
    BY <1>0, <2>1, <2>2 DEF Tasks
  <2>4. Limits'
    BY <1>0, <1>1, <2>2, <2>3 DEF Limits
  <2>5. excused' \in [Services -> SUBSET {"failure", "race", "stray", "blocked"}]
    BY <1>0, <2>1
  <2> QED BY <1>1, <1>2, <1>3, <1>5, <2>1, <2>3, <2>4, <2>5
<1> QED BY <1>4, <1>5

\* The specification a client asks for, as the actor builds it.
LEMMA ConfigureIs ==
  ASSUME TypeOK, NEW spec \in Specification, NEW o \in ConfigureOutcomes, Configure(spec, o)
  PROVE  /\ instance' \in 0..MaxInstances /\ issued' \in 0..MaxInstances /\ spent' \in 0..MaxEvents
         /\ actor = "on" /\ UNCHANGED <<actor, cluster, watching, podEvent, debounced, excused>>
         /\ UNCHANGED spent \/ Spend
         /\ o \in {"ok", "instance unread"} =>
              /\ \E sp \in KubernetesSpecs :
                   /\ sp.services = spec.services /\ sp.version = spec.version /\ ~ sp.removed
                   /\ specs' = sp /\ LoadControllers(sp)
              /\ dropped' = (dropped \cup Abandoned) \ spec.services
         /\ o \notin {"ok", "instance unread"} => UNCHANGED <<specs, controllers, dropped>>
<1>0. instance \in 0..MaxInstances /\ issued \in 0..MaxInstances /\ MaxInstances \in Nat
  BY ConstantsType DEF TypeOK
<1>1. InstanceId(o) \in 1..MaxInstances
  BY DEF Configure
<1>2. InstanceId(o) \in 0..MaxInstances
  BY <1>0, <1>1
<1>3. instance' \in 0..MaxInstances
  BY <1>0, <1>2 DEF Configure, WriteInstanceId
<1>4. issued' \in 0..MaxInstances
  <2>1. InstanceId(o) # instance => InstanceId(o) = issued + 1
    BY DEF InstanceId
  <2>2. issued' = issued \/ (issued' = issued + 1 /\ InstanceId(o) # instance)
    BY DEF Configure
  <2> QED BY <1>0, <1>1, <2>1, <2>2
<1>5. UNCHANGED spent \/ Spend
  BY DEF Configure
<1>6. actor = "on" /\ UNCHANGED <<actor, cluster, watching, podEvent, debounced, excused>>
  BY DEF Configure
<1>7. ASSUME o \in {"ok", "instance unread"}
      PROVE  /\ \E sp \in KubernetesSpecs :
                   /\ sp.services = spec.services /\ sp.version = spec.version /\ ~ sp.removed
                   /\ specs' = sp /\ LoadControllers(sp)
              /\ dropped' = (dropped \cup Abandoned) \ spec.services
  <2> DEFINE sp == [services |-> spec.services, version |-> spec.version,
                    instance |-> InstanceId(o), removed |-> FALSE]
  <2>1. specs' = sp /\ LoadControllers(sp) /\ dropped' = (dropped \cup Abandoned) \ spec.services
    BY <1>7 DEF Configure, WriteSpecs
  <2>2. sp \in KubernetesSpecs
    BY <1>2 DEF KubernetesSpecs, Specification
  <2>3. sp.services = spec.services /\ sp.version = spec.version /\ ~ sp.removed
    OBVIOUS
  <2> HIDE DEF sp
  <2> QED BY <2>1, <2>2, <2>3
<1>8. o \notin {"ok", "instance unread"} => UNCHANGED <<specs, controllers, dropped>>
  BY DEF Configure
<1> QED BY <1>3, <1>4, <1>5, <1>6, <1>7, <1>8, SpendType

LEMMA DeprovisionIs ==
  ASSUME TypeOK, NEW o \in DeprovisionOutcomes, Deprovision(o)
  PROVE  /\ instance' \in 0..MaxInstances /\ spent' \in 0..MaxEvents
         /\ actor = "on" /\ UNCHANGED <<issued, actor, cluster, watching, podEvent, debounced, excused, dropped>>
         /\ UNCHANGED spent \/ Spend
         /\ o \in {"ok", "instance kept"} =>
              /\ specs' \in KubernetesSpecs /\ specs'.services = specs.services /\ specs'.version = specs.version
              /\ (specs'.removed <=> specs.services # {}) /\ (specs = NoSpecs => specs' = NoSpecs)
              /\ specs'.instance = specs.instance /\ Enqueue("deprovision")
         /\ o \notin {"ok", "instance kept"} => UNCHANGED <<specs, controllers>>
<1>0. instance \in 0..MaxInstances /\ 0 \in 0..MaxInstances
  BY ConstantsType DEF TypeOK
<1>1. instance' \in 0..MaxInstances
  BY <1>0 DEF Deprovision, DeleteInstanceId
<1>2. UNCHANGED spent \/ Spend
  BY DEF Deprovision
<1>3. actor = "on" /\ UNCHANGED <<issued, actor, cluster, watching, podEvent, debounced, excused, dropped>>
  BY DEF Deprovision
<1>4. ASSUME o \in {"ok", "instance kept"}
      PROVE  /\ specs' \in KubernetesSpecs /\ specs'.services = specs.services /\ specs'.version = specs.version
             /\ (specs'.removed <=> specs.services # {}) /\ (specs = NoSpecs => specs' = NoSpecs)
             /\ specs'.instance = specs.instance /\ Enqueue("deprovision")
  <2>1. specs' = [specs EXCEPT !.removed = (specs.services # {})] /\ Enqueue("deprovision")
    BY <1>4 DEF Deprovision, WriteSpecs
  <2>2. specs \in KubernetesSpecs
    BY TypeIs
  <2>3. /\ specs' \in KubernetesSpecs /\ specs'.services = specs.services /\ specs'.version = specs.version
        /\ (specs'.removed <=> specs.services # {}) /\ specs'.instance = specs.instance
    BY <2>1, <2>2 DEF KubernetesSpecs
  <2>4. ASSUME specs = NoSpecs PROVE specs' = NoSpecs
    <3>1. specs.services = {} /\ specs.removed = FALSE
      BY <2>4 DEF NoSpecs
    <3>2. (specs.services # {}) = FALSE
      BY <3>1
    <3> QED BY <2>1, <2>4, <3>2 DEF NoSpecs
  <2> QED BY <2>1, <2>3, <2>4
<1>5. o \notin {"ok", "instance kept"} => UNCHANGED <<specs, controllers>>
  BY DEF Deprovision
<1> QED BY <1>1, <1>2, <1>3, <1>4, <1>5, SpendType

\* A step of the actor, the tasks, the monitor or the cluster that no request makes.
Internal ==
    \/ Activate \/ Activated \/ Deactivate \/ TakeEvent \/ DrainDebounced \/ InvokeFails \/ Crash
    \/ StartWatch \/ WatchFails \/ PodChanges \/ \E s \in Services : DeleteOutside(s)
    \/ \E s \in Services, k \in Slots :
         TakeCommand(s, k) \/ \E kind \in Kinds :
           ReconcileObject(s, k, kind) \/ RemoveObject(s, k, kind) \/ CallFails(s, k, kind)

LEMMA InternalIs ==
  ASSUME Next
  PROVE  \/ Internal /\ UNCHANGED apiVars
         \/ BeginSet \/ BeginDelete \/ SetProvider
         \/ \E r \in requests : RequestStep(r) \/ RequestFails(r)
  BY DEF Next, Internal, GetStatus, ActivateOnCall, ProviderStep, ProviderFault, WorkerStep, MonitorStep

LEMMA InternalType ==
  ASSUME TypeOK, Internal
  PROVE  TypeOK'
<1>0. /\ controllers \in Tasks /\ Limits /\ specs \in KubernetesSpecs
      /\ cluster \in [Services -> [Kinds -> Object]] /\ watching \in BOOLEAN
      /\ excused \in [Services -> SUBSET {"failure", "race", "stray", "blocked"}] /\ dropped \subseteq Services
      /\ podEvent \in BOOLEAN /\ debounced \in BOOLEAN
  BY TypeIs
<1>1. /\ instance \in 0..MaxInstances /\ issued \in 0..MaxInstances /\ actor \in {"off", "activating", "on"}
      /\ spent \in 0..MaxEvents
  BY DEF TypeOK
<1>2. CASE Activate
  <2>1. controllers' \in Tasks /\ Limits'
    BY <1>0, <1>2, LoadLimits DEF Activate
  <2>2. actor' = "activating" /\ UNCHANGED <<specs, instance, issued, cluster, watching, podEvent, debounced, spent,
                                             excused, dropped>>
    BY <1>2 DEF Activate
  <2> QED BY <1>0, <1>1, <2>1, <2>2, TypeFrom
<1>3. CASE Activated
  <2>1. actor' = "on" /\ UNCHANGED <<specs, instance, issued, controllers, cluster, watching, podEvent, debounced,
                                     spent, excused, dropped>>
    BY <1>3 DEF Activated
  <2>2. Limits'
    BY <1>0, <2>1 DEF Limits
  <2> QED BY <1>0, <1>1, <2>1, <2>2, TypeFrom
<1>4. CASE Deactivate
  <2>1. actor' = "off" /\ UNCHANGED <<specs, instance, issued, cluster, watching, podEvent, debounced, excused,
                                      dropped>>
        /\ Spend /\ controllers' = Released
    BY <1>4 DEF Deactivate
  <2>2. controllers' \in Tasks /\ Limits'
    BY <2>1, ReleaseLimits
  <2> QED BY <1>0, <1>1, <2>1, <2>2, SpendType, TypeFrom
<1>5. CASE TakeEvent \/ DrainDebounced
  <2>1. /\ UNCHANGED <<specs, instance, issued, actor, cluster, watching, spent, excused, dropped>>
        /\ Enqueue("reconcile") \/ UNCHANGED controllers
    BY <1>5 DEF TakeEvent, DrainDebounced
  <2>2. podEvent' \in BOOLEAN /\ debounced' \in BOOLEAN
    BY <1>0, <1>5 DEF TakeEvent, DrainDebounced
  <2>3. controllers' \in Tasks /\ Limits'
    <3>1. CASE Enqueue("reconcile")
      BY <2>1, <3>1, EnqueueLimits, CommandType
    <3>2. CASE UNCHANGED controllers
      BY <1>0, <2>1, <3>2 DEF Limits
    <3> QED BY <2>1, <3>1, <3>2
  <2> QED BY <1>0, <1>1, <2>1, <2>2, <2>3, TypeFrom
<1>6. CASE InvokeFails
  <2>1. /\ controllers' \in Tasks /\ Limits' /\ podEvent' \in BOOLEAN /\ debounced' \in BOOLEAN
        /\ UNCHANGED <<specs, instance, issued, actor, cluster, watching, dropped>> /\ Spend
        /\ UNCHANGED excused \/ excused' = [s \in Services |-> excused[s] \cup {"failure"}]
    BY <1>6, InvokeFailsIs
  <2>2. excused' \in [Services -> SUBSET {"failure", "race", "stray", "blocked"}]
    BY <1>0, <2>1
  <2> QED BY <1>0, <1>1, <2>1, <2>2, SpendType, TypeFrom
<1>7. CASE Crash
  <2>1. /\ actor' = "off" /\ debounced' = FALSE /\ Spend
        /\ controllers' = [s \in Services |-> [k \in Slots |-> Free]]
        /\ podEvent' = FALSE /\ watching' = FALSE
        /\ UNCHANGED excused \/ excused' = [s \in Services |-> excused[s] \cup {"failure"}]
        /\ UNCHANGED <<specs, instance, issued, cluster, dropped>>
    BY <1>7 DEF Crash
  <2>2. controllers' \in Tasks
    BY <2>1, FreeType DEF Tasks
  <2>3. Limits'
    <3>1. \A s \in Services, k \in Slots : controllers'[s][k] = Free
      BY <2>1
    <3>2. Len(Free.cmds) = 0 /\ ~ Free.held
      BY FreeType, EmptyCommands
    <3> QED BY <3>1, <3>2, ConstantsType DEF Limits
  <2>4. excused' \in [Services -> SUBSET {"failure", "race", "stray", "blocked"}]
    BY <1>0, <2>1
  <2>5. podEvent' \in BOOLEAN /\ debounced' \in BOOLEAN /\ watching' \in BOOLEAN
    BY <2>1
  <2> QED BY <1>0, <1>1, <2>1, <2>2, <2>3, <2>4, <2>5, SpendType, TypeFrom
<1>8. CASE StartWatch \/ WatchFails \/ PodChanges
  <2>1. /\ UNCHANGED <<specs, instance, issued, actor, controllers, cluster, debounced, excused, dropped>>
        /\ UNCHANGED spent \/ Spend
    BY <1>8 DEF StartWatch, WatchFails, PodChanges
  <2>2. watching' \in BOOLEAN
    BY <1>0, <1>8 DEF StartWatch, WatchFails, PodChanges
  <2>3. podEvent' \in BOOLEAN
    <3>1. CASE StartWatch
      BY <3>1, Disjunction, Zenon DEF StartWatch
    <3>2. CASE WatchFails \/ PodChanges
      BY <1>0, <3>2 DEF WatchFails, PodChanges
    <3> QED BY <1>8, <3>1, <3>2
  <2>4. Limits'
    BY <1>0, <2>1 DEF Limits
  <2> QED BY <1>0, <1>1, <2>1, <2>2, <2>3, <2>4, SpendType, TypeFrom
<1>9. ASSUME NEW s \in Services, DeleteOutside(s) PROVE TypeOK'
  <2>1. /\ UNCHANGED <<specs, instance, issued, actor, watching, debounced, dropped>>
        /\ controllers' \in Tasks /\ Limits' /\ Spend
        /\ excused' \in [Services -> SUBSET {"failure", "race", "stray", "blocked"}]
        /\ cluster' = [cluster EXCEPT ![s]["deployment"] = NoObject]
        /\ podEvent' \in BOOLEAN
    BY <1>9, OutsideIs
  <2>2. cluster' \in [Services -> [Kinds -> Object]]
    <3>1. "deployment" \in Kinds
      BY KindsAre
    <3> QED BY <1>0, <2>1, <3>1, NoObjectType
  <2> QED BY <1>0, <1>1, <2>1, <2>2, SpendType, TypeFrom
<1> QED BY <1>2, <1>3, <1>4, <1>5, <1>6, <1>7, <1>8, <1>9, WorkType, TakeType DEF Internal

LEMMA ConfigureType ==
  ASSUME TypeOK, NEW spec \in Specification, NEW o \in ConfigureOutcomes, Configure(spec, o)
  PROVE  TypeOK'
<1>0. /\ controllers \in Tasks /\ Limits /\ specs \in KubernetesSpecs
      /\ cluster \in [Services -> [Kinds -> Object]] /\ watching \in BOOLEAN
      /\ excused \in [Services -> SUBSET {"failure", "race", "stray", "blocked"}] /\ dropped \subseteq Services
      /\ podEvent \in BOOLEAN /\ debounced \in BOOLEAN /\ specs.services \subseteq Services
  BY TypeIs
<1>1. /\ instance' \in 0..MaxInstances /\ issued' \in 0..MaxInstances /\ spent' \in 0..MaxEvents
      /\ actor = "on" /\ UNCHANGED <<actor, cluster, watching, podEvent, debounced, excused>>
  BY ConfigureIs
<1>2. specs' \in KubernetesSpecs /\ controllers' \in Tasks /\ Limits' /\ dropped' \subseteq Services
  <2>1. CASE o \in {"ok", "instance unread"}
    <3>1. PICK sp \in KubernetesSpecs : specs' = sp /\ LoadControllers(sp)
      BY <2>1, ConfigureIs
    <3>2. dropped' = (dropped \cup Abandoned) \ spec.services
      BY <2>1, ConfigureIs
    <3>3. dropped' \subseteq Services
      BY <1>0, <3>2 DEF Abandoned
    <3> QED BY <3>1, <3>3, LoadLimits
  <2>2. CASE o \notin {"ok", "instance unread"}
    <3>1. UNCHANGED <<specs, controllers, dropped>>
      BY <2>2, ConfigureIs
    <3> QED BY <1>0, <3>1 DEF Limits
  <2> QED BY <2>1, <2>2
<1> QED BY <1>0, <1>1, <1>2, TypeFrom

LEMMA DeprovisionType ==
  ASSUME TypeOK, NEW o \in DeprovisionOutcomes, Deprovision(o)
  PROVE  TypeOK'
<1>0. /\ controllers \in Tasks /\ Limits /\ specs \in KubernetesSpecs
      /\ cluster \in [Services -> [Kinds -> Object]] /\ watching \in BOOLEAN
      /\ excused \in [Services -> SUBSET {"failure", "race", "stray", "blocked"}] /\ dropped \subseteq Services
      /\ podEvent \in BOOLEAN /\ debounced \in BOOLEAN /\ issued \in 0..MaxInstances
  BY TypeIs DEF TypeOK
<1>1. /\ instance' \in 0..MaxInstances /\ spent' \in 0..MaxEvents
      /\ actor = "on" /\ UNCHANGED <<issued, actor, cluster, watching, podEvent, debounced, excused, dropped>>
  BY DeprovisionIs
<1>2. specs' \in KubernetesSpecs /\ controllers' \in Tasks /\ Limits'
  <2>1. CASE o \in {"ok", "instance kept"}
    <3>1. specs' \in KubernetesSpecs /\ specs'.services = specs.services /\ Enqueue("deprovision")
      BY <2>1, DeprovisionIs
    <3> QED BY <3>1, EnqueueLimits, CommandType
  <2>2. CASE o \notin {"ok", "instance kept"}
    <3>1. UNCHANGED <<specs, controllers>>
      BY <2>2, DeprovisionIs
    <3> QED BY <1>0, <3>1 DEF Limits
  <2> QED BY <2>1, <2>2
<1> QED BY <1>0, <1>1, <1>2, TypeFrom

(***************************************************************************)
(* The management API.                                                     *)
(***************************************************************************)

ApiInv == ApiTypeOK /\ SpecsInv

\* A request that begins, and the ones it runs beside.
LEMMA BeginIs ==
  ASSUME ApiTypeOK, NEW op \in {"set", "delete"}, NEW at \in {"store", "call", "erase"},
         NEW spec \in Specification, Begin(op, at, spec)
  PROVE  /\ requests' \subseteq Request /\ requests' # {} /\ Spend
         /\ \A n \in requests' :
              \/ /\ n.op = op /\ n.at = at /\ n.spec = spec /\ (n.alone <=> requests = {})
                 /\ n.alone => requests' = {n}
              \/ \E r \in requests : /\ n.op = r.op /\ n.at = r.at /\ n.spec = r.spec /\ ~ n.alone
  <1>0. requests \subseteq Request /\ spent \in 0..MaxEvents
    BY DEF ApiTypeOK, TypeOK
  <1> DEFINE new == [id |-> spent + 1, op |-> op, at |-> at, spec |-> spec, alone |-> requests = {}]
             old(r) == [r EXCEPT !.alone = FALSE]
  <1>1. Spend /\ requests' = {old(r) : r \in requests} \cup {new}
    BY DEF Begin
  <1>2. spent + 1 \in 1..MaxEvents
    BY <1>0, <1>1, ConstantsType DEF Spend
  <1>3. (requests = {}) \in BOOLEAN
    OBVIOUS
  <1>4. new \in Request /\ new.op = op /\ new.at = at /\ new.spec = spec /\ (new.alone <=> requests = {})
    BY <1>2, <1>3 DEF Request
  <1>5. \A r \in requests : /\ old(r) \in Request /\ old(r).op = r.op /\ old(r).at = r.at
                            /\ old(r).spec = r.spec /\ ~ old(r).alone
    BY <1>0 DEF Request
  <1>6. requests = {} => requests' = {new}
    BY <1>1
  <1> HIDE DEF new, old
  <1>7. requests' \subseteq Request /\ requests' # {}
    BY <1>1, <1>4, <1>5
  <1>8. ASSUME NEW n \in requests'
        PROVE \/ /\ n.op = op /\ n.at = at /\ n.spec = spec /\ (n.alone <=> requests = {})
                 /\ n.alone => requests' = {n}
              \/ \E r \in requests : /\ n.op = r.op /\ n.at = r.at /\ n.spec = r.spec /\ ~ n.alone
    <2>1. CASE n = new
      BY <1>4, <1>6, <2>1
    <2>2. CASE n # new
      BY <1>1, <1>5, <2>2
    <2> QED BY <2>1, <2>2
  <1> QED BY <1>1, <1>7, <1>8

LEMMA GoesOnIs ==
  ASSUME requests \subseteq Request, NEW r \in requests, NEW at \in {"store", "call", "erase"}, GoesOn(r, at)
  PROVE  /\ requests' \subseteq Request /\ requests' # {}
         /\ \A n \in requests' :
              \/ n \in requests \ {r}
              \/ /\ n.op = r.op /\ n.at = at /\ n.spec = r.spec /\ (n.alone <=> r.alone)
                 /\ requests = {r} => requests' = {n}
  <1> DEFINE new == [r EXCEPT !.at = at]
  <1>1. requests' = (requests \ {r}) \cup {new}
    BY DEF GoesOn
  <1>2. new \in Request /\ new.op = r.op /\ new.at = at /\ new.spec = r.spec /\ (new.alone <=> r.alone)
    BY DEF Request
  <1> HIDE DEF new
  <1>3. requests' \subseteq Request /\ requests' # {}
    BY <1>1, <1>2
  <1>4. requests = {r} => requests' = {new}
    BY <1>1
  <1>5. \A n \in requests' : n \in requests \ {r} \/ n = new
    BY <1>1
  <1> QED BY <1>2, <1>3, <1>4, <1>5

LEMMA RequestFields ==
  ASSUME NEW r \in Request
  PROVE  /\ r.op \in {"set", "delete"} /\ r.at \in {"store", "call", "erase"} /\ r.spec \in Specification
         /\ r.alone \in BOOLEAN
  BY DEF Request

\* The step of a request, of its client or of the provider's owner that begins or ends one.
LEMMA SetIs ==
  ASSUME ApiInv, BeginSet
  PROVE  \E spec \in Specification :
           /\ spec.services # {} /\ spec.version # 0 /\ Begin("set", "store", spec)
  <1>0. provider \in SUBSET Services /\ provider # {} /\ revision \in 0..MaxEvents /\ revision <= spent
        /\ spent \in 0..MaxEvents
    BY ResourceAssumption DEF ApiInv, ApiTypeOK, SpecsInv, BeginSet, TypeOK
  <1>1. PICK given \in SUBSET Services :
          Begin("set", "store", [version |-> revision + 1, services |-> MergeSpec(given)])
    BY DEF BeginSet
  <1>2. spent < MaxEvents
    BY <1>1 DEF Begin, Spend
  <1>3. revision + 1 \in Versions /\ revision + 1 # 0
    BY <1>0, <1>2, ConstantsType
  <1>4. MergeSpec(given) \in SUBSET Services /\ MergeSpec(given) # {}
    BY <1>0 DEF MergeSpec
  <1> DEFINE spec == [version |-> revision + 1, services |-> MergeSpec(given)]
  <1>5. spec \in Specification /\ spec.services # {} /\ spec.version # 0
    BY <1>3, <1>4 DEF Specification
  <1> QED BY <1>1, <1>5

\* The actor's specifications change only when a request calls it.
LEMMA InternalKeeps ==
  ASSUME Internal
  PROVE  UNCHANGED specs /\ (UNCHANGED spent \/ Spend)
  <1>1. CASE \E s \in Services, k \in Slots, kind \in Kinds :
               ReconcileObject(s, k, kind) \/ RemoveObject(s, k, kind) \/ CallFails(s, k, kind)
    BY <1>1, ReconcileIs, RemoveIs, FailIs
  <1>2. CASE \E s \in Services, k \in Slots : TakeCommand(s, k)
    BY <1>2, Zenon DEF TakeCommand
  <1>3. CASE StartWatch \/ WatchFails \/ PodChanges \/ \E s \in Services : DeleteOutside(s)
    BY <1>3, Zenon DEF StartWatch, WatchFails, PodChanges, DeleteOutside
  <1>4. CASE Activate \/ Activated \/ Deactivate
    BY <1>4, Zenon DEF Activate, Activated, Deactivate
  <1>5. CASE TakeEvent \/ DrainDebounced \/ InvokeFails \/ Crash
    BY <1>5, Zenon DEF TakeEvent, DrainDebounced, InvokeFails, Crash
  <1> QED BY <1>1, <1>2, <1>3, <1>4, <1>5 DEF Internal

LEMMA ProviderUnchanged ==
  ASSUME TypeOK, UNCHANGED providerState, UNCHANGED spent \/ Spend
  PROVE  TypeOK'
  <1>1. spent' \in 0..MaxEvents
    BY SpendType
  <1>2. UNCHANGED <<specs, instance, issued, actor, controllers, cluster, watching, podEvent, debounced,
                    excused, dropped>>
    BY DEF providerState
  <1> QED BY <1>1, <1>2 DEF TypeOK

LEMMA SpendGrows == ASSUME TypeOK, UNCHANGED spent \/ Spend PROVE spent' >= spent /\ spent \in Nat /\ spent' \in Nat
  BY ConstantsType DEF TypeOK, Spend

LEMMA NoSpecType == NoSpec \in Specification
  BY DEF NoSpec, Specification

\* Every step keeps the types and the numbering of the specifications.
LEMMA ApiStep ==
  ASSUME ApiInv, Next
  PROVE  ApiInv'
<1>0. /\ TypeOK /\ provider \in Providers \cup {{}} /\ stored \in Specification /\ revision \in 0..MaxEvents
      /\ requests \subseteq Request /\ trusted \in BOOLEAN /\ revision <= spent
      /\ specs = NoSpecs \/ (specs.services # {} /\ specs.version # 0)
      /\ \A r \in requests : r.op = "set" => r.spec.services # {} /\ r.spec.version # 0
      /\ ApiTypeOK
  BY DEF ApiInv, ApiTypeOK, SpecsInv
<1>1. CASE Internal /\ UNCHANGED apiVars
  <2>1. TypeOK' /\ UNCHANGED specs /\ (UNCHANGED spent \/ Spend)
    BY <1>0, <1>1, InternalType, InternalKeeps
  <2>2. UNCHANGED <<provider, stored, revision, requests, trusted>>
    BY <1>1 DEF apiVars
  <2>3. revision' <= spent'
    BY <1>0, <2>1, <2>2, SpendGrows
  <2>4. ApiTypeOK'
    BY <1>0, <2>1, <2>2 DEF ApiTypeOK
  <2>5. SpecsInv'
    BY <1>0, <2>1, <2>2, <2>3 DEF SpecsInv
  <2> QED BY <2>4, <2>5 DEF ApiInv
<1>2. CASE BeginSet
  <2>1. PICK spec \in Specification : spec.services # {} /\ spec.version # 0 /\ Begin("set", "store", spec)
    BY <1>2, SetIs
  <2>2. /\ requests' \subseteq Request /\ Spend
        /\ \A n \in requests' : \/ n.spec = spec
                                \/ \E r \in requests : n.op = r.op /\ n.spec = r.spec
    BY <1>0, <2>1, BeginIs
  <2>3. UNCHANGED <<providerState, provider, stored, trusted>> /\ revision' = revision + 1
    BY <1>2 DEF BeginSet
  <2>4. TypeOK'
    BY <1>0, <2>2, <2>3, ProviderUnchanged
  <2>5. revision' <= spent' /\ revision' \in 0..MaxEvents
    BY <1>0, <2>2, <2>3, ConstantsType DEF Spend, TypeOK
  <2>6. ApiTypeOK'
    BY <1>0, <2>2, <2>3, <2>4, <2>5 DEF ApiTypeOK
  <2>7. UNCHANGED specs
    BY <2>3 DEF providerState
  <2>8. SpecsInv'
    BY <1>0, <2>1, <2>2, <2>5, <2>7 DEF SpecsInv
  <2> QED BY <2>6, <2>8 DEF ApiInv
<1>3. CASE BeginDelete
  <2>1. /\ Begin("delete", "call", stored) /\ UNCHANGED <<providerState, provider, stored, revision, trusted>>
    BY <1>3 DEF BeginDelete
  <2>2. /\ requests' \subseteq Request /\ Spend
        /\ \A n \in requests' : \/ n.op = "delete"
                                \/ \E r \in requests : n.op = r.op /\ n.spec = r.spec
    BY <1>0, <2>1, BeginIs
  <2>3. TypeOK' /\ spent' >= spent /\ spent \in Nat /\ spent' \in Nat
    BY <1>0, <2>1, <2>2, ProviderUnchanged, SpendGrows
  <2>4. revision' <= spent' /\ UNCHANGED specs
    BY <1>0, <2>1, <2>3 DEF providerState
  <2>5. ApiTypeOK'
    BY <1>0, <2>1, <2>2, <2>3 DEF ApiTypeOK
  <2>6. SpecsInv'
    BY <1>0, <2>2, <2>4 DEF SpecsInv
  <2> QED BY <2>5, <2>6 DEF ApiInv
<1>4. CASE SetProvider
  <2>1. /\ Spend /\ provider' \in Providers \cup {{}}
        /\ UNCHANGED <<providerState, stored, revision, requests, trusted>>
    BY <1>4 DEF SetProvider
  <2>2. TypeOK' /\ spent' >= spent /\ spent \in Nat /\ spent' \in Nat
    BY <1>0, <2>1, ProviderUnchanged, SpendGrows
  <2>3. revision' <= spent' /\ UNCHANGED specs
    BY <1>0, <2>1, <2>2 DEF providerState
  <2>4. ApiTypeOK'
    BY <1>0, <2>1, <2>2 DEF ApiTypeOK
  <2>5. SpecsInv'
    BY <1>0, <2>1, <2>3 DEF SpecsInv
  <2> QED BY <2>4, <2>5 DEF ApiInv
<1>5. ASSUME NEW r \in requests, StoreSpec(r) PROVE ApiInv'
  <2>1. GoesOn(r, "call") /\ stored' = r.spec /\ UNCHANGED <<providerState, spent, provider, revision, trusted>>
    BY <1>5 DEF StoreSpec, providerVars
  <2>2. /\ requests' \subseteq Request
        /\ \A n \in requests' : n \in requests \/ (n.op = r.op /\ n.spec = r.spec)
    BY <1>0, <2>1, GoesOnIs
  <2>3. TypeOK' /\ UNCHANGED specs /\ r.spec \in Specification
    BY <1>0, <2>1, ProviderUnchanged, RequestFields DEF providerState
  <2>4. ApiTypeOK'
    BY <1>0, <2>1, <2>2, <2>3 DEF ApiTypeOK
  <2>5. SpecsInv'
    BY <1>0, <2>1, <2>2, <2>3 DEF SpecsInv
  <2> QED BY <2>4, <2>5 DEF ApiInv
<1>6. ASSUME NEW r \in requests, EraseSpec(r) \/ RequestFails(r) PROVE ApiInv'
  <2>1. /\ requests' = requests \ {r} /\ trusted' \in BOOLEAN /\ UNCHANGED <<providerState, provider, revision>>
        /\ stored' \in {stored, NoSpec} /\ (UNCHANGED spent \/ Spend)
    <3>1. CASE EraseSpec(r)
      <4>1. End(r, TRUE) /\ stored' = NoSpec /\ UNCHANGED <<providerState, spent, provider, revision>>
        BY <3>1 DEF EraseSpec, providerVars
      <4> QED BY <4>1, Zenon DEF End
    <3>2. CASE RequestFails(r)
      <4>1. End(r, FALSE) /\ UNCHANGED <<providerState, stored, provider, revision>> /\ Spend
        BY <3>2 DEF RequestFails
      <4> QED BY <4>1, Zenon DEF End
    <3> QED BY <1>6, <3>1, <3>2
  <2>2. TypeOK' /\ spent' >= spent /\ spent \in Nat /\ spent' \in Nat
    BY <1>0, <2>1, ProviderUnchanged, SpendGrows
  <2>3. revision' <= spent' /\ UNCHANGED specs /\ stored' \in Specification
    BY <1>0, <2>1, <2>2, NoSpecType DEF providerState
  <2>4. requests' \subseteq requests
    BY <2>1
  <2>5. ApiTypeOK'
    BY <1>0, <2>1, <2>2, <2>3, <2>4 DEF ApiTypeOK
  <2>6. SpecsInv'
    BY <1>0, <2>3, <2>4 DEF SpecsInv
  <2> QED BY <2>5, <2>6 DEF ApiInv
<1>7. ASSUME NEW r \in requests, NEW o \in ConfigureOutcomes, CallConfigure(r, o) PROVE ApiInv'
  <2>1. r.op = "set" /\ Configure(r.spec, o) /\ UNCHANGED <<provider, stored, revision>>
    BY <1>7 DEF CallConfigure
  <2>2. requests' = requests \ {r} /\ trusted' \in BOOLEAN
    BY <1>7, Zenon DEF CallConfigure, End
  <2>3. PICK spec \in Specification : spec = r.spec
    BY <1>0, RequestFields
  <2>4. TypeOK' /\ (UNCHANGED spent \/ Spend)
    BY <1>0, <2>1, <2>3, ConfigureType, ConfigureIs
  <2>5. specs' = NoSpecs \/ (specs'.services # {} /\ specs'.version # 0)
    <3>1. CASE o \in {"ok", "instance unread"}
      <4>1. \E sp \in KubernetesSpecs : sp.services = spec.services /\ sp.version = spec.version /\ specs' = sp
        BY <1>0, <2>1, <2>3, <3>1, ConfigureIs
      <4> QED BY <1>0, <2>1, <2>3, <4>1
    <3>2. CASE o \notin {"ok", "instance unread"}
      <4>1. UNCHANGED specs
        BY <1>0, <2>1, <2>3, <3>2, ConfigureIs
      <4> QED BY <1>0, <4>1
    <3> QED BY <3>1, <3>2
  <2>6. spent' >= spent /\ spent \in Nat /\ spent' \in Nat
    BY <1>0, <2>4, SpendGrows
  <2>7. revision' <= spent' /\ requests' \subseteq requests
    BY <1>0, <2>1, <2>2, <2>6
  <2>8. ApiTypeOK'
    BY <1>0, <2>1, <2>2, <2>4, <2>7 DEF ApiTypeOK
  <2>9. SpecsInv'
    BY <1>0, <2>5, <2>7 DEF SpecsInv
  <2> QED BY <2>8, <2>9 DEF ApiInv
<1>8. ASSUME NEW r \in requests, NEW o \in DeprovisionOutcomes, CallDeprovision(r, o) PROVE ApiInv'
  <2>1. Deprovision(o) /\ UNCHANGED <<provider, stored, revision>>
        /\ ((GoesOn(r, "erase") /\ UNCHANGED trusted) \/ End(r, FALSE))
    BY <1>8 DEF CallDeprovision
  <2>2. TypeOK' /\ (UNCHANGED spent \/ Spend)
    BY <1>0, <2>1, DeprovisionType, DeprovisionIs
  <2>3. specs' = NoSpecs \/ (specs'.services # {} /\ specs'.version # 0)
    <3>1. CASE o \in {"ok", "instance kept"}
      BY <1>0, <2>1, <3>1, DeprovisionIs
    <3>2. CASE o \notin {"ok", "instance kept"}
      <4>1. UNCHANGED specs
        BY <1>0, <2>1, <3>2, DeprovisionIs
      <4> QED BY <1>0, <4>1
    <3> QED BY <3>1, <3>2
  <2>4. /\ requests' \subseteq Request /\ trusted' \in BOOLEAN
        /\ \A n \in requests' : n \in requests \/ (n.op = r.op /\ n.spec = r.spec)
    <3>1. CASE GoesOn(r, "erase") /\ UNCHANGED trusted
      BY <1>0, <3>1, GoesOnIs
    <3>2. CASE End(r, FALSE)
      <4>1. requests' = requests \ {r} /\ trusted' \in BOOLEAN
        BY <3>2, Zenon DEF End
      <4> QED BY <1>0, <4>1
    <3> QED BY <2>1, <3>1, <3>2
  <2>5. spent' >= spent /\ spent \in Nat /\ spent' \in Nat
    BY <1>0, <2>2, SpendGrows
  <2>6. revision' <= spent'
    BY <1>0, <2>1, <2>5
  <2>7. ApiTypeOK'
    BY <1>0, <2>1, <2>2, <2>4 DEF ApiTypeOK
  <2>8. SpecsInv'
    BY <1>0, <2>3, <2>4, <2>6 DEF SpecsInv
  <2> QED BY <2>7, <2>8 DEF ApiInv
<1> QED BY <1>1, <1>2, <1>3, <1>4, <1>5, <1>6, <1>7, <1>8, InternalIs DEF RequestStep

LEMMA ApiStutter ==
  ASSUME ApiInv, UNCHANGED vars
  PROVE  ApiInv'
  <1>1. UNCHANGED <<specs, instance, issued, actor, controllers, cluster, watching, podEvent, debounced,
                    excused, dropped, spent, provider, stored, revision, requests, trusted>>
    BY DEF vars, providerVars, providerState, apiVars
  <1>2. TypeOK'
    BY <1>1 DEF ApiInv, ApiTypeOK, TypeOK
  <1> QED BY <1>1, <1>2 DEF ApiInv, ApiTypeOK, SpecsInv

LEMMA ApiStart == Init => ApiInv
  <1> SUFFICES ASSUME Init PROVE ApiInv
    OBVIOUS
  <1>1. /\ specs = NoSpecs /\ instance = 0 /\ issued = 0 /\ actor = "off" /\ podEvent = FALSE /\ debounced = FALSE
        /\ spent = 0 /\ dropped = {} /\ excused = [s \in Services |-> {}]
        /\ controllers = [s \in Services |-> [k \in Slots |-> Free]]
        /\ cluster = [s \in Services |-> [k \in Kinds |-> NoObject]] /\ watching = FALSE
    BY DEF Init, ProviderInit
  <1>2. provider = FirstProvider /\ stored = NoSpec /\ revision = 0 /\ requests = {} /\ trusted = TRUE
    BY DEF Init
  <1>3. specs \in KubernetesSpecs
    BY <1>1, ConstantsType DEF NoSpecs, KubernetesSpecs
  <1>4. controllers \in [Services -> [Slots -> Controller]]
    BY <1>1, FreeType
  <1>5. \A s \in Services, k \in Slots :
          Len(controllers[s][k].cmds) <= MaxQueue /\ (controllers[s][k].held => s \in specs.services)
    <2>1. \A s \in Services, k \in Slots : controllers[s][k] = Free
      BY <1>1
    <2>2. Len(Free.cmds) = 0 /\ ~ Free.held
      BY FreeType, EmptyCommands
    <2> QED BY <2>1, <2>2, ConstantsType
  <1>6. cluster \in [Services -> [Kinds -> Object]] /\ watching \in BOOLEAN
        /\ excused \in [Services -> SUBSET {"failure", "race", "stray", "blocked"}]
    BY <1>1, NoObjectType
  <1>7. TypeOK
    <2>1. 0 \in 0..MaxInstances /\ 0 \in 0..MaxEvents
      BY ConstantsType
    <2>2. /\ instance = 0 /\ issued = 0 /\ spent = 0 /\ actor = "off" /\ dropped = {}
          /\ podEvent \in BOOLEAN /\ debounced \in BOOLEAN /\ watching \in BOOLEAN
      BY <1>1
    <2> QED BY <1>3, <1>4, <1>5, <1>6, <2>1, <2>2 DEF TypeOK
  <1>8. ApiTypeOK
    BY <1>2, <1>7, NoSpecType, ResourceAssumption, ConstantsType DEF ApiTypeOK
  <1>9. SpecsInv
    BY <1>1, <1>2 DEF SpecsInv
  <1> QED BY <1>8, <1>9 DEF ApiInv

\* The variables of the management API and of the provider keep their types whatever requests,
\* failures, crashes and interference come: in particular no channel outgrows its bound, and the
\* actor holds controllers only of services of the specification it persisted.
THEOREM ApiTypeCorrect == Spec => []ApiTypeOK
  <1>1. Init => ApiInv
    BY ApiStart
  <1>2. ApiInv /\ [Next]_vars => ApiInv'
    BY ApiStep, ApiStutter
  <1>3. ApiInv => ApiTypeOK
    BY DEF ApiInv
  <1> QED BY <1>1, <1>2, <1>3, PTL DEF Spec

AgreeInv == ApiInv /\ RequestInv /\ Agreement

\* Who runs alone is not there when another request takes a step.
LEMMA NobodyElse ==
  ASSUME RequestInv, NEW r \in requests, NEW n \in requests \ {r}
  PROVE  ~ n.alone
  BY DEF RequestInv

\* A request that ends leaves the others as they are.
LEMMA RequestEnds ==
  ASSUME RequestInv, NEW r \in requests, requests' = requests \ {r}
  PROVE  RequestInv'
  <1>1. \A n \in requests' :
          /\ n \in requests \ {r} /\ (n.op = "set" => n.at \in {"store", "call"})
          /\ (n.op = "delete" => n.at \in {"call", "erase"})
    BY DEF RequestInv
  <1>2. \A n \in requests' : ~ n.alone
    BY <1>1, NobodyElse
  <1> QED BY <1>1, <1>2 DEF RequestInv

LEMMA AgreeStep ==
  ASSUME AgreeInv, Next
  PROVE  RequestInv' /\ Agreement'
<1>0. /\ RequestInv /\ Agreement /\ ApiInv /\ ApiTypeOK /\ TypeOK /\ SpecsInv /\ requests \subseteq Request
      /\ specs = NoSpecs \/ (specs.services # {} /\ specs.version # 0)
      /\ stored \in Specification
  BY DEF AgreeInv, ApiInv, ApiTypeOK, SpecsInv
<1>1. CASE Internal /\ UNCHANGED apiVars
  <2>1. UNCHANGED <<specs, stored, requests, trusted>>
    BY <1>1, InternalKeeps DEF apiVars
  <2> QED BY <1>0, <2>1 DEF RequestInv, Agreement
<1>2. CASE SetProvider
  <2>1. UNCHANGED <<specs, stored, requests, trusted>>
    BY <1>2 DEF SetProvider, providerState
  <2> QED BY <1>0, <2>1 DEF RequestInv, Agreement
<1>3. CASE BeginSet \/ BeginDelete
  <2>1. PICK op \in {"set", "delete"}, at \in {"store", "call", "erase"}, spec \in Specification :
          /\ Begin(op, at, spec) /\ (op = "set" => at = "store") /\ (op = "delete" => at = "call")
    <3>1. CASE BeginSet
      BY <3>1, <1>0, SetIs
    <3>2. CASE BeginDelete
      BY <3>2, <1>0 DEF BeginDelete
    <3> QED BY <1>3, <3>1, <3>2
  <2>2. /\ requests' # {}
        /\ \A n \in requests' :
             \/ n.op = op /\ n.at = at /\ n.spec = spec /\ (n.alone => requests' = {n})
             \/ \E r \in requests : n.op = r.op /\ n.at = r.at /\ ~ n.alone
    BY <1>0, <2>1, BeginIs
  <2>3. Agreement'
    BY <2>2 DEF Agreement
  <2>4. RequestInv'
    BY <1>0, <2>1, <2>2 DEF RequestInv
  <2> QED BY <2>3, <2>4
<1>4. ASSUME NEW r \in requests, StoreSpec(r) PROVE RequestInv' /\ Agreement'
  <2>1. GoesOn(r, "call") /\ stored' = r.spec /\ r.at = "store" /\ UNCHANGED specs
    BY <1>4 DEF StoreSpec, providerVars, providerState
  <2>2. /\ requests' # {}
        /\ \A n \in requests' :
             \/ n \in requests \ {r}
             \/ n.op = r.op /\ n.at = "call" /\ n.spec = r.spec /\ (n.alone <=> r.alone) /\ (requests = {r} => requests' = {n})
    BY <1>0, <2>1, GoesOnIs
  <2>3. r.op = "set" /\ (r.alone => requests = {r})
    BY <1>0, <2>1, RequestFields DEF RequestInv
  <2>4. Agreement'
    BY <2>2 DEF Agreement
  <2>5. ASSUME NEW n \in requests'
        PROVE  /\ n.op = "set" => n.at \in {"store", "call"}
               /\ n.op = "delete" => n.at \in {"call", "erase"}
               /\ n.alone => /\ requests' = {n} /\ (n.op = "set" /\ n.at = "call" => stored' = n.spec)
                             /\ (n.at = "erase" => specs' = NoSpecs \/ specs'.removed)
    <3>1. CASE n \in requests \ {r}
      BY <1>0, <3>1, NobodyElse DEF RequestInv
    <3>2. CASE n \notin requests \ {r}
      BY <2>1, <2>2, <2>3, <3>2
    <3> QED BY <3>1, <3>2
  <2> QED BY <2>4, <2>5 DEF RequestInv
<1>5. ASSUME NEW r \in requests, EraseSpec(r) PROVE RequestInv' /\ Agreement'
  <2>1. requests' = requests \ {r} /\ (trusted' <=> r.alone) /\ stored' = NoSpec /\ r.at = "erase" /\ UNCHANGED specs
    BY <1>5, Zenon DEF EraseSpec, End, providerVars, providerState
  <2>2. RequestInv'
    BY <1>0, <2>1, RequestEnds
  <2>3. trusted' => specs = NoSpecs \/ specs.removed
    BY <1>0, <2>1 DEF RequestInv
  <2>4. Agreement'
    BY <2>1, <2>3 DEF Agreement
  <2> QED BY <2>2, <2>4
<1>6. ASSUME NEW r \in requests, RequestFails(r) PROVE RequestInv' /\ Agreement'
  <2>1. requests' = requests \ {r} /\ ~ trusted'
    BY <1>6, Zenon DEF RequestFails, End
  <2> QED BY <1>0, <2>1, RequestEnds DEF Agreement
<1>7. ASSUME NEW r \in requests, NEW o \in ConfigureOutcomes, CallConfigure(r, o) PROVE RequestInv' /\ Agreement'
  <2>1. r.op = "set" /\ r.at = "call" /\ Configure(r.spec, o) /\ UNCHANGED stored
    BY <1>7 DEF CallConfigure
  <2>2. requests' = requests \ {r} /\ (trusted' <=> o \in {"ok", "instance unread"} /\ r.alone)
    BY <1>7, Zenon DEF CallConfigure, End
  <2>3. RequestInv'
    BY <1>0, <2>2, RequestEnds
  <2>4. PICK spec \in Specification : spec = r.spec
    BY <1>0, RequestFields
  <2>5. ASSUME trusted'
        PROVE  /\ ~ specs'.removed /\ specs'.version = stored'.version /\ specs'.services = stored'.services
               /\ stored' # NoSpec
    <3>1. stored' = spec /\ spec.version # 0
      BY <1>0, <2>1, <2>2, <2>4, <2>5 DEF RequestInv, SpecsInv
    <3>2. \E sp \in KubernetesSpecs : sp.services = spec.services /\ sp.version = spec.version /\ ~ sp.removed /\ specs' = sp
      BY <1>0, <2>1, <2>2, <2>4, <2>5, ConfigureIs
    <3>3. stored' # NoSpec
      BY <3>1 DEF NoSpec
    <3> QED BY <3>1, <3>2, <3>3
  <2> QED BY <2>3, <2>5 DEF Agreement
<1>8. ASSUME NEW r \in requests, NEW o \in DeprovisionOutcomes, CallDeprovision(r, o) PROVE RequestInv' /\ Agreement'
  <2>1. r.op = "delete" /\ Deprovision(o) /\ UNCHANGED stored
    BY <1>8 DEF CallDeprovision
  <2>2. CASE o \in {"ok", "instance kept"}
    <3>1. GoesOn(r, "erase")
      BY <1>8, <2>2 DEF CallDeprovision
    <3>2. /\ requests' # {}
          /\ \A n \in requests' :
               \/ n \in requests \ {r}
               \/ n.op = r.op /\ n.at = "erase" /\ (n.alone <=> r.alone) /\ (requests = {r} => requests' = {n})
      BY <1>0, <3>1, GoesOnIs
    <3>3. specs' = NoSpecs \/ specs'.removed
      BY <1>0, <2>1, <2>2, DeprovisionIs
    <3>4. ASSUME NEW n \in requests'
          PROVE  /\ n.op = "set" => n.at \in {"store", "call"}
                 /\ n.op = "delete" => n.at \in {"call", "erase"}
                 /\ n.alone => /\ requests' = {n} /\ (n.op = "set" /\ n.at = "call" => stored' = n.spec)
                               /\ (n.at = "erase" => specs' = NoSpecs \/ specs'.removed)
      <4>1. CASE n \in requests \ {r}
        BY <1>0, <4>1, NobodyElse DEF RequestInv
      <4>2. CASE n \notin requests \ {r}
        <5>1. r.alone => requests = {r}
          BY <1>0 DEF RequestInv
        <5> QED BY <2>1, <3>2, <3>3, <4>2, <5>1
      <4> QED BY <4>1, <4>2
    <3>5. Agreement'
      BY <3>2 DEF Agreement
    <3> QED BY <3>4, <3>5 DEF RequestInv
  <2>3. CASE o \notin {"ok", "instance kept"}
    <3>1. requests' = requests \ {r} /\ ~ trusted'
      BY <1>8, <2>3, Zenon DEF CallDeprovision, End
    <3> QED BY <1>0, <3>1, RequestEnds DEF Agreement
  <2> QED BY <2>2, <2>3
<1> QED BY <1>1, <1>2, <1>3, <1>4, <1>5, <1>6, <1>7, <1>8, InternalIs DEF RequestStep

\* A set or delete that ran alone and succeeded leaves the repository of the management API and
\* the state of the actor in agreement, however many requests failed halfway or overlapped before,
\* and the reconciliations, restarts and failures of the provider do not undo that.
THEOREM RepositoryAgrees == Spec => []Agreement
  <1>1. Init => AgreeInv
    <2>1. Init => ApiInv
      BY ApiStart
    <2>2. ASSUME Init PROVE RequestInv /\ Agreement
      <3>1. requests = {} /\ stored = NoSpec /\ specs = NoSpecs
        BY <2>2 DEF Init, ProviderInit
      <3> QED BY <3>1 DEF RequestInv, Agreement
    <2> QED BY <2>1, <2>2 DEF AgreeInv
  <1>2. AgreeInv /\ [Next]_vars => AgreeInv'
    <2> SUFFICES ASSUME AgreeInv, [Next]_vars PROVE AgreeInv'
      OBVIOUS
    <2>1. CASE Next
      <3>1. ApiInv'
        BY <2>1, ApiStep DEF AgreeInv
      <3> QED BY <2>1, <3>1, AgreeStep DEF AgreeInv
    <2>2. CASE UNCHANGED vars
      <3>1. ApiInv'
        BY <2>2, ApiStutter DEF AgreeInv
      <3>2. UNCHANGED <<specs, stored, requests, trusted>>
        BY <2>2 DEF vars, providerVars, providerState, apiVars
      <3> QED BY <3>1, <3>2 DEF AgreeInv, RequestInv, Agreement
    <2> QED BY <2>1, <2>2
  <1>3. AgreeInv => Agreement
    BY DEF AgreeInv
  <1> QED BY <1>1, <1>2, <1>3, PTL DEF Spec

(***************************************************************************)
(* Reconciliation, seen from one service.                                  *)
(***************************************************************************)

\* The state that the tasks of a service depend on.
View(s) ==
    [specs |-> specs, dropped |-> dropped, actor |-> actor, tasks |-> controllers[s],
     objects |-> cluster[s], watching |-> watching, event |-> podEvent,
     debounced |-> debounced, excused |-> excused[s]]

Reasons == {"failure", "race", "stray", "blocked"}
Views ==
    [specs : KubernetesSpecs, dropped : SUBSET Services, actor : {"off", "activating", "on"},
     tasks : [Slots -> Controller], objects : [Kinds -> Object], watching : BOOLEAN,
     event : BOOLEAN, debounced : BOOLEAN, excused : SUBSET Reasons]

IsView(s, v) ==
    /\ v \in Views
    /\ \A k \in Slots : v.tasks[k].held => s \in v.specs.services
    /\ s \in v.specs.services => v.specs.version # 0

\* No object is to be left of the service.
Gone(s, v) == s \notin v.specs.services \/ v.specs.removed

\* The task leaves what the specification of the actor says.
Current(s, v, c) ==
    IF Gone(s, v) THEN c.removed \/ IsTold(c)
    ELSE /\ ~ c.removed /\ ~ IsTold(c)
         /\ c.version = v.specs.version /\ c.instance = v.specs.instance

Attended(s, v, kind) ==
    \E k \in Slots : Current(s, v, v.tasks[k]) /\ Pending(v.tasks[k], kind)

\* A reconciliation of the whole resource is to come: of an event, of the debounce set, or of the
\* pods that the next watch lists.
Noticed(v) ==
    v.event \/ v.debounced \/ (~ v.watching /\ v.objects["deployment"] # NoObject)

Excuse(v, kind) ==
    /\ ~ (v.excused \subseteq {"blocked"})
    /\ kind = "deployment" => ~ (v.excused \subseteq {"race", "blocked"})

\* An object is as the specification says; of the later Services OrderInv tells more.
IsSettled(s, v, kind, object) ==
    IF Gone(s, v) THEN s \in v.dropped \/ kind \notin Removable \/ object = NoObject
    ELSE IF kind = "laterService" THEN TRUE
    ELSE IF kind \in {"claim", "service"} THEN object # NoObject
    ELSE object = Built(kind, s, v.specs)

KindSettled(s, v, kind) == IsSettled(s, v, kind, v.objects[kind])

\* The actor that runs has a controller for each of its services, with its specification; a
\* task that is held or works has a specification.
HeldInv(s, v) ==
    /\ \A k \in Slots : v.tasks[k].held => Current(s, v, v.tasks[k])
    /\ v.actor # "off" /\ s \in v.specs.services => \E k \in Slots : v.tasks[k].held
    /\ s \in v.specs.services => s \notin v.dropped
    /\ \A k \in Slots : v.tasks[k].held \/ Working(v.tasks[k]) => v.tasks[k].version # 0

\* Every object is settled, or somebody will still see to it.
KindInv(s, v) ==
    \A kind \in Objects[s] :
      \/ Excuse(v, kind) \/ KindSettled(s, v, kind) \/ Attended(s, v, kind)
      \/ kind = "deployment" /\ Noticed(v) /\ s \in v.specs.services

\* A clean controller has settled what it handled, and nobody interferes.
CleanInv(s, v) ==
    \A k \in Slots :
      v.tasks[k].held /\ v.tasks[k].busy /\ v.tasks[k].clean =>
        /\ \A j \in Slots \ {k} : v.tasks[j] = Free
        /\ \A kind \in Objects[s] :
             \/ Pending(v.tasks[k], kind) \/ KindSettled(s, v, kind)
             \/ kind = "deployment" /\ Noticed(v)

\* The task has made the first Service, or found it, and goes on to the others.
Creating(c) ==
    c.busy /\ ~ c.removed /\ "laterService" \in c.todo /\ "service" \notin c.todo

\* The Services of a service: nothing but a disturbance leaves the first one without the others,
\* once the task that makes them is done.  For that the actor has one controller of the service,
\* a controller that deprovisions removes the first Service before the others, and one that
\* reconciles has the others on its list as long as it has the first.
OrderInv(s, v) ==
    /\ \A j \in Slots, k \in Slots : v.tasks[j].held /\ v.tasks[k].held => j = k
    /\ v.excused = {} /\ Blocked(s, v.objects) => \E k \in Slots : Creating(v.tasks[k])
    /\ \A k \in Slots :
         v.tasks[k].held /\ v.tasks[k].busy /\ v.tasks[k].removed /\ "service" \notin v.tasks[k].todo
         /\ "service" \in Objects[s] => v.objects["service"] = NoObject \/ v.excused # {}
    /\ \A k \in Slots :
         v.tasks[k].busy /\ ~ v.tasks[k].removed /\ "service" \in v.tasks[k].todo
         /\ "laterService" \in Objects[s] => "laterService" \in v.tasks[k].todo

ServiceInv(s, v) == HeldInv(s, v) /\ KindInv(s, v) /\ CleanInv(s, v) /\ OrderInv(s, v)

SettledInv == \A s \in Services : ServiceInv(s, View(s))

LEMMA ViewFields ==
  ASSUME NEW v \in Views
  PROVE  /\ v.specs \in KubernetesSpecs /\ v.dropped \subseteq Services /\ v.tasks \in [Slots -> Controller]
         /\ v.objects \in [Kinds -> Object] /\ v.watching \in BOOLEAN /\ v.event \in BOOLEAN
         /\ v.debounced \in BOOLEAN /\ v.excused \subseteq Reasons
         /\ \A k \in Slots : v.tasks[k] \in Controller
  BY DEF Views

LEMMA BlockedIs ==
  ASSUME NEW s, NEW objects
  PROVE  Blocked(s, objects) <=>
           "laterService" \in Objects[s] /\ objects["service"] # NoObject /\ objects["laterService"] = NoObject
  BY DEF Blocked

\* The tasks go on with what they were doing, and the Services are as before.
LEMMA OrderKeeps ==
  ASSUME NEW s \in Services, NEW v, NEW w, OrderInv(s, v),
         \A k \in Slots :
           /\ w.tasks[k].busy <=> v.tasks[k].busy
           /\ v.tasks[k].busy => /\ w.tasks[k].removed <=> v.tasks[k].removed
                                 /\ w.tasks[k].todo = v.tasks[k].todo
                                 /\ w.tasks[k].held => v.tasks[k].held,
         \A j \in Slots, k \in Slots : w.tasks[j].held /\ w.tasks[k].held => j = k,
         w.objects["service"] = v.objects["service"], w.objects["laterService"] = v.objects["laterService"],
         v.excused \subseteq w.excused
  PROVE  OrderInv(s, w)
<1>1. ASSUME w.excused = {}, Blocked(s, w.objects) PROVE \E k \in Slots : Creating(w.tasks[k])
  <2>1. v.excused = {} /\ Blocked(s, v.objects)
    BY <1>1, BlockedIs
  <2>2. PICK k \in Slots : Creating(v.tasks[k])
    BY <2>1 DEF OrderInv
  <2>3. Creating(w.tasks[k])
    BY <2>2 DEF Creating
  <2> QED BY <2>3
<1>2. ASSUME NEW k \in Slots, w.tasks[k].held, w.tasks[k].busy, w.tasks[k].removed,
             "service" \notin w.tasks[k].todo, "service" \in Objects[s]
      PROVE  w.objects["service"] = NoObject \/ w.excused # {}
  BY <1>2 DEF OrderInv
<1>3. ASSUME NEW k \in Slots, w.tasks[k].busy, ~ w.tasks[k].removed, "service" \in w.tasks[k].todo,
             "laterService" \in Objects[s]
      PROVE  "laterService" \in w.tasks[k].todo
  BY <1>3 DEF OrderInv
<1> QED BY <1>1, <1>2, <1>3 DEF OrderInv

LEMMA OrderReleased ==
  ASSUME NEW s \in Services, NEW v, NEW w, IsView(s, v), OrderInv(s, v),
         \A k \in Slots : \/ w.tasks[k] = Release(v.tasks[k])
                          \/ Release(v.tasks[k]) = Free /\ ~ w.tasks[k].busy,
         \A j \in Slots, k \in Slots : w.tasks[j].held /\ w.tasks[k].held => j = k,
         w.objects = v.objects, w.excused = v.excused
  PROVE  OrderInv(s, w)
<1>1. ASSUME NEW k \in Slots
      PROVE  /\ w.tasks[k].busy <=> v.tasks[k].busy
             /\ v.tasks[k].busy => /\ w.tasks[k].removed <=> v.tasks[k].removed
                                   /\ w.tasks[k].todo = v.tasks[k].todo
                                   /\ w.tasks[k].held => v.tasks[k].held
  <2>1. v.tasks[k] \in Controller
    BY ViewFields DEF IsView
  <2>2. CASE v.tasks[k].busy
    <3>1. Working(v.tasks[k])
      BY <2>2 DEF Working
    <3>2. /\ (Release(v.tasks[k]).removed <=> v.tasks[k].removed) /\ ~ Release(v.tasks[k]).held
          /\ Release(v.tasks[k]).busy /\ Release(v.tasks[k]).todo = v.tasks[k].todo
      BY <2>1, <2>2, <3>1, ReleaseType
    <3>3. w.tasks[k] = Release(v.tasks[k])
      BY <3>2, FreeType
    <3> QED BY <2>2, <3>2, <3>3
  <2>3. CASE ~ v.tasks[k].busy
    <3>1. ~ Release(v.tasks[k]).busy
      BY <2>1, <2>3, ReleaseType, FreeType
    <3> QED BY <2>3, <3>1
  <2> QED BY <2>2, <2>3
<1> QED BY <1>1, OrderKeeps

\* A step of a command, on one kind of object.
LEMMA OrderStep ==
  ASSUME NEW s \in Services, NEW v, NEW w, IsView(s, v), ServiceInv(s, v), NEW k \in Slots,
         NEW kind \in Kinds, v.tasks[k].busy, IsNext(kind, v.tasks[k]),
         NEW n \in Controller, SameTask(v.tasks[k], n), n.busy <=> v.tasks[k].busy,
         n.todo \subseteq v.tasks[k].todo,
         ~ v.tasks[k].removed => n.todo = v.tasks[k].todo \ Passed(kind, v.objects[kind] = NoObject),
         v.tasks[k].removed => n.todo = v.tasks[k].todo \ {kind},
         w.tasks[k] = Ended(n), \A j \in Slots \ {k} : w.tasks[j] = v.tasks[j],
         \A other \in Kinds \ {kind} : w.objects[other] = v.objects[other],
         ~ v.tasks[k].removed /\ kind = "laterService" => w.objects[kind] # NoObject,
         ~ v.tasks[k].removed /\ kind = "service" /\ v.objects[kind] # NoObject => w.objects[kind] = v.objects[kind],
         v.tasks[k].removed => w.objects[kind] = NoObject,
         w.excused = {} /\ Blocked(s, w.objects) => v.excused = {},
         v.excused \subseteq w.excused \/ (v.tasks[k].held /\ v.tasks[k].clean /\ n.todo = {}),
         kind \in ServiceKinds /\ w.objects[kind] # v.objects[kind] /\ ~ v.tasks[k].held => w.excused # {}
  PROVE  OrderInv(s, w)
<1> DEFINE c == v.tasks[k]
           e == w.tasks[k]
<1>0. /\ c \in Controller /\ "service" \in Kinds /\ "laterService" \in Kinds
      /\ "laterService" \in Objects[s] => "service" \in Objects[s]
  BY ViewFields, LaterIs, KindsAre DEF IsView
<1>1. /\ (e.held <=> c.held) /\ (n.todo # {} => e = n) /\ (n.todo = {} => ~ e.busy)
      /\ (n.removed <=> c.removed) /\ n.busy
  BY <1>0, ProgressIs DEF SameTask
<1>2. kind \in c.todo /\ (kind = "laterService" => "service" \notin c.todo)
  BY NextIs
<1>3. /\ kind \notin {"service", "laterService"} => n.todo = c.todo \ {kind}
      /\ ~ c.removed /\ v.objects[kind] = NoObject => n.todo = c.todo \ {kind}
      /\ kind \notin n.todo
  <2>1. CASE c.removed
    BY <2>1
  <2>2. CASE ~ c.removed
    <3>1. PICK ok : ok <=> v.objects[kind] = NoObject
      OBVIOUS
    <3>2. n.todo = c.todo \ Passed(kind, ok)
      BY <2>2, <3>1 DEF Passed
    <3> QED BY <2>2, <3>1, <3>2, PassedIs
  <2> QED BY <2>1, <2>2
<1>4. \A j \in Slots : w.tasks[j].held <=> v.tasks[j].held
  BY <1>1
<1>5. \A i \in Slots, j \in Slots : v.tasks[i].held /\ v.tasks[j].held => i = j
  BY DEF ServiceInv, OrderInv
<1>6. \A i \in Slots, j \in Slots : w.tasks[i].held /\ w.tasks[j].held => i = j
  BY <1>4, <1>5
<1>7. ASSUME "laterService" \in Objects[s], ~ c.removed, "service" \in c.todo PROVE "laterService" \in c.todo
  BY <1>7 DEF ServiceInv, OrderInv
<1>8. ASSUME NEW j \in Slots, w.tasks[j].busy, ~ w.tasks[j].removed, "service" \in w.tasks[j].todo,
             "laterService" \in Objects[s]
      PROVE  "laterService" \in w.tasks[j].todo
  <2>1. CASE j # k
    BY <1>8, <2>1 DEF ServiceInv, OrderInv
  <2>2. CASE j = k
    <3>1. e = n /\ ~ c.removed /\ "service" \in c.todo
      BY <1>1, <1>8, <2>2
    <3>2. kind # "service" /\ kind # "laterService"
      BY <1>2, <1>3, <1>8, <2>2, <3>1
    <3> QED BY <1>3, <1>7, <1>8, <2>2, <3>1, <3>2
  <2> QED BY <2>1, <2>2
<1>9. ASSUME NEW j \in Slots, w.tasks[j].held, w.tasks[j].busy, w.tasks[j].removed,
             "service" \notin w.tasks[j].todo, "service" \in Objects[s]
      PROVE  w.objects["service"] = NoObject \/ w.excused # {}
  <2>1. CASE j = k
    <3>1. e = n /\ c.held /\ c.removed /\ v.excused \subseteq w.excused
      BY <1>1, <1>9, <2>1
    <3>2. CASE kind = "service"
      BY <3>1, <3>2
    <3>3. CASE kind # "service"
      <4>1. "service" \notin c.todo
        BY <1>9, <2>1, <3>1, <3>3
      <4>2. v.objects["service"] = NoObject \/ v.excused # {}
        BY <1>9, <3>1, <4>1 DEF ServiceInv, OrderInv
      <4> QED BY <1>0, <3>1, <3>3, <4>2
    <3> QED BY <3>2, <3>3
  <2>2. CASE j # k
    <3>1. w.tasks[j] = v.tasks[j] /\ ~ c.held
      BY <1>4, <1>5, <1>9, <2>2
    <3>2. v.objects["service"] = NoObject \/ v.excused # {}
      BY <1>9, <3>1 DEF ServiceInv, OrderInv
    <3>3. CASE kind = "service" /\ w.objects[kind] # v.objects[kind]
      BY <3>1, <3>3 DEF ServiceKinds
    <3>4. CASE ~ (kind = "service" /\ w.objects[kind] # v.objects[kind])
      BY <1>0, <3>1, <3>2, <3>4
    <3> QED BY <3>3, <3>4
  <2> QED BY <2>1, <2>2
<1>10. ASSUME w.excused = {}, Blocked(s, w.objects) PROVE \E j \in Slots : Creating(w.tasks[j])
  <2>1. /\ "laterService" \in Objects[s] /\ w.objects["service"] # NoObject
        /\ w.objects["laterService"] = NoObject /\ v.excused = {}
    BY <1>10, BlockedIs
  <2>2. CASE kind = "service" /\ w.objects[kind] # v.objects[kind]
    <3>1. ~ c.removed /\ v.objects[kind] = NoObject
      BY <2>1, <2>2
    <3>2. "laterService" \in n.todo /\ "service" \notin n.todo
      BY <1>2, <1>3, <1>7, <2>1, <2>2, <3>1
    <3>3. Creating(e)
      BY <1>1, <3>1, <3>2 DEF Creating
    <3> QED BY <3>3
  <2>3. CASE kind = "laterService" /\ w.objects[kind] # v.objects[kind]
    <3>1. c.removed /\ c.held
      BY <1>10, <2>1, <2>3 DEF ServiceKinds
    <3>2. v.objects["service"] = NoObject
      BY <1>0, <1>2, <2>1, <2>3, <3>1 DEF ServiceInv, OrderInv
    <3> QED BY <1>0, <2>1, <2>3, <3>2
  <2>4. CASE kind \in {"service", "laterService"} => w.objects[kind] = v.objects[kind]
    <3>1. w.objects["service"] = v.objects["service"] /\ w.objects["laterService"] = v.objects["laterService"]
      BY <1>0, <2>4
    <3>2. Blocked(s, v.objects)
      BY <2>1, <3>1, BlockedIs
    <3>3. PICK j \in Slots : Creating(v.tasks[j])
      BY <2>1, <3>2 DEF ServiceInv, OrderInv
    <3>4. CASE j # k
      BY <3>3, <3>4
    <3>5. CASE j = k
      <4>1. ~ c.removed /\ "laterService" \in c.todo /\ "service" \notin c.todo
        BY <3>3, <3>5 DEF Creating
      <4>2. kind \notin {"service", "laterService"}
        BY <1>2, <2>1, <4>1
      <4>3. "laterService" \in n.todo /\ "service" \notin n.todo
        BY <1>3, <4>1, <4>2
      <4>4. Creating(e)
        BY <1>1, <4>1, <4>3 DEF Creating
      <4> QED BY <4>4
    <3> QED BY <3>4, <3>5
  <2> QED BY <2>2, <2>3, <2>4
<1> QED BY <1>6, <1>8, <1>9, <1>10 DEF OrderInv

\* What the service sees is as before, but that a reconciliation may have been asked for.
LEMMA Unaffected ==
  ASSUME NEW s \in Services, NEW v, NEW w, ServiceInv(s, v),
         w.specs = v.specs, w.dropped = v.dropped, w.tasks = v.tasks, w.objects = v.objects,
         w.excused = v.excused, w.actor # "off" => v.actor # "off",
         Noticed(v) => Noticed(w)
  PROVE  ServiceInv(s, w)
<1>1. Gone(s, w) <=> Gone(s, v)
  BY DEF Gone
<1>2. \A c : Current(s, w, c) <=> Current(s, v, c)
  BY <1>1 DEF Current
<1>3. \A kind : KindSettled(s, w, kind) <=> KindSettled(s, v, kind)
  BY <1>1 DEF KindSettled, IsSettled
<1>4. \A kind : Attended(s, v, kind) => Attended(s, w, kind)
  BY <1>2 DEF Attended
<1>5. \A kind : Excuse(v, kind) => Excuse(w, kind)
  BY DEF Excuse
<1>6. HeldInv(s, w)
  BY <1>2 DEF ServiceInv, HeldInv
<1>7. KindInv(s, w)
  BY <1>3, <1>4, <1>5 DEF ServiceInv, KindInv
<1>8. CleanInv(s, w)
  BY <1>3 DEF ServiceInv, CleanInv
<1>9. OrderInv(s, w)
  BY OrderKeeps DEF ServiceInv, OrderInv
<1> QED BY <1>6, <1>7, <1>8, <1>9 DEF ServiceInv

LEMMA NotPending ==
  ASSUME NEW c, NEW kind, ~ Working(c)
  PROVE  ~ Pending(c, kind)
  BY DEF Working, Pending

\* Tasks that go on as they are, or are only released, are the tasks they were.
LEMMA SameCurrent ==
  ASSUME NEW s, NEW v, NEW w, Gone(s, w) <=> Gone(s, v),
         w.specs.version = v.specs.version, w.specs.instance = v.specs.instance,
         NEW c, NEW n, SameTask(c, n)
  PROVE  Current(s, w, n) <=> Current(s, v, c)
  BY DEF SameTask, Current, IsTold

LEMMA ReleaseKeeps ==
  ASSUME NEW c \in Controller, NEW kind, Pending(c, kind)
  PROVE  /\ Pending(Release(c), kind)
         /\ \A s, v : Current(s, v, c) => Current(s, v, Release(c))
  <1>1. Working(c)
    BY NotPending
  <1>2. /\ Release(c).version = c.version /\ Release(c).instance = c.instance
        /\ (Release(c).removed <=> c.removed) /\ Release(c).cmds = c.cmds
        /\ (Release(c).busy <=> c.busy) /\ Release(c).todo = c.todo
    BY <1>1, ReleaseType
  <1>3. IsTold(Release(c)) <=> IsTold(c)
    BY <1>2 DEF IsTold
  <1> QED BY <1>2, <1>3 DEF Pending, Current

LEMMA ReleaseVersion ==
  ASSUME NEW c \in Controller, Working(Release(c))
  PROVE  Working(c) /\ Release(c).version = c.version
  BY ReleaseType, FreeType

\* Dropping the controllers: the tasks that work go on without the actor.
LEMMA ReleaseStep ==
  ASSUME NEW s \in Services, NEW v, NEW w, IsView(s, v), IsView(s, w), ServiceInv(s, v),
         \A k \in Slots : w.tasks[k] = Release(v.tasks[k]),
         w.specs = v.specs, w.dropped = v.dropped, w.objects = v.objects, w.excused = v.excused,
         w.watching = v.watching, w.event = v.event, w.debounced = v.debounced, w.actor = "off"
  PROVE  ServiceInv(s, w)
<1>0. \A k \in Slots : v.tasks[k] \in Controller /\ ~ w.tasks[k].held
  BY ViewFields, ReleaseType DEF IsView
<1>1. Gone(s, w) <=> Gone(s, v)
  BY DEF Gone
<1>2. \A c : Current(s, w, c) <=> Current(s, v, c)
  BY <1>1 DEF Current
<1>3. \A kind : KindSettled(s, w, kind) <=> KindSettled(s, v, kind)
  BY <1>1 DEF KindSettled, IsSettled
<1>4. \A kind : Attended(s, v, kind) => Attended(s, w, kind)
  BY <1>0, <1>2, ReleaseKeeps DEF Attended
<1>5. \A kind : (Excuse(v, kind) <=> Excuse(w, kind)) /\ (Noticed(v) <=> Noticed(w))
  BY DEF Excuse, Noticed
<1>6. HeldInv(s, w)
  BY <1>0, ReleaseVersion DEF ServiceInv, HeldInv
<1>7. KindInv(s, w)
  BY <1>3, <1>4, <1>5 DEF ServiceInv, KindInv
<1>8. CleanInv(s, w)
  BY <1>0 DEF CleanInv
<1>9. OrderInv(s, w)
  BY <1>0, OrderReleased DEF ServiceInv
<1> QED BY <1>6, <1>7, <1>8, <1>9 DEF ServiceInv

\* Loading the controllers of a specification that has the service.
LEMMA LoadStep ==
  ASSUME NEW s \in Services, NEW v, NEW w, IsView(s, v), IsView(s, w), ServiceInv(s, v),
         s \in w.specs.services, s \notin w.dropped,
         NEW new, new = StartController(w.specs), NEW k \in Slots, w.tasks[k] = new, Release(v.tasks[k]) = Free,
         \A j \in Slots \ {k} : w.tasks[j] = Release(v.tasks[j]),
         w.objects = v.objects, w.excused = v.excused
  PROVE  ServiceInv(s, w)
<1>0. /\ \A j \in Slots : v.tasks[j] \in Controller /\ ~ Release(v.tasks[j]).held
      /\ w.specs \in KubernetesSpecs /\ w.specs.version # 0
  BY ViewFields, ReleaseType DEF IsView
<1>1. /\ new.held /\ ~ new.busy /\ new.cmds = <<"reconcile">> /\ new.cmds # <<>> /\ new.version = w.specs.version
      /\ new.instance = w.specs.instance /\ (new.removed <=> w.specs.removed)
  BY <1>0, StartType
<1>2. ~ IsTold(new)
  <2>1. DOMAIN <<"reconcile">> = {1} /\ <<"reconcile">>[1] = "reconcile"
    OBVIOUS
  <2> QED BY <1>1, <2>1 DEF IsTold
<1>3. Current(s, w, new)
  BY <1>1, <1>2 DEF Current, Gone
<1>4. \A kind : Pending(new, kind)
  BY <1>1 DEF Pending
<1>5. \A j \in Slots : w.tasks[j].held => j = k
  BY <1>0
<1>6. \A j \in Slots : Working(w.tasks[j]) => w.tasks[j].version # 0
  <2> SUFFICES ASSUME NEW j \in Slots, Working(w.tasks[j]) PROVE w.tasks[j].version # 0
    OBVIOUS
  <2>1. CASE j = k
    BY <1>0, <1>1, <2>1
  <2>2. CASE j # k
    BY <1>0, <2>2, ReleaseVersion DEF ServiceInv, HeldInv
  <2> QED BY <2>1, <2>2
<1>7. HeldInv(s, w)
  <2>1. \A j \in Slots : w.tasks[j].held => w.tasks[j].version # 0
    BY <1>0, <1>1, <1>5
  <2> QED BY <1>1, <1>3, <1>5, <1>6, <2>1 DEF HeldInv
<1>8. KindInv(s, w)
  BY <1>3, <1>4 DEF KindInv, Attended
<1>9. CleanInv(s, w)
  BY <1>1, <1>5 DEF CleanInv
<1>10. OrderInv(s, w)
  BY <1>1, <1>5, OrderReleased DEF ServiceInv
<1> QED BY <1>7, <1>8, <1>9, <1>10 DEF ServiceInv

\* Loading the controllers of a specification that leaves the service out.
LEMMA LeaveOutStep ==
  ASSUME NEW s \in Services, NEW v, NEW w, IsView(s, v), IsView(s, w), ServiceInv(s, v),
         s \notin w.specs.services,
         \A k \in Slots : w.tasks[k] = Release(v.tasks[k]),
         s \in v.dropped => s \in w.dropped,
         \/ s \in w.dropped
         \/ s \notin v.specs.services
         \/ /\ v.specs.removed
            /\ \/ v.objects["deployment"] = NoObject
               \/ \E k \in Slots : v.tasks[k].held /\ Pending(v.tasks[k], "deployment"),
         w.objects = v.objects, w.excused = v.excused
  PROVE  ServiceInv(s, w)
<1>0. \A k \in Slots : v.tasks[k] \in Controller /\ ~ w.tasks[k].held
  BY ViewFields, ReleaseType DEF IsView
<1>1. Gone(s, w)
  BY DEF Gone
<1>2. ASSUME Gone(s, v) PROVE \A kind : Attended(s, v, kind) => Attended(s, w, kind)
  <2>1. \A c : Current(s, v, c) => Current(s, w, c)
    BY <1>1, <1>2 DEF Current
  <2> QED BY <1>0, <2>1, ReleaseKeeps DEF Attended
<1>3. HeldInv(s, w)
  BY <1>0, ReleaseVersion DEF ServiceInv, HeldInv
<1>4. CleanInv(s, w) /\ OrderInv(s, w)
  BY <1>0, OrderReleased DEF ServiceInv, CleanInv
<1>5. KindInv(s, w)
  <2>1. CASE s \in w.dropped
    BY <1>1, <2>1 DEF KindInv, KindSettled, IsSettled
  <2>2. CASE s \notin w.dropped
    <3>1. Gone(s, v) /\ s \notin v.dropped
      BY <2>2 DEF Gone
    <3>2. \A kind : KindSettled(s, v, kind) => KindSettled(s, w, kind)
      BY <1>1, <3>1 DEF KindSettled, IsSettled
    <3>3. \A kind : Excuse(v, kind) => Excuse(w, kind)
      BY DEF Excuse
    <3> SUFFICES ASSUME NEW kind \in Objects[s]
                 PROVE  Excuse(w, kind) \/ KindSettled(s, w, kind) \/ Attended(s, w, kind)
      BY DEF KindInv
    <3>4. CASE kind = "deployment" /\ s \in v.specs.services
      <4>1. CASE v.objects["deployment"] = NoObject
        BY <1>1, <3>4, <4>1 DEF KindSettled, IsSettled
      <4>2. CASE \E k \in Slots : v.tasks[k].held /\ Pending(v.tasks[k], "deployment")
        <5>1. Attended(s, v, kind)
          BY <3>4, <4>2 DEF ServiceInv, HeldInv, Attended
        <5> QED BY <1>2, <3>1, <5>1
      <4> QED BY <2>2, <3>4, <4>1, <4>2
    <3>5. CASE ~ (kind = "deployment" /\ s \in v.specs.services)
      BY <1>2, <3>1, <3>2, <3>3, <3>5 DEF ServiceInv, KindInv
    <3> QED BY <3>4, <3>5
  <2> QED BY <2>1, <2>2
<1> QED BY <1>3, <1>4, <1>5 DEF ServiceInv

\* A command for every controller, while the actor runs: whatever was noticed is attended to.
LEMMA EnqueueStep ==
  ASSUME NEW s \in Services, NEW v, NEW w, IsView(s, v), IsView(s, w), ServiceInv(s, v), NEW cmd \in Commands,
         \A k \in Slots : /\ v.tasks[k].held => w.tasks[k] = Enqueued(v.tasks[k], cmd)
                          /\ ~ v.tasks[k].held => w.tasks[k] = v.tasks[k],
         v.actor # "off", w.actor # "off",
         w.specs.services = v.specs.services, w.specs.version = v.specs.version,
         w.specs.instance = v.specs.instance,
         s \in v.specs.services /\ cmd = "deprovision" => w.specs.removed,
         s \in v.specs.services /\ cmd # "deprovision" => (w.specs.removed <=> v.specs.removed),
         w.dropped = v.dropped, w.objects = v.objects, w.excused = v.excused
  PROVE  ServiceInv(s, w)
<1>0. \A k \in Slots : v.tasks[k] \in Controller /\ (v.tasks[k].held => s \in v.specs.services)
  BY ViewFields DEF IsView
<1>1. ASSUME NEW k \in Slots, v.tasks[k].held
      PROVE  /\ w.tasks[k].held /\ (w.tasks[k].busy <=> v.tasks[k].busy) /\ (w.tasks[k].clean <=> v.tasks[k].clean)
             /\ w.tasks[k].version = v.tasks[k].version /\ w.tasks[k].instance = v.tasks[k].instance
             /\ (w.tasks[k].removed <=> v.tasks[k].removed) /\ w.tasks[k].todo = v.tasks[k].todo
             /\ w.tasks[k].cmds # <<>>
             /\ IsTold(w.tasks[k]) <=> (IsTold(v.tasks[k]) \/ cmd = "deprovision")
  <2>1. w.tasks[k] = Enqueued(v.tasks[k], cmd)
    BY <1>1
  <2> QED BY <1>0, <1>1, <2>1, EnqueuedType
<1>2. ASSUME NEW k \in Slots, v.tasks[k].held
      PROVE  Current(s, w, w.tasks[k]) /\ \A kind : Pending(w.tasks[k], kind)
  <2>1. Current(s, v, v.tasks[k]) /\ s \in v.specs.services
    BY <1>0, <1>2 DEF ServiceInv, HeldInv
  <2>2. Current(s, w, w.tasks[k])
    <3>1. CASE cmd = "deprovision"
      BY <1>1, <1>2, <2>1, <3>1 DEF Current, Gone
    <3>2. CASE cmd # "deprovision"
      BY <1>1, <1>2, <2>1, <3>2 DEF Current, Gone
    <3> QED BY <3>1, <3>2
  <2> QED BY <1>1, <1>2, <2>2 DEF Pending
<1>3. \A k \in Slots : w.tasks[k].held <=> v.tasks[k].held
  BY <1>1
<1>4. HeldInv(s, w)
  <2>1. \A k \in Slots : w.tasks[k].held => Current(s, w, w.tasks[k])
    BY <1>2, <1>3
  <2>2. s \in w.specs.services => \E k \in Slots : w.tasks[k].held
    BY <1>3 DEF ServiceInv, HeldInv
  <2>3. ASSUME NEW k \in Slots, w.tasks[k].held \/ Working(w.tasks[k]) PROVE w.tasks[k].version # 0
    <3>1. CASE v.tasks[k].held
      BY <1>1, <3>1 DEF ServiceInv, HeldInv
    <3>2. CASE ~ v.tasks[k].held
      BY <2>3, <3>2 DEF ServiceInv, HeldInv
    <3> QED BY <3>1, <3>2
  <2> QED BY <2>1, <2>2, <2>3 DEF ServiceInv, HeldInv
<1>5. KindInv(s, w)
  <2>1. CASE s \in v.specs.services
    <3>1. PICK k \in Slots : v.tasks[k].held
      BY <2>1 DEF ServiceInv, HeldInv
    <3> QED BY <1>2, <3>1 DEF KindInv, Attended
  <2>2. CASE s \notin v.specs.services
    <3>1. \A k \in Slots : w.tasks[k] = v.tasks[k]
      BY <1>0, <2>2
    <3>2. Gone(s, v) /\ Gone(s, w)
      BY <2>2 DEF Gone
    <3>3. \A c : Current(s, v, c) => Current(s, w, c)
      BY <3>2 DEF Current
    <3>4. \A kind : Attended(s, v, kind) => Attended(s, w, kind)
      BY <3>1, <3>3 DEF Attended
    <3>5. \A kind : KindSettled(s, v, kind) => KindSettled(s, w, kind)
      BY <3>2 DEF KindSettled, IsSettled
    <3>6. \A kind : Excuse(v, kind) => Excuse(w, kind)
      BY DEF Excuse
    <3> QED BY <2>2, <3>4, <3>5, <3>6 DEF ServiceInv, KindInv
  <2> QED BY <2>1, <2>2
<1>6. OrderInv(s, w)
  <2>1. \A k \in Slots :
          /\ w.tasks[k].busy <=> v.tasks[k].busy
          /\ w.tasks[k].removed <=> v.tasks[k].removed
          /\ w.tasks[k].todo = v.tasks[k].todo
    BY <1>1
  <2>2. \A j \in Slots, k \in Slots : w.tasks[j].held /\ w.tasks[k].held => j = k
    BY <1>3 DEF ServiceInv, OrderInv
  <2> QED BY <1>3, <2>1, <2>2, OrderKeeps DEF ServiceInv
<1>7. CleanInv(s, w)
  <2> SUFFICES ASSUME NEW k \in Slots, w.tasks[k].held, w.tasks[k].busy, w.tasks[k].clean
               PROVE  /\ \A j \in Slots \ {k} : w.tasks[j] = Free
                      /\ \A kind : Pending(w.tasks[k], kind)
    BY DEF CleanInv
  <2>1. v.tasks[k].held /\ v.tasks[k].busy /\ v.tasks[k].clean
    BY <1>1, <1>3
  <2>2. \A j \in Slots \ {k} : v.tasks[j] = Free
    BY <2>1 DEF ServiceInv, CleanInv
  <2>3. \A j \in Slots \ {k} : w.tasks[j] = Free
    BY <2>2, FreeType
  <2> QED BY <1>2, <2>1, <2>3
<1> QED BY <1>4, <1>5, <1>6, <1>7 DEF ServiceInv

\* A failure excuses everything.
LEMMA Failure ==
  ASSUME NEW v, "failure" \in v.excused
  PROVE  \A kind : Excuse(v, kind)
  BY DEF Excuse

\* A reconciliation that was asked for is forgotten, or a Deployment is deleted unnoticed.
LEMMA ForgetStep ==
  ASSUME NEW s \in Services, NEW v, NEW w, IsView(s, v), IsView(s, w), ServiceInv(s, v),
         \A k \in Slots : w.tasks[k] = Soiled(v.tasks[k]), "failure" \in w.excused, v.excused \subseteq w.excused,
         w.specs = v.specs, w.dropped = v.dropped,
         \A kind \in Kinds \ {"deployment"} : w.objects[kind] = v.objects[kind],
         w.actor = v.actor
  PROVE  ServiceInv(s, w)
<1>0. ASSUME NEW k \in Slots
      PROVE  /\ SameTask(v.tasks[k], w.tasks[k]) /\ (w.tasks[k].busy <=> v.tasks[k].busy)
             /\ w.tasks[k].clean => ~ w.tasks[k].busy
             /\ w.tasks[k].todo = v.tasks[k].todo
  <2>1. v.tasks[k] \in Controller
    BY ViewFields DEF IsView
  <2> QED BY <2>1, SoiledIs
<1>1. Gone(s, w) <=> Gone(s, v)
  BY DEF Gone
<1>2. ASSUME NEW k \in Slots
      PROVE  /\ Current(s, w, w.tasks[k]) <=> Current(s, v, v.tasks[k])
             /\ w.tasks[k].held <=> v.tasks[k].held
             /\ Working(w.tasks[k]) => Working(v.tasks[k])
             /\ w.tasks[k].version = v.tasks[k].version
  BY <1>0, <1>1, SameCurrent DEF SameTask, Working
<1>3. HeldInv(s, w)
  <2>1. \A k \in Slots : w.tasks[k].held \/ Working(w.tasks[k]) => w.tasks[k].version # 0
    BY <1>2 DEF ServiceInv, HeldInv
  <2>2. \A k \in Slots : w.tasks[k].held => Current(s, w, w.tasks[k])
    BY <1>2 DEF ServiceInv, HeldInv
  <2> QED BY <1>2, <2>1, <2>2 DEF ServiceInv, HeldInv
<1>4. KindInv(s, w)
  BY Failure DEF KindInv
<1>5. OrderInv(s, w)
  <2>1. \A j \in Slots, k \in Slots : w.tasks[j].held /\ w.tasks[k].held => j = k
    BY <1>2 DEF ServiceInv, OrderInv
  <2>2. w.objects["service"] = v.objects["service"] /\ w.objects["laterService"] = v.objects["laterService"]
    BY KindsAre
  <2> QED BY <1>0, <2>1, <2>2, OrderKeeps DEF ServiceInv, SameTask
<1>6. CleanInv(s, w)
  BY <1>0 DEF CleanInv
<1> QED BY <1>3, <1>4, <1>5, <1>6 DEF ServiceInv

\* The process dies: what was under way is excused, and when nothing was, nothing is missing.
LEMMA CrashStep ==
  ASSUME NEW s \in Services, NEW v, NEW w, IsView(s, v), IsView(s, w), ServiceInv(s, v),
         \A k \in Slots : w.tasks[k] = Free,
         \/ "failure" \in w.excused
         \/ /\ w.excused = v.excused /\ (Noticed(v) => Noticed(w))
            /\ \A k \in Slots : ~ Working(v.tasks[k]),
         w.specs = v.specs, w.dropped = v.dropped, w.objects = v.objects, w.actor = "off"
  PROVE  ServiceInv(s, w)
<1>1. Gone(s, w) <=> Gone(s, v)
  BY DEF Gone
<1>2. \A kind : KindSettled(s, v, kind) => KindSettled(s, w, kind)
  BY <1>1 DEF KindSettled, IsSettled
<1>3. HeldInv(s, w)
  <2>1. \A k \in Slots : ~ w.tasks[k].held /\ ~ Working(w.tasks[k])
    BY FreeType
  <2> QED BY <2>1 DEF ServiceInv, HeldInv
<1>4. CleanInv(s, w) /\ OrderInv(s, w)
  <2>1. \A k \in Slots : ~ w.tasks[k].held /\ ~ w.tasks[k].busy
    BY FreeType
  <2>2. ASSUME w.excused = {} PROVE ~ Blocked(s, w.objects)
    <3>1. v.excused = {} /\ \A k \in Slots : ~ Creating(v.tasks[k])
      BY <2>2 DEF Creating, Working
    <3> QED BY <3>1 DEF ServiceInv, OrderInv
  <2> QED BY <2>1, <2>2 DEF CleanInv, OrderInv
<1>5. KindInv(s, w)
  <2>1. CASE "failure" \in w.excused
    BY <2>1, Failure DEF KindInv
  <2>2. CASE /\ w.excused = v.excused /\ (Noticed(v) => Noticed(w))
             /\ \A k \in Slots : ~ Working(v.tasks[k])
    <3>1. \A kind : ~ Attended(s, v, kind) /\ (Excuse(v, kind) => Excuse(w, kind))
      BY <2>2, NotPending DEF Attended, Excuse
    <3> QED BY <1>2, <2>2, <3>1 DEF ServiceInv, KindInv
  <2> QED BY <2>1, <2>2
<1> QED BY <1>3, <1>4, <1>5 DEF ServiceInv

\* Somebody deletes the Deployment, and the event is noticed.
LEMMA DeletedStep ==
  ASSUME NEW s \in Services, NEW v, NEW w, IsView(s, v), IsView(s, w), ServiceInv(s, v),
         w.objects["deployment"] = NoObject,
         \A kind \in Kinds \ {"deployment"} : w.objects[kind] = v.objects[kind],
         w.event,
         w.specs = v.specs, w.dropped = v.dropped, w.tasks = v.tasks, w.excused = v.excused,
         w.actor = v.actor
  PROVE  ServiceInv(s, w)
<1>0. Noticed(w) /\ Objects[s] \subseteq Kinds
  BY ConstantsType DEF Noticed
<1>1. Gone(s, w) <=> Gone(s, v)
  BY DEF Gone
<1>2. \A c : Current(s, w, c) <=> Current(s, v, c)
  BY <1>1 DEF Current
<1>3. \A kind \in Kinds \ {"deployment"} : KindSettled(s, w, kind) <=> KindSettled(s, v, kind)
  BY <1>1 DEF KindSettled, IsSettled
<1>4. \A kind : (Attended(s, v, kind) => Attended(s, w, kind)) /\ (Excuse(v, kind) => Excuse(w, kind))
  BY <1>2 DEF Attended, Excuse
<1>5. HeldInv(s, w)
  BY <1>2 DEF ServiceInv, HeldInv
<1>6. s \in w.specs.services \/ KindSettled(s, w, "deployment")
  BY DEF KindSettled, IsSettled, Gone
<1>7. KindInv(s, w)
  BY <1>0, <1>3, <1>4, <1>6 DEF ServiceInv, KindInv
<1>8. CleanInv(s, w)
  BY <1>0, <1>3 DEF ServiceInv, CleanInv
<1>9. OrderInv(s, w)
  <2>1. w.objects["service"] = v.objects["service"] /\ w.objects["laterService"] = v.objects["laterService"]
    BY KindsAre
  <2> QED BY <2>1, OrderKeeps DEF ServiceInv, OrderInv
<1> QED BY <1>5, <1>7, <1>8, <1>9 DEF ServiceInv

\* What a command that is taken leaves of the task.
IsTaken(s, c, n) ==
    /\ (n.held <=> c.held) /\ n.busy /\ n.version = c.version /\ n.instance = c.instance
    /\ n.removed <=> c.removed \/ Head(c.cmds) = "deprovision"
    /\ n.removed => n.todo = Objects[s] \cap Removable
    /\ ~ n.removed => n.todo = Objects[s]
    /\ IsTold(n) => IsTold(c)
    /\ IsTold(c) => IsTold(n) \/ Head(c.cmds) = "deprovision"
    /\ Head(c.cmds) = "deprovision" => IsTold(c)

\* A task takes a command: what it was to handle is on its list now, or needs no handling.
LEMMA TakeStep ==
  ASSUME NEW s \in Services, NEW v, NEW w, IsView(s, v), IsView(s, w), ServiceInv(s, v), NEW k \in Slots,
         ~ v.tasks[k].busy, v.tasks[k].cmds # <<>>, IsTaken(s, v.tasks[k], w.tasks[k]),
         \A j \in Slots \ {k} : w.tasks[j] = v.tasks[j],
         w.tasks[k].clean => \A j \in Slots \ {k} : v.tasks[j] = Free,
         w.specs = v.specs, w.dropped = v.dropped, w.objects = v.objects, w.excused = v.excused,
         w.watching = v.watching, w.event = v.event, w.debounced = v.debounced, w.actor = v.actor
  PROVE  ServiceInv(s, w)
<1> DEFINE c == v.tasks[k]
           n == w.tasks[k]
           removed == n.removed
           todo == n.todo
<1>0. c \in Controller
  BY ViewFields DEF IsView
<1>1. /\ (n.held <=> c.held) /\ n.busy
      /\ n.version = c.version /\ n.instance = c.instance
      /\ IsTold(n) => IsTold(c)
      /\ IsTold(c) => IsTold(n) \/ Head(c.cmds) = "deprovision"
      /\ Head(c.cmds) = "deprovision" => IsTold(c)
      /\ removed => todo = Objects[s] \cap Removable
      /\ ~ removed => todo = Objects[s]
  BY DEF IsTaken
<1>2. /\ (removed <=> c.removed \/ Head(c.cmds) = "deprovision") /\ c.cmds # <<>> /\ Working(c) /\ ~ c.busy
      /\ n.clean => \A j \in Slots \ {k} : v.tasks[j] = Free
  BY DEF Working, IsTaken
<1>3. Gone(s, w) <=> Gone(s, v)
  BY DEF Gone
<1>4. \A x : Current(s, w, x) <=> Current(s, v, x)
  BY <1>3 DEF Current
<1>5. \A kind : /\ KindSettled(s, w, kind) <=> KindSettled(s, v, kind)
                /\ Excuse(v, kind) => Excuse(w, kind)
                /\ Noticed(v) => Noticed(w)
  BY <1>3 DEF KindSettled, IsSettled, Excuse, Noticed
<1> HIDE DEF c, n, removed, todo
<1>6. Current(s, v, c) => Current(s, w, n)
  BY <1>1, <1>2, <1>3 DEF Current, removed
<1>7. ASSUME Current(s, v, c), NEW kind \in Objects[s]
      PROVE  Pending(n, kind) \/ KindSettled(s, w, kind)
  <2>1. CASE kind \in todo
    BY <1>1, <2>1 DEF Pending, todo
  <2>2. CASE kind \notin todo
    <3>1. removed /\ kind \notin Removable
      BY <1>1, <1>7, <2>2
    <3>2. Gone(s, v)
      BY <1>1, <1>2, <1>7, <3>1 DEF Current
    <3> QED BY <1>3, <3>1, <3>2 DEF KindSettled, IsSettled
  <2> QED BY <2>1, <2>2
<1>8. HeldInv(s, w)
  <2>1. \A j \in Slots : w.tasks[j].held => Current(s, w, w.tasks[j])
    BY <1>1, <1>4, <1>6 DEF ServiceInv, HeldInv, c, n
  <2>2. \A j \in Slots : w.tasks[j].held <=> v.tasks[j].held
    BY <1>1 DEF c, n
  <2>3. \A j \in Slots : w.tasks[j].held \/ Working(w.tasks[j]) => w.tasks[j].version # 0
    BY <1>1, <1>2 DEF ServiceInv, HeldInv, c, n
  <2> QED BY <2>1, <2>2, <2>3 DEF ServiceInv, HeldInv
<1>9. KindInv(s, w)
  <2>1. ASSUME NEW kind \in Objects[s], Attended(s, v, kind)
        PROVE  Attended(s, w, kind) \/ KindSettled(s, w, kind)
    <3>1. PICK j \in Slots : Current(s, v, v.tasks[j]) /\ Pending(v.tasks[j], kind)
      BY <2>1 DEF Attended
    <3>2. CASE j = k
      BY <1>6, <1>7, <3>1, <3>2 DEF Attended, c, n
    <3>3. CASE j # k
      BY <1>4, <3>1, <3>3 DEF Attended
    <3> QED BY <3>2, <3>3
  <2> QED BY <1>5, <2>1 DEF ServiceInv, KindInv
<1>10. CleanInv(s, w)
  <2> SUFFICES ASSUME NEW j \in Slots, w.tasks[j].held, w.tasks[j].busy, w.tasks[j].clean
               PROVE  /\ \A i \in Slots \ {j} : w.tasks[i] = Free
                      /\ \A kind \in Objects[s] : Pending(w.tasks[j], kind) \/ KindSettled(s, w, kind)
    BY DEF CleanInv
  <2>1. j = k
    BY <1>2, FreeType DEF ServiceInv, CleanInv, c
  <2>2. /\ \A i \in Slots \ {k} : v.tasks[i] = Free
        /\ c.held
    BY <1>1, <1>2, <2>1 DEF n
  <2>3. Current(s, v, c)
    BY <2>2 DEF ServiceInv, HeldInv, c
  <2> QED BY <1>7, <2>1, <2>2, <2>3 DEF n
<1>11. OrderInv(s, w)
  <2>1. \A i \in Slots, j \in Slots : w.tasks[i].held /\ w.tasks[j].held => i = j
    BY <1>1 DEF ServiceInv, OrderInv, c, n
  <2>2. ASSUME w.excused = {}, Blocked(s, w.objects) PROVE \E j \in Slots : Creating(w.tasks[j])
    <3>1. PICK j \in Slots : Creating(v.tasks[j])
      BY <2>2 DEF ServiceInv, OrderInv
    <3>2. j # k
      BY <1>2, <3>1 DEF Creating, c
    <3> QED BY <3>1, <3>2
  <2>3. ASSUME NEW j \in Slots, w.tasks[j].held, w.tasks[j].busy, w.tasks[j].removed,
               "service" \notin w.tasks[j].todo, "service" \in Objects[s]
        PROVE  w.objects["service"] = NoObject \/ w.excused # {}
    <3>1. j # k
      BY <1>1, <2>3, KindsAre DEF n, removed, todo
    <3> QED BY <2>3, <3>1 DEF ServiceInv, OrderInv
  <2>4. ASSUME NEW j \in Slots, w.tasks[j].busy, ~ w.tasks[j].removed, "service" \in w.tasks[j].todo,
               "laterService" \in Objects[s]
        PROVE  "laterService" \in w.tasks[j].todo
    <3>1. CASE j = k
      BY <1>1, <2>4, <3>1 DEF n, removed, todo
    <3>2. CASE j # k
      BY <2>4, <3>2 DEF ServiceInv, OrderInv
    <3> QED BY <3>1, <3>2
  <2> QED BY <2>1, <2>2, <2>3, <2>4 DEF OrderInv
<1> QED BY <1>8, <1>9, <1>10, <1>11 DEF ServiceInv

\* A step of a command that fails.
LEMMA FailStep ==
  ASSUME NEW s \in Services, NEW v, NEW w, IsView(s, v), IsView(s, w), ServiceInv(s, v), NEW k \in Slots,
         v.tasks[k].busy, NEW n \in Controller, SameTask(v.tasks[k], n), n.busy <=> v.tasks[k].busy,
         n.todo \subseteq v.tasks[k].todo, ~ n.clean,
         ~ v.tasks[k].removed /\ "service" \in n.todo /\ "laterService" \in v.tasks[k].todo =>
           "laterService" \in n.todo,
         w.tasks[k] = Ended(n), \A j \in Slots \ {k} : w.tasks[j] = v.tasks[j],
         "failure" \in w.excused,
         w.specs = v.specs, w.dropped = v.dropped, w.objects = v.objects, w.actor = v.actor
  PROVE  ServiceInv(s, w)
<1> DEFINE c == v.tasks[k]
<1>0. c \in Controller /\ Working(c) /\ c # Free
  BY ViewFields, FreeType DEF IsView, Working
<1> HIDE DEF c
<1>1. /\ Ended(n) \in Controller /\ (Ended(n).held <=> c.held)
      /\ c.held => SameTask(c, Ended(n))
      /\ n.todo # {} => Ended(n) = n
      /\ n.todo = {} => ~ Ended(n).busy
  BY <1>0, ProgressIs DEF c
<1>2. Gone(s, w) <=> Gone(s, v)
  BY DEF Gone
<1>3. ASSUME NEW j \in Slots, w.tasks[j].held
      PROVE  v.tasks[j].held /\ Current(s, w, w.tasks[j])
  <2>1. v.tasks[j].held /\ SameTask(v.tasks[j], w.tasks[j])
    BY <1>1, <1>3 DEF SameTask, c
  <2> QED BY <1>2, <2>1, SameCurrent DEF ServiceInv, HeldInv
<1>4. ASSUME NEW j \in Slots, w.tasks[j].held \/ Working(w.tasks[j]) PROVE w.tasks[j].version # 0
  <2>1. CASE j # k
    BY <1>4, <2>1 DEF ServiceInv, HeldInv
  <2>2. CASE j = k
    <3>1. c.version # 0 /\ n.version = c.version
      BY <1>0 DEF ServiceInv, HeldInv, c, SameTask
    <3>2. Ended(n) = Free \/ Ended(n).version = n.version
      BY EndedType DEF Ended
    <3> QED BY <1>4, <2>2, <3>1, <3>2, FreeType
  <2> QED BY <2>1, <2>2
<1>5. \A j \in Slots : v.tasks[j].held => w.tasks[j].held
  BY <1>1 DEF c
<1>6. HeldInv(s, w)
  BY <1>3, <1>4, <1>5 DEF ServiceInv, HeldInv
<1>7. KindInv(s, w)
  BY Failure DEF KindInv
<1>8. OrderInv(s, w)
  <2>1. \A i \in Slots, j \in Slots : w.tasks[i].held /\ w.tasks[j].held => i = j
    BY <1>3 DEF ServiceInv, OrderInv
  <2>2. ASSUME NEW j \in Slots, w.tasks[j].busy, ~ w.tasks[j].removed, "service" \in w.tasks[j].todo,
               "laterService" \in Objects[s]
        PROVE  "laterService" \in w.tasks[j].todo
    <3>1. CASE j = k
      <4>1. Ended(n) = n /\ ~ c.removed
        BY <1>1, <2>2, <3>1 DEF SameTask, c
      <4>2. "laterService" \in c.todo
        BY <2>2, <3>1, <4>1 DEF ServiceInv, OrderInv, c
      <4> QED BY <2>2, <3>1, <4>1, <4>2 DEF c
    <3>2. CASE j # k
      BY <2>2, <3>2 DEF ServiceInv, OrderInv
    <3> QED BY <3>1, <3>2
  <2> QED BY <2>1, <2>2 DEF OrderInv
<1>9. CleanInv(s, w)
  <2> SUFFICES ASSUME NEW j \in Slots, w.tasks[j].held, w.tasks[j].busy, w.tasks[j].clean PROVE FALSE
    BY DEF CleanInv
  <2>1. j # k
    BY <1>1
  <2> QED BY <1>0, <2>1 DEF ServiceInv, CleanInv, c
<1> QED BY <1>6, <1>7, <1>8, <1>9 DEF ServiceInv


\* A step of a command that handles one kind of object.  A task that is current settles what it
\* has behind it; what another task changes is excused, noticed, or as it should be; and a
\* controller that ends without an error, undisturbed, leaves nothing to excuse.
LEMMA WorkStep ==
  ASSUME NEW s \in Services, NEW v, NEW w, IsView(s, v), IsView(s, w), ServiceInv(s, v), NEW k \in Slots,
         NEW kind \in Kinds, v.tasks[k].busy, kind \in v.tasks[k].todo,
         NEW n \in Controller, SameTask(v.tasks[k], n), n.busy <=> v.tasks[k].busy,
         n.clean <=> v.tasks[k].clean, n.todo \subseteq v.tasks[k].todo, kind \notin n.todo,
         w.tasks[k] = Ended(n), \A j \in Slots \ {k} : w.tasks[j] = v.tasks[j],
         \A other \in Kinds \ {kind} : w.objects[other] = v.objects[other],
         \A x \in v.tasks[k].todo \ n.todo : Current(s, v, v.tasks[k]) =>
           IsSettled(s, v, x, w.objects[x]) \/ v.tasks[k].cmds # <<>>,
         \/ w.objects[kind] = v.objects[kind] \/ Current(s, v, v.tasks[k]) \/ Excuse(w, kind)
         \/ kind = "deployment" /\ Noticed(w) /\ s \in v.specs.services
         \/ IsSettled(s, v, kind, w.objects[kind]),
         v.excused \subseteq w.excused \/ (v.tasks[k].held /\ v.tasks[k].clean /\ n.todo = {}),
         Noticed(v) => Noticed(w) \/ (kind = "deployment" /\ w.objects[kind] # v.objects[kind]),
         w.specs = v.specs, w.dropped = v.dropped, w.actor = v.actor, OrderInv(s, w)
  PROVE  ServiceInv(s, w)
<1> DEFINE c == v.tasks[k]
           e == w.tasks[k]
<1>0. c \in Controller /\ Working(c) /\ c # Free /\ Objects[s] \subseteq Kinds
  BY ViewFields, FreeType, ConstantsType DEF IsView, Working
<1>1. /\ (e.held <=> c.held)
      /\ \A x : Pending(c, x) /\ x \notin c.todo \ n.todo => Pending(e, x) /\ SameTask(c, e)
      /\ c.cmds # <<>> => SameTask(c, e) /\ \A x : Pending(e, x)
      /\ c.held => SameTask(c, e)
      /\ n.todo # {} => e = n
      /\ n.todo = {} => ~ e.busy
  <2>1. /\ (Ended(n).held <=> c.held)
        /\ \A x : Pending(c, x) /\ x \notin c.todo \ n.todo => Pending(Ended(n), x) /\ SameTask(c, Ended(n))
        /\ c.held => SameTask(c, Ended(n))
        /\ n.todo # {} => Ended(n) = n
        /\ n.todo = {} => ~ Ended(n).busy
    BY <1>0, ProgressIs
  <2>2. ASSUME c.cmds # <<>> PROVE SameTask(c, e) /\ \A x : Pending(e, x)
    <3>1. n.cmds # <<>>
      BY <2>2 DEF SameTask
    <3>2. /\ Ended(n).version = n.version /\ Ended(n).instance = n.instance /\ (Ended(n).held <=> n.held)
          /\ (Ended(n).removed <=> n.removed) /\ Ended(n).cmds = n.cmds
      BY <3>1, EndedType
    <3> QED BY <3>1, <3>2 DEF SameTask, Pending
  <2> QED BY <2>1, <2>2
<1>2. Gone(s, w) <=> Gone(s, v)
  BY DEF Gone
<1>3. \A x : Current(s, w, x) <=> Current(s, v, x)
  BY <1>2 DEF Current
<1>4. \A x, o : IsSettled(s, w, x, o) <=> IsSettled(s, v, x, o)
  BY <1>2 DEF IsSettled
<1>5. \A x \in Kinds \ {kind} : KindSettled(s, w, x) <=> KindSettled(s, v, x)
  BY <1>4 DEF KindSettled
<1>6. \A j \in Slots : w.tasks[j].held <=> v.tasks[j].held
  BY <1>1
<1>7. SameTask(c, e) => (Current(s, v, c) <=> Current(s, w, e))
  BY <1>2, SameCurrent
<1>8. ASSUME NEW x \in c.todo \ n.todo, Current(s, v, c)
      PROVE  KindSettled(s, w, x) \/ (Attended(s, w, x) /\ Pending(e, x))
  <2>1. CASE c.cmds # <<>>
    BY <1>1, <1>7, <1>8, <2>1 DEF Attended
  <2>2. CASE c.cmds = <<>>
    BY <1>4, <1>8, <2>2 DEF KindSettled
  <2> QED BY <2>1, <2>2
<1>9. ASSUME NEW x, Attended(s, v, x) PROVE Attended(s, w, x) \/ KindSettled(s, w, x)
  <2>1. PICK j \in Slots : Current(s, v, v.tasks[j]) /\ Pending(v.tasks[j], x)
    BY <1>9 DEF Attended
  <2>2. CASE j = k /\ x \notin c.todo \ n.todo
    BY <1>1, <1>7, <2>1, <2>2 DEF Attended
  <2>3. CASE j = k /\ x \in c.todo \ n.todo
    BY <1>8, <2>1, <2>3
  <2>4. CASE j # k
    BY <1>3, <2>1, <2>4 DEF Attended
  <2> QED BY <2>2, <2>3, <2>4
<1>10. HeldInv(s, w)
  <2>1. ASSUME NEW j \in Slots, w.tasks[j].held PROVE Current(s, w, w.tasks[j])
    <3>1. CASE j = k
      BY <1>1, <1>7, <2>1, <3>1 DEF ServiceInv, HeldInv
    <3>2. CASE j # k
      BY <1>3, <2>1, <3>2 DEF ServiceInv, HeldInv
    <3> QED BY <3>1, <3>2
  <2>2. ASSUME NEW j \in Slots, w.tasks[j].held \/ Working(w.tasks[j]) PROVE w.tasks[j].version # 0
    <3>1. CASE j # k
      BY <2>2, <3>1 DEF ServiceInv, HeldInv
    <3>2. CASE j = k
      <4>1. c.version # 0 /\ n.version = c.version
        BY <1>0 DEF ServiceInv, HeldInv, SameTask
      <4>2. Ended(n) = Free \/ Ended(n).version = n.version
        BY EndedType DEF Ended
      <4> QED BY <2>2, <3>2, <4>1, <4>2, FreeType
    <3> QED BY <3>1, <3>2
  <2> QED BY <1>6, <2>1, <2>2 DEF ServiceInv, HeldInv
<1>11. ASSUME c.held, c.clean
       PROVE  /\ \A j \in Slots \ {k} : w.tasks[j] = Free
              /\ \A x \in Objects[s] :
                   \/ Pending(e, x) \/ KindSettled(s, w, x)
                   \/ x = "deployment" /\ Noticed(w)
  <2>1. /\ \A j \in Slots \ {k} : v.tasks[j] = Free
        /\ \A x \in Objects[s] : \/ Pending(c, x) \/ KindSettled(s, v, x)
                                 \/ x = "deployment" /\ Noticed(v)
    BY <1>11 DEF ServiceInv, CleanInv
  <2>2. Current(s, v, c)
    BY <1>11 DEF ServiceInv, HeldInv
  <2>3. ASSUME NEW x \in Objects[s]
        PROVE  Pending(e, x) \/ KindSettled(s, w, x) \/ (x = "deployment" /\ Noticed(w))
    <3>1. CASE x \in c.todo \ n.todo
      BY <1>8, <2>2, <3>1
    <3>2. CASE x \notin c.todo \ n.todo
      <4>1. x \in Kinds \ {kind}
        BY <1>0, <3>2
      <4> QED BY <1>1, <1>5, <2>1, <3>2, <4>1
    <3> QED BY <3>1, <3>2
  <2> QED BY <2>1, <2>3
<1>12. CASE c.held /\ c.clean /\ n.todo = {}
  <2>1. Current(s, w, e) /\ s \in w.specs.services
    BY <1>1, <1>7, <1>12 DEF ServiceInv, HeldInv, IsView
  <2>2. KindInv(s, w)
    BY <1>11, <1>12, <2>1 DEF KindInv, Attended
  <2>3. CleanInv(s, w)
    BY <1>1, <1>11, <1>12, FreeType DEF CleanInv
  <2> QED BY <1>10, <2>2, <2>3 DEF ServiceInv
<1>13. CASE ~ (c.held /\ c.clean /\ n.todo = {})
  <2>1. \A x : Excuse(v, x) => Excuse(w, x)
    BY <1>13 DEF Excuse
  <2>2. KindInv(s, w)
    <3> SUFFICES ASSUME NEW x \in Objects[s]
                 PROVE  \/ Excuse(w, x) \/ KindSettled(s, w, x) \/ Attended(s, w, x)
                        \/ x = "deployment" /\ Noticed(w) /\ s \in w.specs.services
      BY DEF KindInv
    <3>1. \/ Excuse(v, x) \/ KindSettled(s, v, x) \/ Attended(s, v, x)
          \/ x = "deployment" /\ Noticed(v) /\ s \in v.specs.services
      BY DEF ServiceInv, KindInv
    <3>2. CASE x # kind
      BY <1>0, <1>5, <1>9, <2>1, <3>1, <3>2
    <3>3. CASE x = kind /\ Current(s, v, c)
      BY <1>8, <3>3
    <3>4. CASE x = kind /\ ~ Current(s, v, c) /\ w.objects[kind] # v.objects[kind]
      BY <1>4, <3>4 DEF KindSettled
    <3>5. CASE x = kind /\ ~ Current(s, v, c) /\ w.objects[kind] = v.objects[kind]
      <4>1. KindSettled(s, v, x) => KindSettled(s, w, x)
        BY <1>4, <3>5 DEF KindSettled
      <4> QED BY <1>9, <2>1, <3>1, <3>5, <4>1
    <3> QED BY <3>2, <3>3, <3>4, <3>5
  <2>3. CleanInv(s, w)
    <3> SUFFICES ASSUME NEW j \in Slots, w.tasks[j].held, w.tasks[j].busy, w.tasks[j].clean
                 PROVE  /\ \A i \in Slots \ {j} : w.tasks[i] = Free
                        /\ \A x \in Objects[s] :
                             \/ Pending(w.tasks[j], x) \/ KindSettled(s, w, x)
                             \/ x = "deployment" /\ Noticed(w)
      BY DEF CleanInv
    <3>1. j = k
      BY <1>0 DEF ServiceInv, CleanInv
    <3>2. c.held /\ c.clean
      BY <1>1, <3>1
    <3> QED BY <1>11, <3>1, <3>2
  <2> QED BY <1>10, <2>2, <2>3 DEF ServiceInv
<1> QED BY <1>12, <1>13

(***************************************************************************)
(* What the functions of the reconciler leave.                             *)
(***************************************************************************)

LEMMA BuiltSome ==
  ASSUME NEW kind, NEW s, NEW c, c.version # 0
  PROVE  Built(kind, s, c) # NoObject
  BY DEF Built, NoObject

\* A task that is current and was told nothing else makes of an object what it should be.
LEMMA ReconciledSettles ==
  ASSUME NEW s \in Services, NEW v, IsView(s, v), NEW kind \in Kinds, NEW cur \in Object,
         NEW c \in Controller, Current(s, v, c), ~ c.removed, c.version # 0
  PROVE  IsSettled(s, v, kind, Reconciled(kind, cur, s, c)) \/ c.cmds # <<>>
  <1> SUFFICES ASSUME c.cmds = <<>> PROVE IsSettled(s, v, kind, Reconciled(kind, cur, s, c))
    OBVIOUS
  <1>1. ~ IsTold(c)
    BY DEF IsTold
  <1>2. ~ Gone(s, v) /\ c.version = v.specs.version /\ c.instance = v.specs.instance
    BY <1>1 DEF Current
  <1>3. Built(kind, s, c) = Built(kind, s, v.specs) /\ Built(kind, s, c) # NoObject
    BY <1>2, BuiltSome DEF Built
  <1>4. /\ kind \notin {"claim", "service", "laterService"} => Reconciled(kind, cur, s, c) = Built(kind, s, c)
        /\ kind \in {"claim", "service", "laterService"} =>
             Reconciled(kind, cur, s, c) = IF cur = NoObject THEN Built(kind, s, c) ELSE cur
    BY ReconciledType
  <1> QED BY <1>2, <1>3, <1>4 DEF IsSettled

\* Services that a current task passes over are none of its business any more.
LEMMA PassedSettles ==
  ASSUME NEW s \in Services, NEW v, NEW c \in Controller, NEW kind, NEW ok, NEW x, NEW object,
         Current(s, v, c), ~ c.removed, IsNext(kind, c), x \in c.todo, x \in Passed(kind, ok), x # kind
  PROVE  IsSettled(s, v, x, object) \/ c.cmds # <<>>
  <1> SUFFICES ASSUME c.cmds = <<>> PROVE IsSettled(s, v, x, object)
    OBVIOUS
  <1>1. ~ IsTold(c)
    BY DEF IsTold
  <1>2. ~ Gone(s, v)
    BY <1>1 DEF Current
  <1>3. x \in {"service", "laterService"} /\ kind \in {"service", "laterService"}
    BY PassedIs DEF Passed, ServiceKinds
  <1>4. x = "laterService"
    BY <1>3, NextIs
  <1> QED BY <1>2, <1>4 DEF IsSettled

LEMMA ViewIs ==
  ASSUME NEW s \in Services
  PROVE  /\ View(s).specs = specs /\ View(s).dropped = dropped /\ View(s).actor = actor
         /\ View(s).tasks = controllers[s] /\ View(s).objects = cluster[s]
         /\ View(s).watching = watching /\ View(s).event = podEvent
         /\ View(s).debounced = debounced /\ View(s).excused = excused[s]
         /\ View(s)'.specs = specs' /\ View(s)'.dropped = dropped' /\ View(s)'.actor = actor'
         /\ View(s)'.tasks = controllers'[s] /\ View(s)'.objects = cluster'[s]
         /\ View(s)'.watching = watching' /\ View(s)'.event = podEvent'
         /\ View(s)'.debounced = debounced' /\ View(s)'.excused = excused'[s]
  BY DEF View

LEMMA ViewType ==
  ASSUME ApiInv, NEW s \in Services
  PROVE  IsView(s, View(s))
  <1>1. TypeOK /\ Limits /\ SpecsInv
    BY TypeIs DEF ApiInv, ApiTypeOK
  <1>2. View(s) \in Views
    BY <1>1 DEF View, Views, TypeOK, Reasons
  <1>3. \A k \in Slots : controllers[s][k].held => s \in specs.services
    BY <1>1 DEF Limits
  <1>4. s \in specs.services => specs.version # 0
    BY <1>1 DEF SpecsInv, NoSpecs
  <1> QED BY <1>2, <1>3, <1>4, ViewIs DEF IsView

LEMMA NextViewType ==
  ASSUME ApiInv', NEW s \in Services
  PROVE  IsView(s, View(s)')
  <1>1. TypeOK' /\ SpecsInv'
    BY DEF ApiInv, ApiTypeOK
  <1>2. View(s)' \in Views
    BY <1>1 DEF View, Views, TypeOK, Reasons
  <1>3. \A k \in Slots : controllers'[s][k].held => s \in specs'.services
    BY <1>1 DEF TypeOK
  <1>4. s \in specs'.services => specs'.version # 0
    BY <1>1 DEF SpecsInv, NoSpecs
  <1> QED BY <1>2, <1>3, <1>4, ViewIs DEF IsView

\* SettledInv' from each service.
LEMMA Settles ==
  ASSUME \A s \in Services : ServiceInv(s, View(s)')
  PROVE  SettledInv'
  BY DEF SettledInv

SettleInv == ApiInv /\ SettledInv

LEMMA SettleIs ==
  ASSUME SettleInv, ApiInv', NEW s \in Services
  PROVE  IsView(s, View(s)) /\ IsView(s, View(s)') /\ ServiceInv(s, View(s))
  BY ViewType, NextViewType DEF SettleInv, SettledInv

\* A step that concerns one service, seen from another, and one that concerns none.
LEMMA Elsewhere ==
  ASSUME SettleInv, NEW s \in Services, UNCHANGED <<specs, dropped, actor>>,
         controllers'[s] = controllers[s], cluster'[s] = cluster[s], excused'[s] = excused[s],
         podEvent \/ debounced => podEvent' \/ debounced',
         ~ watching /\ cluster[s]["deployment"] # NoObject => ~ watching' \/ podEvent'
  PROVE  ServiceInv(s, View(s)')
<1>1. PICK v : v = View(s)
  OBVIOUS
<1>2. PICK w : w = View(s)'
  OBVIOUS
<1>3. ServiceInv(s, v)
  BY <1>1 DEF SettleInv, SettledInv
<1>4. /\ w.specs = v.specs /\ w.dropped = v.dropped /\ w.tasks = v.tasks /\ w.objects = v.objects
      /\ w.excused = v.excused /\ w.actor = v.actor
  BY <1>1, <1>2, ViewIs
<1>5. Noticed(v) => Noticed(w)
  BY <1>1, <1>2, ViewIs DEF Noticed
<1> QED BY <1>2, <1>3, <1>4, <1>5, Unaffected

\* The rest of the tasks, and what Proceed records.
LEMMA ProceedIs ==
  ASSUME TypeOK, NEW s \in Services, NEW k \in Slots, NEW n \in Controller, NEW reasons, Proceed(s, k, n, reasons)
  PROVE  /\ \A r \in Services \ {s} : controllers'[r] = controllers[r] /\ excused'[r] = excused[r]
         /\ controllers'[s][k] = Ended(n)
         /\ \A j \in Slots \ {k} : controllers'[s][j] = controllers[s][j]
         /\ \/ excused'[s] = excused[s] \cup reasons
            \/ n.todo = {} /\ n.held /\ n.clean
         /\ excused'[s] = {} /\ Blocked(s, cluster'[s]) => excused[s] = {}
  <1>0. controllers \in Tasks /\ excused \in [Services -> SUBSET {"failure", "race", "stray", "blocked"}]
    BY TypeIs
  <1>1. Ended(n) \in Controller
    BY EndedType
  <1>2. Replace(s, k, Ended(n))
    BY DEF Proceed
  <1>3. /\ controllers'[s][k] = Ended(n)
        /\ \A j \in Slots \ {k} : controllers'[s][j] = controllers[s][j]
    BY <1>0, <1>1, <1>2, ReplaceIs
  <1>4. \A r \in Services \ {s} : controllers'[r] = controllers[r]
    BY <1>0, <1>2 DEF Replace, Tasks
  <1>5. excused' = [excused EXCEPT ![s] =
          IF ~ (n.todo = {} /\ n.held /\ n.clean) THEN excused[s] \cup reasons
          ELSE IF excused[s] # {} /\ Blocked(s, cluster'[s]) THEN {"blocked"} ELSE {}]
    BY DEF Proceed
  <1>6. excused'[s] = IF ~ (n.todo = {} /\ n.held /\ n.clean) THEN excused[s] \cup reasons
                      ELSE IF excused[s] # {} /\ Blocked(s, cluster'[s]) THEN {"blocked"} ELSE {}
    BY <1>0, <1>5
  <1>7. \A r \in Services \ {s} : excused'[r] = excused[r]
    BY <1>0, <1>5
  <1> QED BY <1>3, <1>4, <1>6, <1>7

LEMMA ReconcileSettles ==
  ASSUME SettleInv, ApiInv', NEW s \in Services, NEW k \in Slots, NEW kind \in Kinds,
         ReconcileObject(s, k, kind), NEW r \in Services
  PROVE  ServiceInv(r, View(r)')
<1> DEFINE c == controllers[s][k]
           cur == cluster[s][kind]
           new == Reconciled(kind, cur, s, c)
           written == kind = "deployment" /\ WritesDeployment(cur, s, c)
<1>0. /\ TypeOK /\ c \in Controller /\ cluster \in [Services -> [Kinds -> Object]] /\ cur \in Object
  BY TypeIs DEF SettleInv, ApiInv, ApiTypeOK
<1> HIDE DEF c, cur, new, written
<1>1. /\ c.busy /\ ~ c.removed /\ IsNext(kind, c) /\ kind \in c.todo
      /\ cluster' = [cluster EXCEPT ![s][kind] = new]
      /\ podEvent' = (podEvent \/ (written /\ watching))
      /\ Proceed(s, k, Reconciling(c, s, kind), Race(c, kind, new # cur) \cup Stray(s, written))
      /\ UNCHANGED <<specs, instance, issued, actor, watching, debounced, spent, dropped>>
  <2>1. /\ c.busy /\ ~ c.removed /\ IsNext(kind, c)
        /\ cluster' = [cluster EXCEPT ![s][kind] = new]
        /\ podEvent' = (podEvent \/ (written /\ watching))
        /\ Proceed(s, k, Reconciling(c, s, kind), Race(c, kind, new # cur) \cup Stray(s, written))
        /\ UNCHANGED <<specs, instance, issued, actor, watching, debounced, spent, dropped>>
    BY ReconcileIs, Zenon DEF c, cur, new, written
  <2> QED BY <2>1, NextIs
<1>2. PICK n \in Controller, reasons \in SUBSET Reasons :
        /\ n = Reconciling(c, s, kind)
        /\ Proceed(s, k, n, reasons)
        /\ reasons = Race(c, kind, new # cur) \cup Stray(s, written)
  BY <1>0, <1>1, ReconcilingIs DEF Race, Stray, Reasons
<1>3. /\ SameTask(c, n) /\ (n.busy <=> c.busy) /\ (n.clean <=> c.clean)
      /\ n.todo = c.todo \ Passed(kind, cur = NoObject) /\ n.todo \subseteq c.todo /\ kind \notin n.todo
  BY <1>0, <1>2, ReconcilingIs, PassedIs DEF cur
<1>4. kind = "deployment" => new = Built(kind, s, c)
  BY <1>0, ReconciledType DEF new
<1>5. cluster'[s][kind] = new /\ \A other \in Kinds \ {kind} : cluster'[s][other] = cluster[s][other]
  BY <1>0, <1>1
<1>6. \A x \in Services \ {s} : cluster'[x] = cluster[x]
  BY <1>0, <1>1
<1>7. podEvent => podEvent'
  BY <1>1
<1>8. kind = "deployment" /\ new # cur => written
  BY <1>4 DEF WritesDeployment, written
<1>9. /\ kind # "deployment" /\ ~ c.held /\ new # cur => "race" \in reasons
      /\ kind = "deployment" /\ new # cur /\ s \notin specs.services => "stray" \in reasons
  BY <1>2, <1>8 DEF Race, Stray
<1>10. /\ \A x \in Services \ {s} : controllers'[x] = controllers[x] /\ excused'[x] = excused[x]
       /\ controllers'[s][k] = Ended(n)
       /\ \A j \in Slots \ {k} : controllers'[s][j] = controllers[s][j]
       /\ \/ excused'[s] = excused[s] \cup reasons
          \/ n.todo = {} /\ n.held /\ n.clean
       /\ excused'[s] = {} /\ Blocked(s, cluster'[s]) => excused[s] = {}
  BY <1>0, <1>2, ProceedIs
<1>11. CASE r # s
  BY <1>1, <1>6, <1>7, <1>10, <1>11, Elsewhere
<1>12. CASE r = s
  <2>1. PICK v : v = View(s)
    OBVIOUS
  <2>2. PICK w : w = View(s)'
    OBVIOUS
  <2>3. IsView(s, v) /\ IsView(s, w) /\ ServiceInv(s, v)
    BY <2>1, <2>2, SettleIs
  <2>4. /\ v.tasks[k] = c /\ w.tasks[k] = Ended(n) /\ \A j \in Slots \ {k} : w.tasks[j] = v.tasks[j]
        /\ v.objects[kind] = cur /\ w.objects[kind] = new
        /\ \A other \in Kinds \ {kind} : w.objects[other] = v.objects[other]
        /\ w.specs = v.specs /\ w.dropped = v.dropped /\ w.actor = v.actor /\ w.watching = v.watching
        /\ v.specs = specs
        /\ \/ w.excused = v.excused \cup reasons
           \/ n.todo = {} /\ n.held /\ n.clean
        /\ w.excused = {} /\ Blocked(s, w.objects) => v.excused = {}
    <3>1. UNCHANGED <<specs, dropped, actor, watching>>
      BY <1>1
    <3>2. /\ v.specs = specs /\ w.specs = specs' /\ v.dropped = dropped /\ w.dropped = dropped'
          /\ v.actor = actor /\ w.actor = actor' /\ v.watching = watching /\ w.watching = watching'
          /\ v.objects = cluster[s] /\ w.objects = cluster'[s] /\ v.tasks = controllers[s]
          /\ w.tasks = controllers'[s] /\ v.excused = excused[s] /\ w.excused = excused'[s]
      BY <2>1, <2>2, ViewIs
    <3> QED BY <1>5, <1>10, <3>1, <3>2 DEF c, cur
  <2>5. c.version # 0
    BY <1>1, <2>3, <2>4 DEF ServiceInv, HeldInv, Working
  <2>6. kind = "deployment" => new # NoObject
    BY <1>4, <2>5, BuiltSome
  <2>7. /\ Noticed(v) => Noticed(w)
        /\ kind = "deployment" /\ new # cur => Noticed(w)
    <3>1. /\ v.event = podEvent /\ w.event = podEvent' /\ v.watching = watching
          /\ v.debounced = debounced /\ w.debounced = debounced
      BY <1>1, <2>1, <2>2, ViewIs
    <3>2. v.objects["deployment"] # NoObject => w.objects["deployment"] # NoObject
      BY <2>4, <2>6, KindsAre
    <3>3. kind = "deployment" /\ new # cur /\ watching => podEvent'
      BY <1>1, <1>8
    <3>4. CASE watching
      BY <1>7, <2>4, <3>1, <3>3, <3>4 DEF Noticed
    <3>5. CASE ~ watching
      BY <1>7, <2>4, <2>6, <3>1, <3>2, <3>5 DEF Noticed
    <3> QED BY <3>4, <3>5
  <2>8. ASSUME NEW x \in c.todo \ n.todo, Current(s, v, c)
        PROVE  IsSettled(s, v, x, w.objects[x]) \/ c.cmds # <<>>
    <3>1. CASE x = kind
      BY <1>0, <1>1, <2>3, <2>4, <2>5, <2>8, <3>1, ReconciledSettles DEF new
    <3>2. CASE x # kind
      <4>1. PICK ok : ok <=> cur = NoObject
        OBVIOUS
      <4>2. x \in Passed(kind, ok)
        BY <1>3, <2>8, <4>1 DEF Passed
      <4> QED BY <1>0, <1>1, <2>8, <3>2, <4>2, PassedSettles
    <3> QED BY <3>1, <3>2
  <2>9. c.held => Current(s, v, c)
    BY <2>3, <2>4 DEF ServiceInv, HeldInv
  <2>10. \/ new = cur \/ Current(s, v, c) \/ Excuse(w, kind)
         \/ kind = "deployment" /\ Noticed(w) /\ s \in v.specs.services
    <3> SUFFICES ASSUME new # cur, ~ Current(s, v, c)
                 PROVE  Excuse(w, kind) \/ (kind = "deployment" /\ Noticed(w) /\ s \in v.specs.services)
      OBVIOUS
    <3>1. ~ c.held /\ w.excused = v.excused \cup reasons
      BY <1>3, <2>4, <2>9 DEF SameTask
    <3>2. CASE kind # "deployment"
      BY <1>9, <3>1, <3>2 DEF Excuse
    <3>3. CASE kind = "deployment" /\ s \notin specs.services
      BY <1>9, <3>1, <3>3 DEF Excuse
    <3>4. CASE kind = "deployment" /\ s \in specs.services
      BY <2>4, <2>7, <3>4
    <3> QED BY <3>2, <3>3, <3>4
  <2>11. v.excused \subseteq w.excused \/ (c.held /\ c.clean /\ n.todo = {})
    BY <1>3, <2>4 DEF SameTask
  <2>12. kind \in ServiceKinds /\ new # cur /\ ~ c.held => w.excused # {}
    BY <1>3, <1>9, <2>4 DEF SameTask, ServiceKinds
  <2>13. /\ kind = "laterService" => new # NoObject
         /\ kind = "service" /\ cur # NoObject => new = cur
    BY <1>0, <2>5, ReconciledType, BuiltSome DEF new
  <2>14. OrderInv(s, w)
    <3>1. /\ v.tasks[k].busy /\ IsNext(kind, v.tasks[k]) /\ ~ v.tasks[k].removed
          /\ SameTask(v.tasks[k], n) /\ (n.busy <=> v.tasks[k].busy) /\ n.todo \subseteq v.tasks[k].todo
          /\ n.todo = v.tasks[k].todo \ Passed(kind, v.objects[kind] = NoObject)
      BY <1>1, <1>3, <2>4
    <3>2. /\ kind = "laterService" => w.objects[kind] # NoObject
          /\ kind = "service" /\ v.objects[kind] # NoObject => w.objects[kind] = v.objects[kind]
          /\ v.excused \subseteq w.excused \/ (v.tasks[k].held /\ v.tasks[k].clean /\ n.todo = {})
          /\ kind \in ServiceKinds /\ w.objects[kind] # v.objects[kind] /\ ~ v.tasks[k].held => w.excused # {}
      BY <2>4, <2>11, <2>12, <2>13
    <3> QED BY <2>3, <2>4, <3>1, <3>2, OrderStep
  <2>15. ServiceInv(s, w)
    <3>1. /\ v.tasks[k].busy /\ kind \in v.tasks[k].todo
          /\ SameTask(v.tasks[k], n) /\ (n.busy <=> v.tasks[k].busy) /\ (n.clean <=> v.tasks[k].clean)
          /\ n.todo \subseteq v.tasks[k].todo /\ kind \notin n.todo
      BY <1>1, <1>3, <2>4
    <3>2. \A x \in v.tasks[k].todo \ n.todo : Current(s, v, v.tasks[k]) =>
            IsSettled(s, v, x, w.objects[x]) \/ v.tasks[k].cmds # <<>>
      BY <2>4, <2>8
    <3>3. /\ \/ w.objects[kind] = v.objects[kind] \/ Current(s, v, v.tasks[k]) \/ Excuse(w, kind)
             \/ kind = "deployment" /\ Noticed(w) /\ s \in v.specs.services
          /\ v.excused \subseteq w.excused \/ (v.tasks[k].held /\ v.tasks[k].clean /\ n.todo = {})
      BY <2>4, <2>10, <2>11
    <3> QED BY <2>3, <2>4, <2>7, <2>14, <3>1, <3>2, <3>3, WorkStep
  <2> QED BY <1>12, <2>2, <2>15
<1> QED BY <1>11, <1>12

LEMMA RemoveSettles ==
  ASSUME SettleInv, ApiInv', NEW s \in Services, NEW k \in Slots, NEW kind \in Kinds,
         RemoveObject(s, k, kind), NEW r \in Services
  PROVE  ServiceInv(r, View(r)')
<1> DEFINE c == controllers[s][k]
           cur == cluster[s][kind]
           ended == kind = "deployment" /\ cur # NoObject
<1>0. /\ TypeOK /\ c \in Controller /\ cluster \in [Services -> [Kinds -> Object]] /\ cur \in Object
  BY TypeIs DEF SettleInv, ApiInv, ApiTypeOK
<1> HIDE DEF c, cur, ended
<1>1. /\ c.busy /\ c.removed /\ IsNext(kind, c) /\ kind \in c.todo
      /\ cluster' = [cluster EXCEPT ![s][kind] = NoObject]
      /\ podEvent' = (podEvent \/ (ended /\ watching))
      /\ Proceed(s, k, Removing(c, kind), Race(c, kind, cur # NoObject) \cup Unseen(c, ended))
      /\ UNCHANGED <<specs, instance, issued, actor, watching, debounced, spent, dropped>>
  BY RemoveIs, NextIs DEF c, cur, ended
<1>2. PICK n \in Controller, reasons \in SUBSET Reasons :
        /\ n = Removing(c, kind)
        /\ Proceed(s, k, n, reasons)
        /\ reasons = Race(c, kind, cur # NoObject) \cup Unseen(c, ended)
  BY <1>0, <1>1, RemovingIs DEF Race, Unseen, Reasons
<1>3. /\ SameTask(c, n) /\ (n.busy <=> c.busy) /\ (n.clean <=> c.clean) /\ n.todo = c.todo \ {kind}
      /\ n.todo \subseteq c.todo /\ kind \notin n.todo
  BY <1>0, <1>2, RemovingIs
<1>4. kind = "deployment" /\ cur # NoObject => ended
  BY DEF ended
<1>5. cluster'[s][kind] = NoObject /\ \A other \in Kinds \ {kind} : cluster'[s][other] = cluster[s][other]
  BY <1>0, <1>1
<1>6. \A x \in Services \ {s} : cluster'[x] = cluster[x]
  BY <1>0, <1>1
<1>7. (podEvent => podEvent') /\ (kind = "deployment" /\ cur # NoObject /\ watching => podEvent')
  BY <1>1, <1>4
<1>8. /\ kind # "deployment" /\ ~ c.held /\ cur # NoObject => "race" \in reasons
      /\ kind = "deployment" /\ ~ c.held /\ cur # NoObject /\ ~ watching => "failure" \in reasons
  BY <1>2, <1>4 DEF Race, Unseen
<1>9. /\ \A x \in Services \ {s} : controllers'[x] = controllers[x] /\ excused'[x] = excused[x]
      /\ controllers'[s][k] = Ended(n)
      /\ \A j \in Slots \ {k} : controllers'[s][j] = controllers[s][j]
      /\ \/ excused'[s] = excused[s] \cup reasons
         \/ n.todo = {} /\ n.held /\ n.clean
      /\ excused'[s] = {} /\ Blocked(s, cluster'[s]) => excused[s] = {}
  BY <1>0, <1>2, ProceedIs
<1>10. CASE r # s
  BY <1>1, <1>6, <1>7, <1>9, <1>10, Elsewhere
<1>11. CASE r = s
  <2>1. PICK v : v = View(s)
    OBVIOUS
  <2>2. PICK w : w = View(s)'
    OBVIOUS
  <2>3. IsView(s, v) /\ IsView(s, w) /\ ServiceInv(s, v)
    BY <2>1, <2>2, SettleIs
  <2>4. /\ v.tasks[k] = c /\ w.tasks[k] = Ended(n) /\ \A j \in Slots \ {k} : w.tasks[j] = v.tasks[j]
        /\ v.objects[kind] = cur /\ w.objects[kind] = NoObject
        /\ \A other \in Kinds \ {kind} : w.objects[other] = v.objects[other]
        /\ w.specs = v.specs /\ w.dropped = v.dropped /\ w.actor = v.actor /\ w.watching = v.watching
        /\ \/ w.excused = v.excused \cup reasons
           \/ n.todo = {} /\ n.held /\ n.clean
        /\ w.excused = {} /\ Blocked(s, w.objects) => v.excused = {}
    <3>1. UNCHANGED <<specs, dropped, actor, watching>>
      BY <1>1
    <3>2. /\ v.specs = specs /\ w.specs = specs' /\ v.dropped = dropped /\ w.dropped = dropped'
          /\ v.actor = actor /\ w.actor = actor' /\ v.watching = watching /\ w.watching = watching'
          /\ v.objects = cluster[s] /\ w.objects = cluster'[s] /\ v.tasks = controllers[s]
          /\ w.tasks = controllers'[s] /\ v.excused = excused[s] /\ w.excused = excused'[s]
      BY <2>1, <2>2, ViewIs
    <3> QED BY <1>5, <1>9, <3>1, <3>2 DEF c, cur
  <2>5. /\ v.event = podEvent /\ w.event = podEvent' /\ v.watching = watching
        /\ v.debounced = debounced /\ w.debounced = debounced
    BY <1>1, <2>1, <2>2, ViewIs
  <2>6. Noticed(v) => Noticed(w) \/ (kind = "deployment" /\ w.objects[kind] # v.objects[kind])
    <3>1. CASE kind = "deployment"
      BY <1>7, <2>4, <2>5, <3>1 DEF Noticed
    <3>2. CASE kind # "deployment"
      BY <1>7, <2>4, <2>5, <3>2, KindsAre DEF Noticed
    <3> QED BY <3>1, <3>2
  <2>7. Current(s, v, c) => Gone(s, v)
    BY <1>1 DEF Current
  <2>8. Gone(s, v) => IsSettled(s, v, kind, NoObject)
    BY DEF IsSettled
  <2>9. c.held => Current(s, v, c)
    BY <2>3, <2>4 DEF ServiceInv, HeldInv
  <2>10. \/ cur = NoObject \/ Current(s, v, c) \/ Excuse(w, kind) \/ IsSettled(s, v, kind, NoObject)
         \/ kind = "deployment" /\ Noticed(w) /\ s \in v.specs.services
    <3> SUFFICES ASSUME cur # NoObject, ~ Current(s, v, c), ~ Gone(s, v)
                 PROVE  Excuse(w, kind) \/ (kind = "deployment" /\ Noticed(w) /\ s \in v.specs.services)
      BY <2>8
    <3>1. ~ c.held /\ w.excused = v.excused \cup reasons /\ s \in v.specs.services
      BY <1>3, <2>4, <2>9 DEF SameTask, Gone
    <3>2. CASE kind # "deployment"
      BY <1>8, <3>1, <3>2 DEF Excuse
    <3>3. CASE kind = "deployment" /\ watching
      BY <1>7, <2>5, <3>1, <3>3 DEF Noticed
    <3>4. CASE kind = "deployment" /\ ~ watching
      BY <1>8, <3>1, <3>4 DEF Excuse
    <3> QED BY <3>2, <3>3, <3>4
  <2>11. v.excused \subseteq w.excused \/ (c.held /\ c.clean /\ n.todo = {})
    BY <1>3, <2>4 DEF SameTask
  <2>12. kind \in ServiceKinds /\ cur # NoObject /\ ~ c.held => w.excused # {}
    BY <1>3, <1>8, <2>4 DEF SameTask, ServiceKinds
  <2>13. /\ v.tasks[k].busy /\ kind \in v.tasks[k].todo /\ SameTask(v.tasks[k], n)
         /\ (n.busy <=> v.tasks[k].busy) /\ (n.clean <=> v.tasks[k].clean) /\ n.todo = v.tasks[k].todo \ {kind}
         /\ n.todo \subseteq v.tasks[k].todo /\ IsNext(kind, v.tasks[k]) /\ v.tasks[k].removed /\ kind \notin n.todo
    BY <1>1, <1>3, <2>4
  <2>14. OrderInv(s, w)
    <3>1. /\ v.excused \subseteq w.excused \/ (v.tasks[k].held /\ v.tasks[k].clean /\ n.todo = {})
          /\ kind \in ServiceKinds /\ w.objects[kind] # v.objects[kind] /\ ~ v.tasks[k].held => w.excused # {}
      BY <2>4, <2>11, <2>12
    <3> QED BY <2>3, <2>4, <2>13, <3>1, OrderStep
  <2>15. \A x \in v.tasks[k].todo \ n.todo : Current(s, v, v.tasks[k]) =>
           IsSettled(s, v, x, w.objects[x]) \/ v.tasks[k].cmds # <<>>
    BY <2>4, <2>7, <2>8, <2>13
  <2>16. /\ \/ w.objects[kind] = v.objects[kind] \/ Current(s, v, v.tasks[k]) \/ Excuse(w, kind)
            \/ kind = "deployment" /\ Noticed(w) /\ s \in v.specs.services
            \/ IsSettled(s, v, kind, w.objects[kind])
         /\ v.excused \subseteq w.excused \/ (v.tasks[k].held /\ v.tasks[k].clean /\ n.todo = {})
    BY <2>4, <2>10, <2>11
  <2>17. ServiceInv(s, w)
    BY <2>3, <2>4, <2>6, <2>13, <2>14, <2>15, <2>16, WorkStep
  <2> QED BY <1>11, <2>2, <2>17
<1> QED BY <1>10, <1>11

LEMMA FailSettles ==
  ASSUME SettleInv, ApiInv', NEW s \in Services, NEW k \in Slots, NEW kind \in Kinds,
         CallFails(s, k, kind), NEW r \in Services
  PROVE  ServiceInv(r, View(r)')
<1> DEFINE c == controllers[s][k]
<1>0. TypeOK /\ c \in Controller
  BY TypeIs DEF SettleInv, ApiInv, ApiTypeOK
<1> HIDE DEF c
<1>1. /\ c.busy /\ IsNext(kind, c) /\ Proceed(s, k, Failing(c, kind), {"failure"})
      /\ UNCHANGED <<specs, actor, cluster, watching, podEvent, debounced, dropped>>
  BY FailIs DEF c
<1>2. PICK n \in Controller : n = Failing(c, kind)
  BY <1>0, FailingIs
<1>3. SameTask(c, n) /\ (n.busy <=> c.busy) /\ ~ n.clean /\ n.todo \subseteq c.todo
  BY <1>0, <1>2, FailingIs
<1>4. /\ \A x \in Services \ {s} : controllers'[x] = controllers[x] /\ excused'[x] = excused[x]
      /\ controllers'[s][k] = Ended(n)
      /\ \A j \in Slots \ {k} : controllers'[s][j] = controllers[s][j]
      /\ excused'[s] = excused[s] \cup {"failure"}
  BY <1>0, <1>1, <1>2, <1>3, ProceedIs
<1>5. ASSUME ~ c.removed, "service" \in n.todo, "laterService" \in c.todo PROVE "laterService" \in n.todo
  <2>1. n.todo = c.todo \ Passed(kind, FALSE)
    BY <1>0, <1>2, <1>5, FailingIs
  <2>2. kind \notin ServiceKinds
    BY <1>5, <2>1 DEF Passed, ServiceKinds
  <2>3. Passed(kind, FALSE) = {kind}
    BY <2>2 DEF Passed
  <2> QED BY <1>5, <2>1, <2>2, <2>3 DEF ServiceKinds
<1>6. CASE r # s
  BY <1>1, <1>4, <1>6, Elsewhere
<1>7. CASE r = s
  <2>1. PICK v : v = View(s)
    OBVIOUS
  <2>2. PICK w : w = View(s)'
    OBVIOUS
  <2>3. IsView(s, v) /\ IsView(s, w) /\ ServiceInv(s, v)
    BY <2>1, <2>2, SettleIs
  <2>4. /\ v.tasks[k] = c /\ w.tasks[k] = Ended(n) /\ \A j \in Slots \ {k} : w.tasks[j] = v.tasks[j]
        /\ w.specs = v.specs /\ w.dropped = v.dropped /\ w.actor = v.actor /\ w.objects = v.objects
        /\ "failure" \in w.excused
    BY <1>1, <1>4, <2>1, <2>2, ViewIs DEF c
  <2>5. ServiceInv(s, w)
    BY <1>1, <1>3, <1>5, <2>3, <2>4, FailStep
  <2> QED BY <1>7, <2>2, <2>5
<1> QED BY <1>6, <1>7

LEMMA TakeSettles ==
  ASSUME SettleInv, ApiInv', NEW s \in Services, NEW k \in Slots, TakeCommand(s, k), NEW r \in Services
  PROVE  ServiceInv(r, View(r)')
<1>0. TypeOK /\ controllers \in Tasks /\ controllers[s][k] \in Controller
  BY TypeIs DEF SettleInv, ApiInv, ApiTypeOK
<1>1. PICK removed \in BOOLEAN, todo \in SUBSET Kinds, alone \in BOOLEAN :
        /\ ~ controllers[s][k].busy /\ controllers[s][k].cmds # <<>>
        /\ Replace(s, k, Taken(controllers[s][k], removed, todo, alone))
        /\ removed <=> controllers[s][k].removed \/ Head(controllers[s][k].cmds) = "deprovision"
        /\ todo = IF removed THEN Objects[s] \cap Removable ELSE Objects[s]
        /\ alone => \A j \in Slots \ {k} : controllers[s][j] = Free
        /\ UNCHANGED <<specs, actor, cluster, watching, podEvent, debounced, excused, dropped>>
  BY <1>0, TakeIs
<1>2. PICK n \in Controller : n = Taken(controllers[s][k], removed, todo, alone)
  BY <1>0, <1>1, TakenType
<1>3. /\ controllers'[s][k] = n
      /\ \A j \in Slots \ {k} : controllers'[s][j] = controllers[s][j]
  BY <1>0, <1>1, <1>2, ReplaceIs
<1>4. \A x \in Services \ {s} : controllers'[x] = controllers[x]
  BY <1>0, <1>1 DEF Replace, Tasks
<1>5. CASE r # s
  BY <1>1, <1>4, <1>5, Elsewhere
<1>6. CASE r = s
  <2>1. PICK v : v = View(s)
    OBVIOUS
  <2>2. PICK w : w = View(s)'
    OBVIOUS
  <2>3. IsView(s, v) /\ IsView(s, w) /\ ServiceInv(s, v)
    BY <2>1, <2>2, SettleIs
  <2>4. /\ v.tasks[k] = controllers[s][k] /\ w.tasks[k] = n
        /\ \A j \in Slots \ {k} : w.tasks[j] = v.tasks[j] /\ v.tasks[j] = controllers[s][j]
        /\ w.specs = v.specs /\ w.dropped = v.dropped /\ w.actor = v.actor /\ w.objects = v.objects
        /\ w.watching = v.watching /\ w.event = v.event /\ w.debounced = v.debounced
        /\ w.excused = v.excused
    BY <1>1, <1>3, <2>1, <2>2, ViewIs
  <2>5. IsTaken(s, v.tasks[k], w.tasks[k])
    <3>1. /\ (n.held <=> v.tasks[k].held) /\ n.busy /\ n.todo = todo /\ (n.removed <=> removed)
          /\ n.version = v.tasks[k].version /\ n.instance = v.tasks[k].instance
          /\ IsTold(n) => IsTold(v.tasks[k])
          /\ IsTold(v.tasks[k]) => IsTold(n) \/ Head(v.tasks[k].cmds) = "deprovision"
          /\ Head(v.tasks[k].cmds) = "deprovision" => IsTold(v.tasks[k])
      BY <1>0, <1>1, <1>2, <2>4, TakenType
    <3>2. /\ n.removed <=> v.tasks[k].removed \/ Head(v.tasks[k].cmds) = "deprovision"
          /\ n.removed => n.todo = Objects[s] \cap Removable
          /\ ~ n.removed => n.todo = Objects[s]
      BY <1>1, <2>4, <3>1
    <3> QED BY <2>4, <3>1, <3>2 DEF IsTaken
  <2>6. w.tasks[k].clean => \A j \in Slots \ {k} : v.tasks[j] = Free
    <3>1. n.clean <=> alone
      BY <1>0, <1>1, <1>2, TakenType
    <3> QED BY <1>1, <2>4, <3>1
  <2>7. ~ v.tasks[k].busy /\ v.tasks[k].cmds # <<>>
    BY <1>1, <2>4
  <2>8. ServiceInv(s, w)
    BY <2>3, <2>4, <2>5, <2>6, <2>7, TakeStep
  <2> QED BY <1>6, <2>2, <2>8
<1> QED BY <1>5, <1>6

\* The task that load_controllers starts for a service, and where.
LEMMA LoadedSlot ==
  ASSUME controllers \in Tasks, NEW sp \in KubernetesSpecs, LoadControllers(sp), NEW s \in Services,
         s \in sp.services, NEW new, new = StartController(sp)
  PROVE  \E k \in Slots : /\ controllers'[s][k] = new /\ Release(controllers[s][k]) = Free
                          /\ \A j \in Slots \ {k} : controllers'[s][j] = Release(controllers[s][j])
  <1>1. PICK k \in Slots : /\ controllers'[s][k] = new
                           /\ \A j \in Slots \ {k} : controllers'[s][j] = Release(controllers[s][j])
    BY LoadedIs
  <1>2. \/ controllers'[s][k] = Release(controllers[s][k])
        \/ Release(controllers[s][k]) = Free
    BY LoadedIs
  <1>3. new.held
    BY StartType
  <1>4. ~ Release(controllers[s][k]).held
    BY ReleaseType DEF Tasks
  <1> QED BY <1>1, <1>2, <1>3, <1>4

LEMMA ActivateSettles ==
  ASSUME SettleInv, ApiInv', Activate \/ Activated \/ Deactivate, NEW s \in Services
  PROVE  ServiceInv(s, View(s)')
<1>0. /\ TypeOK /\ controllers \in Tasks /\ specs \in KubernetesSpecs
  BY TypeIs DEF SettleInv, ApiInv, ApiTypeOK
<1>1. PICK v : v = View(s)
  OBVIOUS
<1>2. PICK w : w = View(s)'
  OBVIOUS
<1>3. IsView(s, v) /\ IsView(s, w) /\ ServiceInv(s, v)
  BY <1>1, <1>2, SettleIs
<1>4. UNCHANGED <<specs, cluster, watching, podEvent, debounced, excused, dropped>>
  BY DEF Activate, Activated, Deactivate
<1>5. /\ w.specs = v.specs /\ w.dropped = v.dropped /\ w.objects = v.objects /\ w.excused = v.excused
      /\ w.watching = v.watching /\ w.event = v.event /\ w.debounced = v.debounced
      /\ v.specs = specs /\ v.tasks = controllers[s] /\ w.tasks = controllers'[s]
      /\ v.actor = actor /\ w.actor = actor'
  BY <1>1, <1>2, <1>4, ViewIs
<1>6. ASSUME Activate PROVE ServiceInv(s, w)
  <2>1. LoadControllers(specs)
    BY <1>6 DEF Activate
  <2>2. CASE s \in specs.services
    <3>1. s \in w.specs.services /\ s \notin w.dropped
      BY <1>3, <1>5, <2>2 DEF ServiceInv, HeldInv
    <3>2. PICK new : new = StartController(specs)
      OBVIOUS
    <3>3. PICK k \in Slots : /\ controllers'[s][k] = new /\ Release(controllers[s][k]) = Free
                             /\ \A j \in Slots \ {k} : controllers'[s][j] = Release(controllers[s][j])
      BY <1>0, <2>1, <2>2, <3>2, LoadedSlot
    <3> QED BY <1>3, <1>5, <3>1, <3>2, <3>3, LoadStep
  <2>3. CASE s \notin specs.services
    <3>1. \A k \in Slots : controllers'[s][k] = Release(controllers[s][k])
      BY <1>0, <2>1, <2>3, LoadedIs
    <3> QED BY <1>3, <1>5, <2>3, <3>1, LeaveOutStep
  <2> QED BY <2>2, <2>3
<1>7. ASSUME Activated PROVE ServiceInv(s, w)
  <2>1. UNCHANGED controllers /\ actor = "activating" /\ actor' = "on"
    BY <1>7 DEF Activated
  <2>2. Noticed(v) => Noticed(w)
    BY <1>5 DEF Noticed
  <2> QED BY <1>3, <1>5, <2>1, <2>2, Unaffected
<1>8. ASSUME Deactivate PROVE ServiceInv(s, w)
  <2>1. actor' = "off" /\ controllers' = Released
    BY <1>8 DEF Deactivate
  <2>2. \A k \in Slots : controllers'[s][k] = Release(controllers[s][k])
    BY <1>0, <2>1, ReleasedIs
  <2> QED BY <1>3, <1>5, <2>1, <2>2, ReleaseStep
<1> QED BY <1>2, <1>6, <1>7, <1>8

LEMMA ConfigureSettles ==
  ASSUME SettleInv, ApiInv', NEW spec \in Specification, NEW o \in ConfigureOutcomes, Configure(spec, o),
         NEW s \in Services
  PROVE  ServiceInv(s, View(s)')
<1>0. /\ TypeOK /\ controllers \in Tasks /\ specs \in KubernetesSpecs
  BY TypeIs DEF SettleInv, ApiInv, ApiTypeOK
<1>1. PICK v : v = View(s)
  OBVIOUS
<1>2. PICK w : w = View(s)'
  OBVIOUS
<1>3. IsView(s, v) /\ IsView(s, w) /\ ServiceInv(s, v)
  BY <1>1, <1>2, SettleIs
<1>4. actor = "on" /\ UNCHANGED <<actor, cluster, watching, podEvent, debounced, excused>>
  BY <1>0, ConfigureIs
<1>5. /\ w.objects = v.objects /\ w.excused = v.excused
      /\ v.specs = specs /\ w.specs = specs' /\ v.dropped = dropped /\ w.dropped = dropped'
      /\ v.tasks = controllers[s] /\ w.tasks = controllers'[s]
      /\ v.objects = cluster[s]
  BY <1>1, <1>2, <1>4, ViewIs
<1>6. CASE o \in {"ok", "instance unread"}
  <2>1. PICK sp \in KubernetesSpecs : sp.services = spec.services /\ specs' = sp /\ LoadControllers(sp)
    BY <1>0, <1>6, ConfigureIs
  <2>2. dropped' = (dropped \cup Abandoned) \ sp.services
    BY <1>0, <1>6, <2>1, ConfigureIs
  <2>3. CASE s \in sp.services
    <3>1. s \in w.specs.services /\ s \notin w.dropped /\ w.specs = sp
      BY <1>5, <2>1, <2>2, <2>3
    <3>2. PICK new : new = StartController(sp)
      OBVIOUS
    <3>3. PICK k \in Slots : /\ controllers'[s][k] = new /\ Release(controllers[s][k]) = Free
                             /\ \A j \in Slots \ {k} : controllers'[s][j] = Release(controllers[s][j])
      BY <1>0, <2>1, <2>3, <3>2, LoadedSlot
    <3>4. ServiceInv(s, w)
      BY <1>3, <1>5, <3>1, <3>2, <3>3, LoadStep
    <3> QED BY <1>2, <3>4
  <2>4. s \notin sp.services => \A k \in Slots : controllers'[s][k] = Release(controllers[s][k])
    BY <1>0, <2>1, LoadedIs
  <2>5. CASE s \notin sp.services
    <3>1. \A k \in Slots : w.tasks[k] = Release(v.tasks[k])
      BY <1>5, <2>4, <2>5
    <3>2. s \notin w.specs.services /\ (s \in v.dropped => s \in w.dropped)
      BY <1>5, <2>1, <2>2, <2>5
    <3>3. \/ s \in w.dropped
          \/ s \notin v.specs.services
          \/ /\ v.specs.removed
             /\ \/ v.objects["deployment"] = NoObject
                \/ \E k \in Slots : v.tasks[k].held /\ Pending(v.tasks[k], "deployment")
      <4>1. CASE s \in Abandoned
        BY <1>5, <2>2, <2>5, <4>1
      <4>2. CASE s \notin Abandoned /\ s \in specs.services
        <5>1. specs.removed /\ (cluster[s].deployment = NoObject \/ Attends(s))
          BY <4>2 DEF Abandoned
        <5>2. Attends(s) => \E k \in Slots : v.tasks[k].held /\ Pending(v.tasks[k], "deployment")
          BY <1>5 DEF Attends, Pending
        <5> QED BY <1>5, <5>1, <5>2
      <4>3. CASE s \notin specs.services
        BY <1>5, <4>3
      <4> QED BY <4>1, <4>2, <4>3
    <3>4. ServiceInv(s, w)
      BY <1>3, <1>5, <3>1, <3>2, <3>3, LeaveOutStep
    <3> QED BY <1>2, <3>4
  <2> QED BY <2>3, <2>5
<1>7. CASE o \notin {"ok", "instance unread"}
  <2>1. UNCHANGED <<specs, controllers, dropped>>
    BY <1>0, <1>7, ConfigureIs
  <2> QED BY <1>4, <2>1, Elsewhere
<1> QED BY <1>6, <1>7

\* A command for every controller, from the actor's methods reconcile and deprovision.
LEMMA EnqueueSettles ==
  ASSUME SettleInv, ApiInv', actor = "on", actor' = "on", NEW cmd \in Commands, Enqueue(cmd),
         specs'.services = specs.services, specs'.version = specs.version, specs'.instance = specs.instance,
         NEW s \in Services,
         s \in specs.services /\ cmd = "deprovision" => specs'.removed,
         s \in specs.services /\ cmd # "deprovision" => (specs'.removed <=> specs.removed),
         UNCHANGED <<dropped, cluster, excused>>
  PROVE  ServiceInv(s, View(s)')
<1>0. TypeOK /\ controllers \in Tasks
  BY TypeIs DEF SettleInv, ApiInv, ApiTypeOK
<1>1. PICK v : v = View(s)
  OBVIOUS
<1>2. PICK w : w = View(s)'
  OBVIOUS
<1>3. IsView(s, v) /\ IsView(s, w) /\ ServiceInv(s, v)
  BY <1>1, <1>2, SettleIs
<1>4. /\ w.objects = v.objects /\ w.excused = v.excused /\ w.dropped = v.dropped
      /\ v.specs = specs /\ w.specs = specs' /\ v.actor = "on" /\ w.actor = "on"
      /\ v.tasks = controllers[s] /\ w.tasks = controllers'[s]
  BY <1>1, <1>2, ViewIs
<1>5. \A k \in Slots : /\ v.tasks[k].held => w.tasks[k] = Enqueued(v.tasks[k], cmd)
                       /\ ~ v.tasks[k].held => w.tasks[k] = v.tasks[k]
  BY <1>0, <1>4, EnqueueIs
<1>6. /\ s \in v.specs.services /\ cmd = "deprovision" => w.specs.removed
      /\ s \in v.specs.services /\ cmd # "deprovision" => (w.specs.removed <=> v.specs.removed)
  BY <1>4
<1>7. /\ w.specs.services = v.specs.services /\ w.specs.version = v.specs.version
      /\ w.specs.instance = v.specs.instance /\ v.actor # "off" /\ w.actor # "off"
  BY <1>4
<1>8. ServiceInv(s, w)
  BY <1>3, <1>4, <1>5, <1>6, <1>7, EnqueueStep
<1> QED BY <1>2, <1>8

LEMMA MonitorSettles ==
  ASSUME SettleInv, ApiInv', TakeEvent \/ DrainDebounced \/ InvokeFails, NEW s \in Services
  PROVE  ServiceInv(s, View(s)')
<1>0. TypeOK
  BY DEF SettleInv, ApiInv, ApiTypeOK
<1>1. CASE TakeEvent /\ debounced
  <2>1. UNCHANGED <<specs, dropped, actor, controllers, cluster, watching, excused, debounced>>
    BY <1>1 DEF TakeEvent
  <2> QED BY <1>1, <2>1, Elsewhere
<1>2. CASE (TakeEvent /\ ~ debounced) \/ DrainDebounced
  <2>1. /\ actor = "on" /\ Enqueue("reconcile")
        /\ UNCHANGED <<specs, actor, dropped, cluster, excused>>
    BY <1>2 DEF TakeEvent, DrainDebounced
  <2> QED BY <2>1, CommandType, EnqueueSettles
<1>3. CASE InvokeFails
  <2>1. /\ \/ /\ podEvent /\ ~ debounced /\ ~ podEvent' /\ debounced' /\ UNCHANGED <<excused, controllers>>
           \/ /\ excused' = [x \in Services |-> excused[x] \cup {"failure"}]
              /\ \A x \in Services, k \in Slots : controllers'[x][k] = Soiled(controllers[x][k])
        /\ UNCHANGED <<specs, actor, cluster, watching, dropped>>
    BY <1>0, <1>3, InvokeFailsIs
  <2>2. CASE podEvent /\ ~ debounced /\ ~ podEvent' /\ debounced' /\ UNCHANGED <<excused, controllers>>
    BY <2>1, <2>2, Elsewhere
  <2>3. CASE /\ excused' = [x \in Services |-> excused[x] \cup {"failure"}]
             /\ \A x \in Services, k \in Slots : controllers'[x][k] = Soiled(controllers[x][k])
    <3>1. PICK v : v = View(s)
      OBVIOUS
    <3>2. PICK w : w = View(s)'
      OBVIOUS
    <3>3. IsView(s, v) /\ IsView(s, w) /\ ServiceInv(s, v)
      BY <3>1, <3>2, SettleIs
    <3>4. /\ \A k \in Slots : w.tasks[k] = Soiled(v.tasks[k])
          /\ "failure" \in w.excused /\ v.excused \subseteq w.excused
          /\ w.specs = v.specs /\ w.dropped = v.dropped /\ w.objects = v.objects
          /\ w.actor = v.actor
      BY <2>1, <2>3, <3>1, <3>2, ViewIs
    <3>5. ServiceInv(s, w)
      BY <3>3, <3>4, ForgetStep
    <3> QED BY <3>2, <3>5
  <2> QED BY <2>1, <2>2, <2>3
<1> QED BY <1>1, <1>2, <1>3

LEMMA CrashSettles ==
  ASSUME SettleInv, ApiInv', Crash, NEW s \in Services
  PROVE  ServiceInv(s, View(s)')
<1>1. PICK v : v = View(s)
  OBVIOUS
<1>2. PICK w : w = View(s)'
  OBVIOUS
<1>3. IsView(s, v) /\ IsView(s, w) /\ ServiceInv(s, v)
  BY <1>1, <1>2, SettleIs
<1>4. /\ actor' = "off" /\ UNCHANGED <<specs, dropped, cluster>> /\ ~ watching'
      /\ controllers' = [x \in Services |-> [k \in Slots |-> Free]]
      /\ excused' = IF Idle THEN excused ELSE [x \in Services |-> excused[x] \cup {"failure"}]
  BY DEF Crash
<1>5. /\ \A k \in Slots : w.tasks[k] = Free
      /\ w.specs = v.specs /\ w.dropped = v.dropped /\ w.objects = v.objects
      /\ w.actor = "off"
  <2>1. controllers'[s] = [k \in Slots |-> Free]
    BY <1>4
  <2>2. actor' = "off" /\ UNCHANGED <<specs, dropped, cluster>>
    BY <1>4
  <2> QED BY <1>1, <1>2, <2>1, <2>2, ViewIs
<1>6. \/ "failure" \in w.excused
      \/ /\ w.excused = v.excused /\ (Noticed(v) => Noticed(w))
         /\ \A k \in Slots : ~ Working(v.tasks[k])
  <2>1. CASE Idle
    <3>1. w.excused = v.excused
      BY <1>1, <1>2, <1>4, <2>1, ViewIs
    <3>2. \A k \in Slots : ~ Working(v.tasks[k])
      BY <1>1, <2>1, ViewIs DEF Idle
    <3>3. Noticed(v) => Noticed(w)
      <4>1. ~ v.event /\ ~ v.debounced
        BY <1>1, <2>1, ViewIs DEF Idle
      <4>2. ~ w.watching
        BY <1>2, <1>4, ViewIs
      <4> QED BY <1>5, <4>1, <4>2 DEF Noticed
    <3> QED BY <3>1, <3>2, <3>3
  <2>2. CASE ~ Idle
    BY <1>2, <1>4, <2>2, ViewIs
  <2> QED BY <2>1, <2>2
<1>7. ServiceInv(s, w)
  BY <1>3, <1>5, <1>6, CrashStep
<1> QED BY <1>2, <1>7

LEMMA OutsideSettles ==
  ASSUME SettleInv, ApiInv', NEW x \in Services, DeleteOutside(x), NEW s \in Services
  PROVE  ServiceInv(s, View(s)')
<1>0. /\ TypeOK /\ cluster \in [Services -> [Kinds -> Object]]
      /\ excused \in [Services -> SUBSET {"failure", "race", "stray", "blocked"}]
  BY TypeIs DEF SettleInv, ApiInv, ApiTypeOK
<1>1. /\ cluster' = [cluster EXCEPT ![x]["deployment"] = NoObject]
      /\ UNCHANGED <<specs, dropped, actor, watching, debounced>>
      /\ podEvent => podEvent'
      /\ watching => podEvent' /\ UNCHANGED <<controllers, excused>>
      /\ ~ watching =>
           /\ excused' = [excused EXCEPT ![x] = excused[x] \cup {"failure"}]
           /\ \A k \in Slots : controllers'[x][k] = Soiled(controllers[x][k])
           /\ \A y \in Services \ {x} : controllers'[y] = controllers[y]
  BY <1>0, OutsideIs
<1>2. CASE s # x
  <2>1. cluster'[s] = cluster[s] /\ controllers'[s] = controllers[s] /\ excused'[s] = excused[s]
    BY <1>0, <1>1, <1>2
  <2> QED BY <1>1, <2>1, Elsewhere
<1>3. CASE s = x
  <2>1. PICK v : v = View(s)
    OBVIOUS
  <2>2. PICK w : w = View(s)'
    OBVIOUS
  <2>3. IsView(s, v) /\ IsView(s, w) /\ ServiceInv(s, v)
    BY <2>1, <2>2, SettleIs
  <2>4. /\ cluster'[s]["deployment"] = NoObject
        /\ \A kind \in Kinds \ {"deployment"} : cluster'[s][kind] = cluster[s][kind]
    BY <1>0, <1>1, <1>3, KindsAre
  <2>5. /\ w.specs = v.specs /\ w.dropped = v.dropped /\ w.actor = v.actor
        /\ w.objects["deployment"] = NoObject
        /\ \A kind \in Kinds \ {"deployment"} : w.objects[kind] = v.objects[kind]
    <3>1. UNCHANGED <<specs, dropped, actor>>
      BY <1>1
    <3>2. /\ v.specs = specs /\ w.specs = specs' /\ v.dropped = dropped /\ w.dropped = dropped'
          /\ v.actor = actor /\ w.actor = actor' /\ v.objects = cluster[s] /\ w.objects = cluster'[s]
      BY <2>1, <2>2, ViewIs
    <3> QED BY <2>4, <3>1, <3>2
  <2>6. CASE watching
    <3>1. w.tasks = v.tasks /\ w.excused = v.excused /\ w.event
      <4>1. podEvent' /\ UNCHANGED <<controllers, excused>>
        BY <1>1, <2>6
      <4>2. /\ v.tasks = controllers[s] /\ w.tasks = controllers'[s] /\ v.excused = excused[s]
            /\ w.excused = excused'[s] /\ w.event = podEvent'
        BY <2>1, <2>2, ViewIs
      <4> QED BY <4>1, <4>2
    <3>2. ServiceInv(s, w)
      BY <2>3, <2>5, <3>1, DeletedStep
    <3> QED BY <2>2, <3>2
  <2>7. CASE ~ watching
    <3>1. "failure" \in excused'[s] /\ excused[s] \subseteq excused'[s]
      BY <1>0, <1>1, <1>3, <2>7
    <3>2. /\ \A k \in Slots : w.tasks[k] = Soiled(v.tasks[k])
          /\ "failure" \in w.excused /\ v.excused \subseteq w.excused
      BY <1>1, <1>3, <2>1, <2>2, <2>7, <3>1, ViewIs
    <3>3. ServiceInv(s, w)
      BY <2>3, <2>5, <3>2, ForgetStep
    <3> QED BY <2>2, <3>3
  <2> QED BY <2>6, <2>7
<1> QED BY <1>2, <1>3

\* The watch of the pods begins and ends, and has events.
LEMMA WatchSettles ==
  ASSUME SettleInv, StartWatch \/ WatchFails \/ PodChanges, NEW s \in Services
  PROVE  ServiceInv(s, View(s)')
<1>1. UNCHANGED <<specs, dropped, actor, controllers, cluster, excused, debounced>>
  BY DEF StartWatch, WatchFails, PodChanges
<1>2. ~ watching /\ cluster[s]["deployment"] # NoObject => ~ watching' \/ podEvent'
  BY DEF StartWatch, WatchFails, PodChanges
<1>3. podEvent => podEvent'
  BY Zenon DEF StartWatch, WatchFails, PodChanges
<1> QED BY <1>1, <1>2, <1>3, Elsewhere

LEMMA DeprovisionSettles ==
  ASSUME SettleInv, ApiInv', NEW o \in DeprovisionOutcomes, Deprovision(o), NEW s \in Services
  PROVE  ServiceInv(s, View(s)')
<1>0. TypeOK
  BY DEF SettleInv, ApiInv, ApiTypeOK
<1>1. actor = "on" /\ UNCHANGED <<actor, cluster, watching, podEvent, debounced, excused, dropped>>
  BY <1>0, DeprovisionIs
<1>2. CASE o \in {"ok", "instance kept"}
  <2>1. /\ specs'.services = specs.services /\ specs'.version = specs.version /\ specs'.instance = specs.instance
        /\ (specs'.removed <=> specs.services # {}) /\ Enqueue("deprovision")
    BY <1>0, <1>2, DeprovisionIs
  <2>2. s \in specs.services => specs'.removed
    BY <2>1
  <2> QED BY <1>1, <2>1, <2>2, CommandType, EnqueueSettles
<1>3. CASE o \notin {"ok", "instance kept"}
  <2>1. UNCHANGED <<specs, controllers>>
    BY <1>0, <1>3, DeprovisionIs
  <2> QED BY <1>1, <2>1, Elsewhere
<1> QED BY <1>2, <1>3

LEMMA NothingSettles ==
  ASSUME SettleInv, UNCHANGED providerState, NEW s \in Services
  PROVE  ServiceInv(s, View(s)')
  <1>1. UNCHANGED <<specs, dropped, actor, controllers, cluster, watching, excused, podEvent, debounced>>
    BY DEF providerState
  <1> QED BY <1>1, Elsewhere

LEMMA SettleStep ==
  ASSUME SettleInv, ApiInv', Next
  PROVE  SettledInv'
<1>0. /\ requests \subseteq Request
  BY DEF SettleInv, ApiInv, ApiTypeOK
<1> SUFFICES ASSUME NEW s \in Services PROVE ServiceInv(s, View(s)')
  BY Settles
<1>1. CASE Internal
  <2>1. ASSUME NEW x \in Services, NEW k \in Slots, TakeCommand(x, k) PROVE ServiceInv(s, View(s)')
    BY <2>1, TakeSettles
  <2>2. ASSUME NEW x \in Services, NEW k \in Slots, NEW kind \in Kinds,
               ReconcileObject(x, k, kind) \/ RemoveObject(x, k, kind) \/ CallFails(x, k, kind)
        PROVE  ServiceInv(s, View(s)')
    BY <2>2, ReconcileSettles, RemoveSettles, FailSettles
  <2>3. ASSUME NEW x \in Services, DeleteOutside(x) PROVE ServiceInv(s, View(s)')
    BY <2>3, OutsideSettles
  <2>4. CASE Activate \/ Activated \/ Deactivate
    BY <2>4, ActivateSettles
  <2>5. CASE TakeEvent \/ DrainDebounced \/ InvokeFails
    BY <2>5, MonitorSettles
  <2>6. CASE Crash
    BY <2>6, CrashSettles
  <2>7. CASE StartWatch \/ WatchFails \/ PodChanges
    BY <2>7, WatchSettles
  <2> QED BY <1>1, <2>1, <2>2, <2>3, <2>4, <2>5, <2>6, <2>7 DEF Internal
<1>2. CASE BeginSet \/ BeginDelete \/ SetProvider
  BY <1>2, NothingSettles DEF BeginSet, BeginDelete, SetProvider
<1>3. ASSUME NEW r \in requests, StoreSpec(r) \/ EraseSpec(r) \/ RequestFails(r) PROVE ServiceInv(s, View(s)')
  BY <1>3, NothingSettles DEF StoreSpec, EraseSpec, RequestFails, providerVars
<1>4. ASSUME NEW r \in requests, NEW o \in ConfigureOutcomes, CallConfigure(r, o) PROVE ServiceInv(s, View(s)')
  <2>1. PICK spec \in Specification : spec = r.spec
    BY <1>0, RequestFields
  <2> QED BY <1>4, <2>1, ConfigureSettles DEF CallConfigure
<1>5. ASSUME NEW r \in requests, NEW o \in DeprovisionOutcomes, CallDeprovision(r, o) PROVE ServiceInv(s, View(s)')
  BY <1>5, DeprovisionSettles DEF CallDeprovision
<1> QED BY <1>1, <1>2, <1>3, <1>4, <1>5, InternalIs DEF RequestStep

LEMMA SettleStart == Init => SettledInv
  <1> SUFFICES ASSUME Init, NEW s \in Services PROVE ServiceInv(s, View(s))
    BY DEF SettledInv
  <1>1. PICK v : v = View(s)
    OBVIOUS
  <1>2. /\ v.specs = NoSpecs /\ v.actor = "off" /\ v.dropped = {}
        /\ \A k \in Slots : v.tasks[k] = Free
        /\ \A kind \in Kinds : v.objects[kind] = NoObject
    <2>1. /\ specs = NoSpecs /\ actor = "off" /\ dropped = {}
          /\ controllers = [x \in Services |-> [k \in Slots |-> Free]]
          /\ cluster = [x \in Services |-> [k \in Kinds |-> NoObject]]
      BY DEF Init, ProviderInit
    <2>2. /\ controllers[s] = [k \in Slots |-> Free] /\ cluster[s] = [k \in Kinds |-> NoObject]
      BY <2>1
    <2>3. /\ v.specs = specs /\ v.actor = actor /\ v.dropped = dropped
          /\ v.tasks = controllers[s] /\ v.objects = cluster[s]
      BY <1>1, ViewIs
    <2> QED BY <2>1, <2>2, <2>3
  <1>3. Gone(s, v) /\ s \notin v.specs.services /\ Objects[s] \subseteq Kinds
    BY <1>2, ConstantsType DEF Gone, NoSpecs
  <1>4. \A k \in Slots : ~ v.tasks[k].held /\ ~ Working(v.tasks[k])
    BY <1>2, FreeType
  <1>5. HeldInv(s, v)
    BY <1>3, <1>4 DEF HeldInv
  <1>6. KindInv(s, v)
    BY <1>2, <1>3 DEF KindInv, KindSettled, IsSettled
  <1>7. CleanInv(s, v)
    BY <1>4 DEF CleanInv
  <1>8. OrderInv(s, v)
    <2>1. \A k \in Slots : ~ v.tasks[k].busy
      BY <1>2, FreeType
    <2>2. ~ Blocked(s, v.objects)
      BY <1>2, BlockedIs, KindsAre
    <2> QED BY <1>4, <2>1, <2>2 DEF OrderInv
  <1> QED BY <1>1, <1>5, <1>6, <1>7, <1>8 DEF ServiceInv

\* When nothing is under way nobody is left who would still see to an object.
LEMMA QuietSettled ==
  ASSUME SettleInv
  PROVE  SettledWhenQuiet
<1> SUFFICES ASSUME Quiet, NEW s \in Services
             PROVE  /\ excused[s] \subseteq {"race", "blocked"} => DeploymentSettled(s)
                    /\ excused[s] \subseteq {"blocked"} => OthersSettled(s)
  BY DEF SettledWhenQuiet
<1>1. PICK v : v = View(s)
  OBVIOUS
<1>2. ServiceInv(s, v)
  BY <1>1 DEF SettleInv, SettledInv
<1>3. /\ v.specs = specs /\ v.tasks = controllers[s] /\ v.objects = cluster[s]
      /\ v.excused = excused[s] /\ v.dropped = dropped
  BY <1>1, ViewIs
<1>4. ~ Noticed(v)
  BY <1>1, ViewIs DEF Noticed, Quiet, Idle
<1>5. \A kind : ~ Attended(s, v, kind) /\ \A k \in Slots : ~ Pending(v.tasks[k], kind)
  BY <1>3, NotPending DEF Attended, Quiet, Idle
<1>6. \A kind \in Objects[s] : Excuse(v, kind) \/ KindSettled(s, v, kind)
  BY <1>2, <1>4, <1>5 DEF ServiceInv, KindInv
<1>7. s \in specs.services => s \notin dropped
  BY <1>2, <1>3 DEF ServiceInv, HeldInv
<1>8. Gone(s, v) <=> s \notin specs.services \/ specs.removed
  BY <1>3 DEF Gone
<1>9. ASSUME excused[s] \subseteq {"race", "blocked"} PROVE DeploymentSettled(s)
  <2>1. ~ Excuse(v, "deployment")
    BY <1>3, <1>9 DEF Excuse
  <2>2. KindSettled(s, v, "deployment")
    BY <1>6, <2>1, ConstantsType
  <2>3. /\ Gone(s, v) => s \in dropped \/ cluster[s]["deployment"] = NoObject
        /\ ~ Gone(s, v) => cluster[s]["deployment"] = Built("deployment", s, specs)
    BY <1>3, <2>2, KindsAre DEF KindSettled, IsSettled
  <2> QED BY <1>7, <1>8, <2>3 DEF DeploymentSettled
<1>10. ASSUME excused[s] \subseteq {"blocked"} PROVE OthersSettled(s)
  <2> SUFFICES ASSUME NEW kind \in Objects[s] \ {"deployment"}
               PROVE  IF s \notin specs.services
                        THEN s \in dropped \/ kind \notin Removable \/ cluster[s][kind] = NoObject
                      ELSE IF specs.removed THEN kind \in Removable => cluster[s][kind] = NoObject
                      ELSE IF kind = "laterService"
                        THEN "blocked" \in excused[s] \/ cluster[s][kind] # NoObject
                      ELSE IF kind \in {"claim", "service"} THEN cluster[s][kind] # NoObject
                      ELSE cluster[s][kind] = Built(kind, s, specs)
    BY DEF OthersSettled
  <2>1. \A x \in Objects[s] \ {"deployment"} : KindSettled(s, v, x)
    BY <1>3, <1>6, <1>10 DEF Excuse
  <2>2. ASSUME kind = "laterService", ~ Gone(s, v), "blocked" \notin excused[s] PROVE cluster[s][kind] # NoObject
    <3>1. "service" \in Objects[s] \ {"deployment"} /\ v.excused = {}
      BY <1>3, <1>10, <2>2, LaterIs
    <3>2. v.objects["service"] # NoObject
      BY <2>1, <2>2, <3>1 DEF KindSettled, IsSettled
    <3>3. \A k \in Slots : ~ Creating(v.tasks[k])
      BY <1>3 DEF Creating, Quiet, Idle, Working
    <3>4. ~ Blocked(s, v.objects)
      BY <1>2, <3>1, <3>3 DEF ServiceInv, OrderInv
    <3> QED BY <1>3, <2>2, <3>2, <3>4, BlockedIs
  <2> QED BY <1>3, <1>7, <1>8, <2>1, <2>2 DEF KindSettled, IsSettled
<1> QED BY <1>9, <1>10

\* Whenever the provider is at rest and watches its pods, the Deployments and the other objects
\* in the cluster are those of the specification that the actor persisted, but for what a failed
\* call, a replaced controller, a Deployment removed while nobody watched, or a first Service
\* that keeps the others from being made may have left: replaced tasks that go on beside the new
\* ones, deactivations and crashes, watches that end and begin again, and debounced events do
\* not lose a reconciliation.  (actors/mod.rs, monitor/mod.rs, reconciler.rs)
THEOREM ReconciliationIsComplete == Spec => []SettledWhenQuiet
  <1>1. Init => SettleInv
    BY ApiStart, SettleStart DEF SettleInv
  <1>2. SettleInv /\ [Next]_vars => SettleInv'
    <2> SUFFICES ASSUME SettleInv, [Next]_vars PROVE SettleInv'
      OBVIOUS
    <2>1. CASE Next
      <3>1. ApiInv'
        BY <2>1, ApiStep DEF SettleInv
      <3> QED BY <2>1, <3>1, SettleStep DEF SettleInv
    <2>2. CASE UNCHANGED vars
      <3>1. ApiInv' /\ UNCHANGED providerState
        BY <2>2, ApiStutter DEF SettleInv, vars, providerVars
      <3>2. SettledInv'
        BY <3>1, NothingSettles, Settles
      <3> QED BY <3>1, <3>2 DEF SettleInv
    <2> QED BY <2>1, <2>2
  <1>3. SettleInv => SettledWhenQuiet
    BY QuietSettled
  <1> QED BY <1>1, <1>2, <1>3, PTL DEF Spec

=============================================================================
