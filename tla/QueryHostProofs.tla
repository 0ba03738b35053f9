-------------------------- MODULE QueryHostProofs --------------------------
(***************************************************************************)
(* Proofs about QueryHost, for every set of worker and lifecycle slots and *)
(* every bound.                                                            *)
(***************************************************************************)
EXTENDS QueryHost, TLAPS

\* A step of the specification is a step of the state proper.
LEMMA NextIsStep ==
  ASSUME [Next]_vars PROVE [Step]_stateVars
  BY DEF Next, vars

\* What the helpers of the worker do to the types.
LEMMA GotoType ==
  ASSUME TypeOK, NEW w \in Workers, NEW pc \in WorkerPc, Goto(w, pc)
  PROVE  /\ wpc' \in [Workers -> WorkerPc] /\ cmds' \in [Workers -> Seq(Command)]
         /\ owner' \in [Workers -> Lifecycles]
  BY DEF TypeOK, Goto

LEMMA FinishType ==
  ASSUME TypeOK, NEW w \in Workers, Finish(w)
  PROVE  /\ wpc' \in [Workers -> WorkerPc] /\ cmds' \in [Workers -> Seq(Command)]
         /\ owner' \in [Workers -> Lifecycles]
  BY DEF TypeOK, Finish, WorkerPc

LEMMA ChangeStateType ==
  ASSUME TypeOK, NEW l \in Lifecycles, NEW s \in QueryState, ChangeState(l, s)
  PROVE  /\ lifecycle' \in [Lifecycles -> QueryState]
         /\ dirty' \in BOOLEAN /\ saving' \in QueryState \cup {NoStatus}
  BY DEF TypeOK, ChangeState

LEMMA FailType ==
  ASSUME TypeOK, NEW kind, Fail(kind)
  PROVE  faults' \in Nat /\ crashes' \in Nat /\ configures' \in Nat /\ deletes' \in Nat
  BY DEF TypeOK, Fail

LEMMA SetIndexType ==
  ASSUME TypeOK, NEW w \in Workers, NEW s \in IndexState, SetIndex(w, s)
  PROVE  index' \in [Workers -> IndexState]
  BY DEF TypeOK, SetIndex

LEMMA StartWorkerType ==
  ASSUME TypeOK, NEW l \in Lifecycles, StartWorker(l)
  PROVE  /\ wpc' \in [Workers -> WorkerPc] /\ cmds' \in [Workers -> Seq(Command)]
         /\ owner' \in [Workers -> Lifecycles] /\ worker' \in Workers \cup {NoWorker}
  BY DEF TypeOK, StartWorker, WorkerPc

LEMMA WorkerStepType ==
  ASSUME TypeOK, NEW w \in Workers, WorkerStep(w)
  PROVE  TypeOK'
  <1> USE DEF actorVars, lifeVars, taskVars, durable, outside, bounds
  <1>o. owner[w] \in Lifecycles
    BY DEF TypeOK
  <1>t. {"Configured", "Bootstrapping", "Running", "TerminalError", "TransientError"}
          \subseteq QueryState
    BY DEF QueryState
  <1>p. {"view", "seq", "clear", "subscribe", "load", "stream", "loop", "del_index",
         "del_sub", "del_view", "stopped"} \subseteq WorkerPc
    BY DEF WorkerPc
  <1>x. {"empty", "partial", "loaded"} \subseteq IndexState
    BY DEF IndexState
  <1>1. CASE Prepare(w)
    BY <1>1, <1>o, <1>t, <1>p, <1>x, GotoType, FinishType, ChangeStateType, FailType, SetIndexType
       DEF Prepare, GiveUp, TypeOK
  <1>2. CASE ConfigureView(w)
    BY <1>2, <1>o, <1>t, <1>p, <1>x, GotoType, FinishType, ChangeStateType, FailType
       DEF ConfigureView, GiveUp, TypeOK
  <1>3. CASE StartSequence(w)
    BY <1>3, <1>o, <1>t, <1>p, <1>x, GotoType, FinishType, ChangeStateType, FailType
       DEF StartSequence, GiveUp, TypeOK
  <1>4. CASE ClearIndexes(w)
    BY <1>4, <1>o, <1>t, <1>p, <1>x, GotoType, FinishType, ChangeStateType, FailType, SetIndexType
       DEF ClearIndexes, GiveUp, TypeOK
  <1>5. CASE SubscribeSources(w)
    BY <1>5, <1>o, <1>t, <1>p, <1>x, GotoType, FinishType, ChangeStateType, FailType, SetIndexType
       DEF SubscribeSources, GiveUp, TypeOK
  <1>6. CASE LoadInitialData(w)
    BY <1>6, <1>o, <1>t, <1>p, <1>x, GotoType, FinishType, ChangeStateType, FailType, SetIndexType
       DEF LoadInitialData, GiveUp, TypeOK
  <1>7. CASE OpenStream(w)
    BY <1>7, <1>o, <1>t, <1>p, <1>x, GotoType, FinishType, ChangeStateType, FailType
       DEF OpenStream, GiveUp, TypeOK
  <1>8. CASE HandleCommand(w)
    BY <1>8, <1>p DEF HandleCommand, TypeOK
  <1>9. CASE ProcessFails(w)
    BY <1>9, <1>o, <1>t, <1>p, GotoType, ChangeStateType, FailType
       DEF ProcessFails, TypeOK
  <1>10. CASE DeleteIndex(w)
    BY <1>10, <1>p, <1>x, GotoType, FailType, SetIndexType DEF DeleteIndex, TypeOK
  <1>11. CASE DeleteSubscription(w)
    BY <1>11, <1>p, GotoType, FailType DEF DeleteSubscription, TypeOK
  <1>12. CASE DeleteView(w)
    BY <1>12, <1>p, GotoType, FailType DEF DeleteView, TypeOK
  <1>13. CASE Stop(w)
    BY <1>13, FinishType DEF Stop, TypeOK
  <1> QED
    BY <1>1, <1>2, <1>3, <1>4, <1>5, <1>6, <1>7, <1>8, <1>9, <1>10, <1>11, <1>12, <1>13
       DEF WorkerStep

\* on_activate and init_worker, which several handlers share.
LEMMA ActivateType ==
  ASSUME TypeOK, NEW pc \in ActorPc, Activate(pc)
  PROVE  TypeOK'
  <1> USE DEF actorVars, lifeVars, taskVars, durable, outside, bounds
  <1>1. PICK l \in Lifecycles : current' = l /\ Resume(l)
    BY DEF Activate
  <1>2. actor' \in ActorPc /\ config' \in BOOLEAN /\ current' \in Lifecycles
    BY <1>1 DEF Activate, TypeOK
  <1>3. lifecycle' \in [Lifecycles -> QueryState]
    <2>1. "TerminalError" \in QueryState
      BY DEF QueryState
    <2> QED
      BY <1>1, <2>1 DEF Resume, TypeOK
  <1>d. dirty' \in BOOLEAN
    BY <1>1 DEF Resume, TypeOK
  <1>4. /\ wpc' \in [Workers -> WorkerPc] /\ cmds' \in [Workers -> Seq(Command)]
        /\ owner' \in [Workers -> Lifecycles] /\ worker' \in Workers \cup {NoWorker}
    BY <1>1, StartWorkerType DEF Resume, TypeOK
  <1>r. reminder' \in BOOLEAN
    BY <1>1 DEF Resume, TypeOK
  <1>5. faults' \in Nat /\ crashes' \in Nat /\ configures' \in Nat /\ deletes' \in Nat
    BY <1>1, FailType DEF Resume, TypeOK
  <1>6. UNCHANGED <<saving, pStatus, pConfig, outside>>
    BY DEF Activate
  <1> QED
    BY <1>2, <1>3, <1>d, <1>4, <1>r, <1>5, <1>6 DEF TypeOK

LEMMA InitWorkerType ==
  ASSUME TypeOK, InitWorker
  PROVE  /\ wpc' \in [Workers -> WorkerPc] /\ cmds' \in [Workers -> Seq(Command)]
         /\ owner' \in [Workers -> Lifecycles] /\ worker' \in Workers \cup {NoWorker}
         /\ lifecycle' \in [Lifecycles -> QueryState]
         /\ dirty' \in BOOLEAN /\ saving' \in QueryState \cup {NoStatus}
  <1> USE DEF lifeVars, taskVars
  <1>1. current \in Lifecycles /\ "TerminalError" \in QueryState
    BY DEF TypeOK, QueryState
  <1> QED
    BY <1>1, StartWorkerType, ChangeStateType DEF InitWorker, TypeOK

LEMMA DiscardWorkerType ==
  ASSUME TypeOK, DiscardWorker
  PROVE  /\ wpc' \in [Workers -> WorkerPc] /\ cmds' \in [Workers -> Seq(Command)]
         /\ owner' \in [Workers -> Lifecycles] /\ worker' \in Workers \cup {NoWorker}
         /\ faults' \in Nat /\ crashes' \in Nat /\ configures' \in Nat /\ deletes' \in Nat
  <1>1. <<"Delete", "Shutdown">> \in Seq(Command)
    BY DEF Command
  <1>2. \A w \in Workers : cmds[w] \o <<"Delete", "Shutdown">> \in Seq(Command)
    BY <1>1 DEF TypeOK
  <1> QED
    BY <1>2 DEF DiscardWorker, TypeOK

LEMMA LeaveType ==
  ASSUME TypeOK, Leave
  PROVE  /\ actor' \in ActorPc /\ config' \in BOOLEAN /\ worker' \in Workers \cup {NoWorker}
         /\ current' \in Lifecycles /\ lifecycle' \in [Lifecycles -> QueryState]
         /\ dirty' \in BOOLEAN /\ saving' \in QueryState \cup {NoStatus}
         /\ pStatus' \in QueryState /\ reminder' \in BOOLEAN
         /\ index' \in [Workers -> IndexState] /\ subscribed' \in BOOLEAN /\ view' \in BOOLEAN
  BY DEF TypeOK, Leave, ActorPc, outside

LEMMA ActorStepType ==
  ASSUME TypeOK,
         ReminderDue \/ Configure \/ Deprovision \/ Deactivate \/ HandlerStep
  PROVE  TypeOK'
  <1> USE DEF actorVars, lifeVars, taskVars, durable, outside, bounds
  <1>a. /\ {"idle", "remind", "cfg_persist", "cfg_remind", "cfg_init", "dep_remind",
            "dep_persist", "deact_wait", "deact_remind", "deact_persist"} \subseteq ActorPc
        /\ current \in Lifecycles /\ {"Configured", "Deleted"} \subseteq QueryState
    BY DEF ActorPc, QueryState, TypeOK
  <1>1. CASE ReminderDue
    BY <1>1, <1>a, ActivateType DEF ReminderDue, TypeOK
  <1>2. CASE Configure
    BY <1>2, <1>a, ChangeStateType DEF Configure, TypeOK
  <1>3. CASE Deprovision
    BY <1>3, <1>a, DiscardWorkerType DEF Deprovision, TypeOK
  <1>4. CASE Deactivate
    <2>1. CASE DeactivateTransient
      BY <2>1, <1>a, DiscardWorkerType DEF DeactivateTransient, TypeOK
    <2>2. CASE DeactivateRunning
      <3>1. Append(cmds[worker], "Shutdown") \in Seq(Command)
        BY <2>2 DEF DeactivateRunning, TypeOK, Command, WorkerRunning
      <3>2. cmds' \in [Workers -> Seq(Command)]
        BY <2>2, <3>1 DEF DeactivateRunning, TypeOK
      <3> QED
        BY <2>2, <3>2, <1>a DEF DeactivateRunning, TypeOK
    <2>3. CASE DeactivateIdle
      BY <2>3, LeaveType DEF DeactivateIdle, TypeOK
    <2> QED
      BY <1>4, <2>1, <2>2, <2>3 DEF Deactivate
  <1>5. CASE OnReminder
    BY <1>5, <1>a, InitWorkerType DEF OnReminder, TypeOK
  <1>6. CASE ConfigurePersist
    BY <1>6, <1>a, FailType DEF ConfigurePersist, TypeOK
  <1>7. CASE ConfigureReminder
    BY <1>7, <1>a, FailType DEF ConfigureReminder, TypeOK
  <1>8. CASE ConfigureInit
    BY <1>8, <1>a, InitWorkerType DEF ConfigureInit, TypeOK
  <1>9. CASE DeprovisionReminder
    BY <1>9, <1>a, FailType, ChangeStateType DEF DeprovisionReminder, TypeOK
  <1>10. CASE DeprovisionPersist
    BY <1>10, <1>a, FailType DEF DeprovisionPersist, TypeOK
  <1>11. CASE DeactivateReminder
    BY <1>11, <1>a, FailType, ChangeStateType DEF DeactivateReminder, TypeOK
  <1>12. CASE DeactivatePersist
    BY <1>12, LeaveType, FailType DEF DeactivatePersist, TypeOK
  <1>13. CASE DeactivateWait
    BY <1>13, LeaveType DEF DeactivateWait, TypeOK
  <1> QED
    BY <1>1, <1>2, <1>3, <1>4, <1>5, <1>6, <1>7, <1>8, <1>9, <1>10, <1>11, <1>12, <1>13
       DEF HandlerStep

\* Type correctness: no interleaving of handlers, workers, watcher and crashes
\* writes a value outside the types of the code, in particular no status that
\* read_state could not deserialise.
THEOREM TypeCorrect == Spec => []TypeOK
  <1> USE DEF actorVars, lifeVars, taskVars, durable, outside, bounds
  <1>e. [w \in Workers |-> <<>>] \in [Workers -> Seq(Command)]
    <2>1. <<>> \in Seq(Command)
      OBVIOUS
    <2> QED
      BY <2>1
  <1>f. /\ [l \in Lifecycles |-> "New"] \in [Lifecycles -> QueryState]
        /\ [w \in Workers |-> "none"] \in [Workers -> WorkerPc]
        /\ [w \in Workers |-> "empty"] \in [Workers -> IndexState]
    BY DEF QueryState, WorkerPc, IndexState
  <1>g. "inactive" \in ActorPc /\ "New" \in QueryState
    BY DEF ActorPc, QueryState
  <1>1. Init => TypeOK
    <2> SUFFICES ASSUME Init PROVE TypeOK
      OBVIOUS
    <2>1. cmds \in [Workers -> Seq(Command)]
      BY <1>e DEF Init
    <2>2. /\ lifecycle \in [Lifecycles -> QueryState] /\ wpc \in [Workers -> WorkerPc]
          /\ owner \in [Workers -> Lifecycles] /\ index \in [Workers -> IndexState]
      BY <1>f DEF Init
    <2> QED
      BY <1>g, <2>1, <2>2 DEF Init, TypeOK
  <1>2. TypeOK /\ [Step]_stateVars => TypeOK'
    <2> SUFFICES ASSUME TypeOK, [Step]_stateVars PROVE TypeOK'
      OBVIOUS
    <2>1. CASE \E w \in Workers : WorkerStep(w)
      BY <2>1, WorkerStepType
    <2>2. CASE ActivateOnCall
      <3>1. "idle" \in ActorPc
        BY DEF ActorPc
      <3> QED
        BY <2>2, <3>1, ActivateType DEF ActivateOnCall
    <2>3. CASE ReminderDue \/ Configure \/ Deprovision \/ Deactivate \/ HandlerStep
      BY <2>3, ActorStepType
    <2>4. CASE Watcher
      BY <2>4, FailType DEF Watcher, WatcherTake, WatcherSave, TypeOK
    <2>5. CASE Crash
      <3>1. cmds' \in [Workers -> Seq(Command)]
        BY <2>5, <1>e DEF Crash
      <3>2. /\ lifecycle' \in [Lifecycles -> QueryState] /\ wpc' \in [Workers -> WorkerPc]
            /\ index' \in [Workers -> IndexState]
        BY <2>5, <1>f DEF Crash, TypeOK
      <3>3. pStatus' \in QueryState
        BY <2>5 DEF Crash, TypeOK
      <3>4. /\ actor' \in ActorPc /\ config' \in BOOLEAN
            /\ worker' \in Workers \cup {NoWorker} /\ current' \in Lifecycles
            /\ dirty' \in BOOLEAN /\ saving' \in QueryState \cup {NoStatus}
        BY <2>5, <1>g DEF Crash, TypeOK
      <3>5. /\ owner' \in [Workers -> Lifecycles] /\ pConfig' \in BOOLEAN
            /\ reminder' \in BOOLEAN /\ subscribed' \in BOOLEAN /\ view' \in BOOLEAN
            /\ faults' \in Nat /\ crashes' \in Nat /\ configures' \in Nat /\ deletes' \in Nat
        BY <2>5 DEF Crash, TypeOK
      <3> QED
        BY <3>1, <3>2, <3>3, <3>4, <3>5 DEF TypeOK
    <2>6. CASE UNCHANGED stateVars
      BY <2>6 DEF stateVars, TypeOK
    <2> QED
      BY <2>1, <2>2, <2>3, <2>4, <2>5, <2>6 DEF Step
  <1>3. [Next]_vars => [Step]_stateVars
    BY NextIsStep
  <1> QED
    BY <1>1, <1>2, <1>3, PTL DEF Spec

-----------------------------------------------------------------------------
(***************************************************************************)
(* WorkerOwnership is inductive over well-typed states.  A worker step     *)
(* never makes a stopping worker go on; a handler that takes the worker    *)
(* away from the actor queues a command first; a handler that starts one   *)
(* has found no other.                                                     *)
(***************************************************************************)

\* A worker's own step leaves every other task alone, and cannot turn a worker
\* that is stopping into one that goes on.
LEMMA WorkerStepOwnership ==
  ASSUME TypeOK, WorkerOwnership, NEW w \in Workers, WorkerStep(w)
  PROVE  WorkerOwnership'
  <1>1. UNCHANGED actorVars /\ UNCHANGED owner
    BY DEF WorkerStep, Prepare, ConfigureView, StartSequence, ClearIndexes, SubscribeSources,
           LoadInitialData, OpenStream, HandleCommand, ProcessFails, DeleteIndex,
           DeleteSubscription, DeleteView, Stop, Goto, GiveUp, Finish, actorVars
  <1>2. \A v \in Workers : v # w => wpc'[v] = wpc[v] /\ cmds'[v] = cmds[v]
    BY DEF TypeOK, WorkerStep, Prepare, ConfigureView, StartSequence, ClearIndexes,
           SubscribeSources, LoadInitialData, OpenStream, HandleCommand, ProcessFails,
           DeleteIndex, DeleteSubscription, DeleteView, Stop, Goto, GiveUp, Finish
  <1>3. Live(w)
    BY DEF Live, WorkerStep, Prepare, ConfigureView, StartSequence, ClearIndexes,
           SubscribeSources, LoadInitialData, OpenStream, HandleCommand, ProcessFails,
           DeleteIndex, DeleteSubscription, DeleteView, Stop
  <1>4. Stopping(w) => (Stopping(w)' \/ ~Live(w)')
    <2>1. CASE HandleCommand(w)
      BY <2>1 DEF HandleCommand, Stopping, TypeOK
    <2>2. CASE cmds'[w] = cmds[w] /\ wpc[w] \notin {"del_index", "del_sub", "del_view", "stopped"}
      BY <2>2 DEF Stopping
    <2>3. CASE DeleteIndex(w) \/ DeleteSubscription(w) \/ DeleteView(w) \/ Stop(w)
      BY <2>3 DEF DeleteIndex, DeleteSubscription, DeleteView, Stop, Goto, Finish,
                  Stopping, Live, TypeOK
    <2>4. CASE wpc'[w] = "none"
      BY <2>4 DEF Live
    <2> QED
      BY <2>1, <2>2, <2>3, <2>4
         DEF TypeOK, WorkerStep, Prepare, ConfigureView, StartSequence, ClearIndexes,
             SubscribeSources, LoadInitialData, OpenStream, ProcessFails, Goto, GiveUp, Finish
  <1> QED
    BY <1>1, <1>2, <1>3, <1>4 DEF WorkerOwnership, Live, Stopping, actorVars

\* A worker is started only where none goes on, so the new one is the only one.
LEMMA StartWorkerOwnership ==
  ASSUME TypeOK, NEW l \in Lifecycles, StartWorker(l),
         \A w \in Workers : Live(w) => Stopping(w)
  PROVE  \A w \in Workers :
           Live(w)' /\ ~Stopping(w)' => w = worker' /\ owner'[w] = l
  BY DEF StartWorker, Live, Stopping, TypeOK

LEMMA ActivateOwnership ==
  ASSUME TypeOK, WorkerOwnership, NEW pc \in {"idle", "remind"}, Activate(pc)
  PROVE  WorkerOwnership'
  <1>1. PICK l \in Lifecycles : current' = l /\ Resume(l)
    BY DEF Activate
  <1>2. \A w \in Workers : Live(w) => Stopping(w)
    BY DEF WorkerOwnership, Activate
  <1>3. actor' = pc /\ config' = pConfig
    BY DEF Activate
  <1>4. CASE pConfig /\ StartWorker(l)
    BY <1>1, <1>2, <1>3, <1>4, StartWorkerOwnership DEF WorkerOwnership
  <1>5. CASE UNCHANGED taskVars
    BY <1>2, <1>5 DEF WorkerOwnership, Live, Stopping, taskVars
  <1> QED
    BY <1>1, <1>4, <1>5 DEF Resume

LEMMA InitWorkerOwnership ==
  ASSUME TypeOK, WorkerOwnership, InitWorker, actor \in {"remind", "cfg_init"},
         actor' = "idle", UNCHANGED <<config, current>>
  PROVE  WorkerOwnership'
  <1>1. CASE UNCHANGED <<worker, taskVars>>
    BY <1>1 DEF WorkerOwnership, Live, Stopping, taskVars
  <1>2. CASE ~WorkerRunning /\ config /\ StartWorker(current)
    <2>1. \A w \in Workers : Live(w) => Stopping(w)
      BY <1>2, ConstantsAssumption DEF WorkerOwnership, WorkerRunning
    <2>2. current \in Lifecycles
      BY DEF TypeOK
    <2> QED
      BY <1>2, <2>1, <2>2, StartWorkerOwnership DEF WorkerOwnership
  <1> QED
    BY <1>1, <1>2 DEF InitWorker

\* deprovision and on_deactivate of a transient query.
LEMMA DiscardWorkerOwnership ==
  ASSUME TypeOK, WorkerOwnership, DiscardWorker
  PROVE  WorkerOwnership'
  <1>1. \A w \in Workers : Live(w)' = Live(w)
    BY DEF DiscardWorker, Live
  <1>2. \A w \in Workers : Stopping(w) => Stopping(w)'
    <2>1. \A w \in Workers : cmds[w] # <<>> => cmds[w] \o <<"Delete", "Shutdown">> # <<>>
      BY DEF TypeOK
    <2> QED
      BY <2>1 DEF DiscardWorker, Stopping, TypeOK
  <1>3. \A w \in Workers : Live(w) /\ w = worker => Stopping(w)'
    <2>1. \A w \in Workers : cmds[w] \o <<"Delete", "Shutdown">> # <<>>
      BY DEF TypeOK
    <2> QED
      BY <2>1 DEF DiscardWorker, Stopping, TypeOK
  <1> QED
    BY <1>1, <1>2, <1>3 DEF WorkerOwnership

\* However the handlers, the workers, failing calls and crashes interleave, and
\* for any number of slots: a worker that is not stopping is the actor's own.
THEOREM WorkersAreOwned == Spec => []WorkerOwnership
  <1> USE DEF actorVars, lifeVars, taskVars, durable, outside, bounds
  <1>1. Init => WorkerOwnership
    BY DEF Init, WorkerOwnership, Live
  <1>2. TypeOK /\ WorkerOwnership /\ [Step]_stateVars => WorkerOwnership'
    <2> SUFFICES ASSUME TypeOK, WorkerOwnership, [Step]_stateVars PROVE WorkerOwnership'
      OBVIOUS
    <2>1. CASE \E w \in Workers : WorkerStep(w)
      BY <2>1, WorkerStepOwnership
    <2>2. CASE ActivateOnCall
      BY <2>2, ActivateOwnership DEF ActivateOnCall
    <2>3. CASE ReminderDue
      <3>1. CASE Activate("remind")
        BY <3>1, ActivateOwnership
      <3>2. CASE actor = "idle" /\ actor' = "remind" /\ UNCHANGED <<config, worker, current, taskVars>>
        BY <3>2 DEF WorkerOwnership, Live, Stopping
      <3> QED
        BY <2>3, <3>1, <3>2 DEF ReminderDue
    <2>4. CASE Configure
      BY <2>4 DEF Configure, WorkerOwnership, Live, Stopping
    <2>5. CASE Deprovision
      BY <2>5, DiscardWorkerOwnership DEF Deprovision
    <2>6. CASE Deactivate
      <3>1. CASE DeactivateTransient
        BY <3>1, DiscardWorkerOwnership DEF DeactivateTransient
      <3>2. CASE DeactivateRunning
        <4>1. worker \in Workers /\ cmds[worker] \in Seq(Command)
          BY <3>2 DEF DeactivateRunning, WorkerRunning, TypeOK
        <4>2. Append(cmds[worker], "Shutdown") # <<>>
          BY <4>1
        <4> QED
          BY <3>2, <4>1, <4>2 DEF DeactivateRunning, WorkerOwnership, Live, Stopping, TypeOK
      <3>3. CASE DeactivateIdle
        BY <3>3, ConstantsAssumption
           DEF DeactivateIdle, WorkerRunning, Leave, WorkerOwnership, Live, Stopping
      <3> QED
        BY <2>6, <3>1, <3>2, <3>3 DEF Deactivate
    <2>7. CASE OnReminder
      <3>1. CASE InitWorker
        BY <2>7, <3>1, InitWorkerOwnership DEF OnReminder
      <3>2. CASE UNCHANGED <<worker, taskVars>>
        BY <2>7, <3>2 DEF OnReminder, WorkerOwnership, Live, Stopping
      <3> QED
        BY <2>7, <3>1, <3>2 DEF OnReminder
    <2>8. CASE ConfigurePersist \/ ConfigureReminder
      BY <2>8 DEF ConfigurePersist, ConfigureReminder, WorkerOwnership, Live, Stopping
    <2>9. CASE ConfigureInit
      BY <2>9, InitWorkerOwnership DEF ConfigureInit
    <2>10. CASE DeprovisionReminder \/ DeprovisionPersist \/ DeactivateReminder
      BY <2>10 DEF DeprovisionReminder, DeprovisionPersist, DeactivateReminder,
                   WorkerOwnership, Live, Stopping
    <2>11. CASE DeactivatePersist \/ DeactivateWait
      BY <2>11 DEF DeactivatePersist, DeactivateWait, Leave, WorkerOwnership, Live, Stopping
    <2>12. CASE Watcher
      BY <2>12 DEF Watcher, WatcherTake, WatcherSave, WorkerOwnership, Live, Stopping
    <2>13. CASE Crash
      BY <2>13 DEF Crash, WorkerOwnership, Live
    <2>14. CASE UNCHANGED stateVars
      BY <2>14 DEF stateVars, WorkerOwnership, Live, Stopping
    <2> QED
      BY <2>1, <2>2, <2>3, <2>4, <2>5, <2>6, <2>7, <2>8, <2>9, <2>10, <2>11, <2>12, <2>13,
         <2>14 DEF Step, HandlerStep
  <1>3. [Next]_vars => [Step]_stateVars
    BY NextIsStep
  <1> QED
    BY <1>1, <1>2, <1>3, TypeCorrect, PTL DEF Spec

-----------------------------------------------------------------------------
(***************************************************************************)
(* RestartKeepsResults.  As long as nothing has failed or been deleted,    *)
(* the status a worker acts on tells how far the bootstrap got: the        *)
(* lifecycle follows the worker, and what the watcher has saved is         *)
(* Running only if the index the next worker will find is complete.        *)
(***************************************************************************)

Undisturbed == faults = 0 /\ deletes = 0

\* The only task is the actor's own, and the lifecycle says where in its start it is.
OneWorker ==
  \A w \in Workers : Live(w) =>
    /\ w = worker /\ owner[w] = current /\ config /\ pConfig
    /\ actor \in {"idle", "remind", "deact_wait"}
    /\ wpc[w] \notin {"del_index", "del_sub", "del_view"}
    /\ wpc[w] \in {"prepare", "view", "seq"} =>
         lifecycle[current] \in {"Configured", "Bootstrapping", "Running"}
    /\ wpc[w] = "seq" /\ Volatile => lifecycle[current] # "Running"
    /\ wpc[w] \in {"clear", "subscribe", "load"} => lifecycle[current] = "Bootstrapping"
    /\ wpc[w] \in {"stream", "loop", "stopped"} => lifecycle[current] = "Running"
    /\ wpc[w] \in {"stream", "loop"} => index[w] = "loaded"

\* Nothing is told to delete, and the handlers that delete are not in progress.
NoDeletes ==
  /\ \A w \in Workers : cmds[w] \in Seq({"Shutdown"})
  /\ actor \in {"inactive", "idle", "remind", "cfg_persist", "cfg_remind", "cfg_init", "deact_wait"}
  /\ actor # "inactive" => lifecycle[current] \notin {"TransientError", "Deleted"}
  /\ pStatus \notin {"TransientError", "Deleted"} /\ saving \notin {"TransientError", "Deleted"}
  /\ actor = "inactive" => saving = NoStatus

\* Between configure and the start of its worker the query is Configured.
Configuring ==
  /\ actor \in {"cfg_persist", "cfg_remind", "cfg_init"} => lifecycle[current] = "Configured" /\ config
  /\ actor \in {"cfg_remind", "cfg_init"} => pConfig
  /\ actor # "inactive" /\ pConfig => config

\* The status Running, where it was saved too, stands for a complete persistent index.
RunningIsLoaded ==
  ~Volatile =>
    /\ "Running" \in {pStatus, saving} => pConfig /\ \A v \in Workers : index[v] = "loaded"
    /\ actor # "inactive" /\ lifecycle[current] = "Running" =>
         pConfig /\ \A v \in Workers : index[v] = "loaded"
    /\ actor # "inactive" /\ "Running" \in {pStatus, saving} => lifecycle[current] = "Running"

ResumeInv == Undisturbed => OneWorker /\ NoDeletes /\ Configuring /\ RunningIsLoaded

\* What has failed or been deleted stays counted.
LEMMA UndisturbedBefore ==
  ASSUME TypeOK, Step, Undisturbed' PROVE Undisturbed
  <1> USE DEF Undisturbed, bounds, Fail
  <1>t. faults \in Nat /\ deletes \in Nat /\ faults' = 0 /\ deletes' = 0
    BY DEF TypeOK
  <1>1. ASSUME NEW w \in Workers, WorkerStep(w) PROVE Undisturbed
    <2>1. CASE Prepare(w) \/ ConfigureView(w) \/ StartSequence(w) \/ ClearIndexes(w)
      BY <1>t, <2>1 DEF Prepare, ConfigureView, StartSequence, ClearIndexes
    <2>2. CASE SubscribeSources(w)
      <3>1. UNCHANGED bounds \/ Fail("bootstrap")
        BY <2>2, Zenon DEF SubscribeSources
      <3> QED BY <1>t, <3>1
    <2>5. CASE LoadInitialData(w) \/ OpenStream(w)
      BY <1>t, <2>5 DEF LoadInitialData, OpenStream
    <2>4. CASE ProcessFails(w)
      <3>1. faults' = faults + 1
        BY <2>4 DEF ProcessFails
      <3> QED BY <1>t, <3>1
    <2>3. CASE HandleCommand(w) \/ DeleteIndex(w) \/ DeleteSubscription(w) \/ DeleteView(w) \/ Stop(w)
      BY <1>t, <2>3 DEF HandleCommand, DeleteIndex, DeleteSubscription, DeleteView, Stop
    <2> QED BY <1>1, <2>1, <2>2, <2>3, <2>4, <2>5 DEF WorkerStep
  <1>2. CASE ActivateOnCall \/ ReminderDue
    BY <1>t, <1>2 DEF ActivateOnCall, ReminderDue, Activate, Resume
  <1>3. CASE Configure \/ Deprovision \/ Deactivate \/ Crash
    BY <1>t, <1>3 DEF Configure, Deprovision, DiscardWorker, Deactivate, DeactivateTransient,
       DeactivateRunning, DeactivateIdle, Crash
  <1>4. CASE HandlerStep
    BY <1>t, <1>4 DEF HandlerStep, OnReminder, ConfigurePersist, ConfigureReminder, ConfigureInit,
       DeprovisionReminder, DeprovisionPersist, DeactivateReminder, DeactivatePersist, DeactivateWait
  <1>5. CASE Watcher
    BY <1>t, <1>5 DEF Watcher, WatcherTake, WatcherSave
  <1> QED BY <1>1, <1>2, <1>3, <1>4, <1>5 DEF Step

LEMMA ResumeWorkerStep ==
  ASSUME TypeOK, Undisturbed, OneWorker, NoDeletes, Configuring, RunningIsLoaded,
         NEW w \in Workers, WorkerStep(w), Undisturbed', profile' = profile
  PROVE  OneWorker' /\ NoDeletes' /\ Configuring' /\ RunningIsLoaded'
  <1> USE DEF actorVars, lifeVars, durable, outside
  <1>l. Live(w)
    BY DEF Live, WorkerStep, Prepare, ConfigureView, StartSequence, ClearIndexes,
           SubscribeSources, LoadInitialData, OpenStream, HandleCommand, ProcessFails, DeleteIndex,
           DeleteSubscription, DeleteView, Stop
  <1>w. /\ w = worker /\ owner[w] = current /\ config /\ pConfig /\ current \in Lifecycles
        /\ actor \in {"idle", "remind", "deact_wait"}
        /\ \A v \in Workers : v # w => wpc[v] = "none"
    BY <1>l DEF OneWorker, Live, TypeOK
  <1>f. \A kind : ~Fail(kind)
    BY DEF Fail, Undisturbed
  <1>a. UNCHANGED <<actorVars, durable>> /\ owner' = owner
    BY DEF WorkerStep, Prepare, ConfigureView, StartSequence, ClearIndexes, SubscribeSources,
           LoadInitialData, OpenStream, HandleCommand, ProcessFails, DeleteIndex,
           DeleteSubscription, DeleteView, Stop, Goto, GiveUp, Finish
  <1>v. \A v \in Workers : v # w => wpc'[v] = wpc[v]
    BY DEF TypeOK, WorkerStep, Prepare, ConfigureView, StartSequence, ClearIndexes,
           SubscribeSources, LoadInitialData, OpenStream, HandleCommand, ProcessFails, DeleteIndex,
           DeleteSubscription, DeleteView, Stop, Goto, GiveUp, Finish
  <1>x. Volatile' = Volatile
    BY DEF Volatile
  <1>c. \A v \in Workers : cmds'[v] \in Seq({"Shutdown"})
    <2>1. \/ cmds' = cmds \/ cmds' = [cmds EXCEPT ![w] = <<>>]
          \/ cmds[w] # <<>> /\ cmds' = [cmds EXCEPT ![w] = Tail(@)]
      <3>1. CASE HandleCommand(w)
        BY <3>1 DEF HandleCommand
      <3>2. CASE ~HandleCommand(w)
        BY <3>2 DEF WorkerStep, Prepare, ConfigureView, StartSequence, ClearIndexes,
               SubscribeSources, LoadInitialData, OpenStream, ProcessFails, DeleteIndex,
               DeleteSubscription, DeleteView, Stop, Goto, GiveUp, Finish
      <3> QED BY <3>1, <3>2
    <2>2. cmds[w] # <<>> => Tail(cmds[w]) \in Seq({"Shutdown"})
      BY DEF NoDeletes
    <2>3. <<>> \in Seq({"Shutdown"})
      OBVIOUS
    <2> QED BY <2>1, <2>2, <2>3 DEF NoDeletes, TypeOK
  \* A step that leaves the lifecycle and the index alone and moves the worker on.
  <1>s. ASSUME UNCHANGED <<lifecycle, saving, index>>,
               wpc'[w] \in WorkerPc \ {"del_index", "del_sub", "del_view"},
               wpc'[w] \in {"prepare", "view", "seq"} =>
                  lifecycle[current] \in {"Configured", "Bootstrapping", "Running"},
               wpc'[w] = "seq" /\ Volatile => lifecycle[current] # "Running",
               wpc'[w] \in {"clear", "subscribe", "load"} => lifecycle[current] = "Bootstrapping",
               wpc'[w] \in {"stream", "loop", "stopped"} => lifecycle[current] = "Running",
               wpc'[w] \in {"stream", "loop"} => index[w] = "loaded"
        PROVE  OneWorker' /\ NoDeletes' /\ Configuring' /\ RunningIsLoaded'
    <2>1. OneWorker'
      BY <1>w, <1>a, <1>v, <1>x, <1>s DEF OneWorker, Live
    <2>2. NoDeletes' /\ Configuring'
      BY <1>a, <1>c, <1>s DEF NoDeletes, Configuring
    <2>3. RunningIsLoaded'
      BY <1>a, <1>x, <1>s DEF RunningIsLoaded
    <2> QED BY <2>1, <2>2, <2>3
  \* A step that moves the worker on and changes the lifecycle to st.
  <1>t. ASSUME NEW st \in {"Configured", "Bootstrapping", "Running"},
               lifecycle' = [lifecycle EXCEPT ![current] = st], saving' = saving,
               index' \in [Workers -> IndexState],
               wpc'[w] \in WorkerPc \ {"del_index", "del_sub", "del_view"},
               wpc'[w] = "seq" /\ Volatile => st # "Running",
               wpc'[w] \in {"clear", "subscribe", "load"} => st = "Bootstrapping",
               wpc'[w] \in {"stream", "loop", "stopped"} => st = "Running",
               wpc'[w] \in {"stream", "loop"} => index'[w] = "loaded",
               ~Volatile => /\ "Running" \in {pStatus, saving} => st = "Running"
                            /\ st = "Running" => \A v \in Workers : index'[v] = "loaded"
        PROVE  OneWorker' /\ NoDeletes' /\ Configuring' /\ RunningIsLoaded'
    <2>0. lifecycle'[current'] = st
      BY <1>t, <1>a, <1>w DEF TypeOK
    <2>1. OneWorker'
      BY <2>0, <1>w, <1>a, <1>v, <1>x, <1>t DEF OneWorker, Live
    <2>2. NoDeletes' /\ Configuring'
      BY <2>0, <1>w, <1>a, <1>c, <1>t DEF NoDeletes, Configuring
    <2>3. RunningIsLoaded'
      BY <2>0, <1>a, <1>x, <1>w, <1>t DEF RunningIsLoaded
    <2> QED BY <2>1, <2>2, <2>3
  <1>1. CASE Prepare(w)
    <2>1. /\ wpc[w] = "prepare" /\ wpc'[w] = "view" /\ UNCHANGED <<lifecycle, saving>>
          /\ IF Volatile THEN SetIndex(w, "empty") ELSE index' = index
      BY <1>1, <1>f DEF Prepare, Goto, TypeOK
    <2>2. lifecycle[current] \in {"Configured", "Bootstrapping", "Running"}
      BY <2>1, <1>l DEF OneWorker
    <2>3. OneWorker'
      BY <2>1, <2>2, <1>w, <1>a, <1>v, <1>x DEF OneWorker, Live
    <2>4. NoDeletes' /\ Configuring'
      BY <2>1, <1>a, <1>c DEF NoDeletes, Configuring
    <2>5. RunningIsLoaded'
      BY <2>1, <1>a, <1>x DEF RunningIsLoaded
    <2> QED BY <2>3, <2>4, <2>5
  <1>2. CASE ConfigureView(w)
    <2>1. /\ wpc[w] = "view" /\ wpc'[w] = "seq" /\ index' = index
          /\ IF lifecycle[current] = "Running" /\ Volatile
             THEN ChangeState(current, "Configured") ELSE UNCHANGED <<lifecycle, saving>>
      BY <1>2, <1>f, <1>w DEF ConfigureView, Goto, TypeOK
    <2>2. lifecycle[current] \in {"Configured", "Bootstrapping", "Running"}
      BY <2>1, <1>l DEF OneWorker
    <2>3. CASE lifecycle[current] = "Running" /\ Volatile
      BY <2>1, <2>3, <1>t DEF ChangeState, WorkerPc, TypeOK
    <2>4. CASE ~(lifecycle[current] = "Running" /\ Volatile)
      BY <2>1, <2>2, <2>4, <1>s DEF WorkerPc
    <2> QED BY <2>3, <2>4
  <1>3. CASE StartSequence(w)
    <2>0. wpc[w] = "seq" /\ index' = index /\ index' \in [Workers -> IndexState]
      BY <1>3 DEF StartSequence, TypeOK
    <2>1. \/ /\ lifecycle[current] \in {"Configured", "Bootstrapping"}
             /\ ChangeState(current, "Bootstrapping") /\ wpc'[w] = "clear"
          \/ /\ lifecycle[current] = "TerminalError"
          \/ /\ lifecycle[current] \notin {"Configured", "Bootstrapping", "TerminalError"}
             /\ ChangeState(current, "Running") /\ wpc'[w] = "stream"
      BY <1>3, <1>f, <1>w DEF StartSequence, Goto, TypeOK
    <2>2. /\ lifecycle[current] \in {"Configured", "Bootstrapping", "Running"}
          /\ Volatile => lifecycle[current] # "Running"
      BY <2>0, <1>l DEF OneWorker
    <2>3. CASE lifecycle[current] # "Running"
      <3>1. ChangeState(current, "Bootstrapping") /\ wpc'[w] = "clear"
        BY <2>1, <2>2, <2>3
      <3>2. ~Volatile => "Running" \notin {pStatus, saving}
        BY <2>3, <1>w DEF RunningIsLoaded
      <3> QED BY <3>1, <3>2, <2>0, <1>t DEF ChangeState, WorkerPc
    <2>4. CASE lifecycle[current] = "Running"
      <3>1. ChangeState(current, "Running") /\ wpc'[w] = "stream"
        BY <2>1, <2>4
      <3>2. ~Volatile /\ \A v \in Workers : index[v] = "loaded"
        BY <2>2, <2>4, <1>w DEF RunningIsLoaded
      <3> QED BY <3>1, <3>2, <2>0, <1>t DEF ChangeState, WorkerPc
    <2> QED BY <2>3, <2>4
  <1>4. CASE ClearIndexes(w) \/ SubscribeSources(w)
    <2>1. /\ wpc[w] \in {"clear", "subscribe"} /\ wpc'[w] \in {"subscribe", "load"}
          /\ UNCHANGED <<lifecycle, saving>>
      BY <1>4, <1>f DEF ClearIndexes, SubscribeSources, Goto, TypeOK
    <2>2. lifecycle[current] = "Bootstrapping"
      BY <2>1, <1>l DEF OneWorker
    <2>3. OneWorker'
      BY <2>1, <2>2, <1>w, <1>a, <1>v, <1>x DEF OneWorker, Live
    <2>4. NoDeletes' /\ Configuring'
      BY <2>1, <1>a, <1>c DEF NoDeletes, Configuring
    <2>5. RunningIsLoaded'
      BY <2>1, <2>2, <1>w, <1>a, <1>x DEF RunningIsLoaded
    <2> QED BY <2>3, <2>4, <2>5
  <1>5. CASE LoadInitialData(w)
    <2>1. /\ wpc'[w] = "stream" /\ SetIndex(w, "loaded") /\ ChangeState(current, "Running")
      BY <1>5, <1>f, <1>w DEF LoadInitialData, Goto, TypeOK
    <2>2. index' \in [Workers -> IndexState] /\ index'[w] = "loaded"
          /\ (~Volatile => \A v \in Workers : index'[v] = "loaded")
      BY <2>1 DEF SetIndex, IndexState, TypeOK
    <2> QED BY <2>1, <2>2, <1>t DEF ChangeState, WorkerPc
  <1>6. CASE OpenStream(w)
    <2>1. wpc[w] = "stream" /\ wpc'[w] = "loop" /\ UNCHANGED <<lifecycle, saving, index>>
      BY <1>6, <1>f DEF OpenStream, Goto, TypeOK
    <2>2. lifecycle[current] = "Running" /\ index[w] = "loaded"
      BY <2>1, <1>l DEF OneWorker
    <2> QED BY <2>1, <2>2, <1>s DEF WorkerPc
  <1>7. CASE HandleCommand(w)
    <2>1. cmds[w] \in Seq({"Shutdown"}) /\ cmds[w] # <<>>
      BY <1>7 DEF HandleCommand, NoDeletes
    <2>2. Head(cmds[w]) = "Shutdown"
      BY <2>1
    <2>3. wpc[w] = "loop" /\ wpc'[w] = "stopped" /\ UNCHANGED <<lifecycle, saving, index>>
      BY <1>7, <2>2 DEF HandleCommand, TypeOK
    <2>4. lifecycle[current] = "Running"
      BY <2>3, <1>l DEF OneWorker
    <2> QED BY <2>3, <2>4, <1>s DEF WorkerPc
  <1>8. CASE ProcessFails(w)
    BY <1>8, <1>f DEF ProcessFails
  <1>9. CASE DeleteIndex(w) \/ DeleteSubscription(w) \/ DeleteView(w)
    BY <1>9, <1>l DEF DeleteIndex, DeleteSubscription, DeleteView, OneWorker
  <1>10. CASE Stop(w)
    <2>1. wpc'[w] = "none" /\ UNCHANGED <<lifecycle, saving, index>>
      BY <1>10 DEF Stop, Finish, TypeOK
    <2> QED BY <2>1, <1>s DEF WorkerPc
  <1> QED
    BY <1>1, <1>2, <1>3, <1>4, <1>5, <1>6, <1>7, <1>8, <1>9, <1>10 DEF WorkerStep

\* A worker is started only when there is none, at a status that tells how far the
\* bootstrap got.
LEMMA ResumeStartWorker ==
  ASSUME TypeOK, NEW l \in Lifecycles, StartWorker(l), \A w \in Workers : ~Live(w),
         lifecycle'[l] \in {"Configured", "Bootstrapping", "Running"}, current' = l,
         config', pConfig', actor' \in {"idle", "remind", "deact_wait"}
  PROVE  OneWorker'
  <1>1. PICK w \in Workers : /\ wpc' = [wpc EXCEPT ![w] = "prepare"]
                             /\ owner' = [owner EXCEPT ![w] = l] /\ worker' = w
    BY DEF StartWorker
  <1>2. \A v \in Workers : Live(v)' => v = w /\ wpc'[v] = "prepare" /\ owner'[v] = l
    BY <1>1 DEF Live, TypeOK
  <1> QED BY <1>1, <1>2 DEF OneWorker

LEMMA ResumeActivate ==
  ASSUME TypeOK, Undisturbed, OneWorker, NoDeletes, Configuring, RunningIsLoaded,
         NEW pc \in {"idle", "remind"}, Activate(pc), Undisturbed', profile' = profile
  PROVE  OneWorker' /\ NoDeletes' /\ Configuring' /\ RunningIsLoaded'
  <1> USE DEF taskVars, outside
  <1>0. \A w \in Workers : ~Live(w)
    BY DEF Activate, OneWorker
  <1>1. PICK l \in Lifecycles : current' = l /\ Resume(l)
    BY DEF Activate
  <1>2. /\ actor = "inactive" /\ actor' = pc /\ config' = pConfig /\ saving = NoStatus
        /\ UNCHANGED <<saving, pStatus, pConfig, index>>
    BY DEF Activate, NoDeletes
  <1>3. lifecycle'[l] \in {pStatus, "TerminalError"} /\ cmds' = cmds
    BY <1>1 DEF Resume, TypeOK, StartWorker
  <1>4. (pStatus = "Running" /\ pConfig => lifecycle'[l] = "Running")
    BY <1>1 DEF Resume, TypeOK
  <1>5. OneWorker'
    <2>1. CASE pStatus \in {"Configured", "Running", "Bootstrapping"} /\ pConfig /\ StartWorker(l)
                /\ lifecycle' = [lifecycle EXCEPT ![l] = pStatus]
      <3>1. lifecycle'[l] = pStatus
        BY <2>1 DEF TypeOK
      <3> QED BY <1>0, <1>1, <1>2, <2>1, <3>1, ResumeStartWorker
    <2>2. CASE UNCHANGED <<wpc, cmds, owner>>
      BY <1>0, <2>2 DEF OneWorker, Live
    <2> QED BY <1>1, <2>1, <2>2 DEF Resume
  <1>6. NoDeletes'
    BY <1>1, <1>2, <1>3 DEF NoDeletes
  <1>7. Configuring'
    BY <1>2 DEF Configuring
  <1>8. RunningIsLoaded'
    <2>1. Volatile' = Volatile
      BY DEF Volatile
    <2>2. NoStatus # "Running"
      BY DEF NoStatus
    <2> QED BY <1>1, <1>2, <1>3, <1>4, <2>1, <2>2 DEF RunningIsLoaded
  <1> QED BY <1>5, <1>6, <1>7, <1>8

\* The actor leaves, or the process dies, when the status in flight may or may not
\* have been stored.
LEMMA ResumeLeave ==
  ASSUME TypeOK, NoDeletes, RunningIsLoaded, profile' = profile, \A w \in Workers : ~Live(w)',
         \A w \in Workers : cmds'[w] \in Seq({"Shutdown"}),
         actor' = "inactive", saving' = NoStatus, pConfig' = pConfig,
         pStatus' \in {pStatus} \cup ({saving} \ {NoStatus}), ~Volatile => index' = index
  PROVE  OneWorker' /\ NoDeletes' /\ Configuring' /\ RunningIsLoaded'
  <1>1. OneWorker' /\ Configuring'
    BY DEF OneWorker, Configuring
  <1>2. NoDeletes'
    BY DEF NoDeletes, NoStatus
  <1>3. RunningIsLoaded'
    BY DEF RunningIsLoaded, Volatile, NoStatus
  <1> QED BY <1>1, <1>2, <1>3

LEMMA ResumeActorStep ==
  ASSUME TypeOK, Undisturbed, OneWorker, NoDeletes, Configuring, RunningIsLoaded,
         ReminderDue \/ Configure \/ Deprovision \/ Deactivate \/ HandlerStep \/ Watcher,
         Undisturbed', profile' = profile
  PROVE  OneWorker' /\ NoDeletes' /\ Configuring' /\ RunningIsLoaded'
  <1> USE DEF actorVars, lifeVars, taskVars, durable, outside
  <1>f. \A kind : ~Fail(kind)
    BY DEF Fail, Undisturbed
  <1>d. ~DiscardWorker
    BY ConstantsAssumption DEF DiscardWorker, Undisturbed
  <1>x. Volatile' = Volatile
    BY DEF Volatile
  <1>1. CASE ReminderDue
    <2>1. CASE Activate("remind")
      BY <2>1, ResumeActivate
    <2>2. CASE /\ actor = "idle" /\ actor' = "remind"
               /\ UNCHANGED <<config, worker, current, lifeVars, taskVars, durable, outside>>
      BY <2>2, <1>x DEF OneWorker, Live, NoDeletes, Configuring, RunningIsLoaded
    <2> QED BY <1>1, <2>1, <2>2 DEF ReminderDue
  <1>2. CASE Configure
    <2>1. /\ actor = "idle" /\ ~config /\ config' /\ actor' = "cfg_persist" /\ current' = current
          /\ lifecycle' = [lifecycle EXCEPT ![current] = "Configured"] /\ saving' = saving
          /\ UNCHANGED <<worker, taskVars, durable, outside>>
      BY <1>2 DEF Configure, ChangeState
    <2>2. lifecycle'[current'] = "Configured"
      BY <2>1 DEF TypeOK
    <2>3. ~pConfig
      BY <2>1 DEF Configuring
    <2>4. OneWorker'
      BY <2>1 DEF OneWorker, Live
    <2>5. NoDeletes' /\ Configuring'
      BY <2>1, <2>2, <2>3 DEF NoDeletes, Configuring
    <2>6. RunningIsLoaded'
      BY <2>1, <2>2, <2>3, <1>x DEF RunningIsLoaded
    <2> QED BY <2>4, <2>5, <2>6
  <1>3. CASE Deprovision
    BY <1>3, <1>d DEF Deprovision
  <1>4. CASE Deactivate
    <2>1. CASE DeactivateTransient
      BY <2>1, <1>d DEF DeactivateTransient
    <2>2. CASE actor = "idle" /\ DeactivateRunning
      <3>1. worker \in Workers /\ cmds[worker] \in Seq({"Shutdown"})
        BY <2>2 DEF DeactivateRunning, WorkerRunning, TypeOK, NoDeletes
      <3>2. Append(cmds[worker], "Shutdown") \in Seq({"Shutdown"})
        BY <3>1
      <3>3. \A w \in Workers : cmds'[w] \in Seq({"Shutdown"})
        BY <2>2, <3>1, <3>2 DEF DeactivateRunning, NoDeletes, TypeOK
      <3>4. /\ actor' = "deact_wait"
            /\ UNCHANGED <<config, worker, current, lifeVars, wpc, owner, durable, outside>>
        BY <2>2 DEF DeactivateRunning
      <3>5. OneWorker'
        BY <3>4, <1>x DEF OneWorker, Live
      <3>6. NoDeletes' /\ Configuring'
        BY <2>2, <3>3, <3>4 DEF NoDeletes, Configuring
      <3>7. RunningIsLoaded'
        BY <2>2, <3>4, <1>x DEF RunningIsLoaded
      <3> QED BY <3>5, <3>6, <3>7
    <2>3. CASE DeactivateIdle
      <3>1. \A w \in Workers : ~Live(w)
        BY <2>3, ConstantsAssumption DEF DeactivateIdle, WorkerRunning, OneWorker
      <3>2. \A w \in Workers : ~Live(w)' /\ cmds'[w] \in Seq({"Shutdown"})
        BY <2>3, <3>1 DEF DeactivateIdle, Live, NoDeletes
      <3> QED BY <2>3, <3>2, ResumeLeave DEF DeactivateIdle, Leave
    <2> QED BY <1>4, <2>1, <2>2, <2>3 DEF Deactivate
  <1>5. CASE OnReminder
    <2>1. /\ actor = "remind" /\ actor' = "idle"
          /\ UNCHANGED <<config, worker, current, lifeVars, taskVars, durable, outside>>
      BY <1>5 DEF OnReminder, NoDeletes
    <2> QED BY <2>1, <1>x DEF OneWorker, Live, NoDeletes, Configuring, RunningIsLoaded
  <1>6. CASE ConfigurePersist
    <2>1. /\ actor = "cfg_persist" /\ actor' = "cfg_remind" /\ pConfig' = config
          /\ UNCHANGED <<config, worker, current, lifeVars, taskVars, pStatus, reminder, outside>>
      BY <1>6, <1>f DEF ConfigurePersist
    <2>2. pConfig'
      BY <2>1 DEF Configuring
    <2> QED BY <2>1, <2>2, <1>x DEF OneWorker, Live, NoDeletes, Configuring, RunningIsLoaded
  <1>7. CASE ConfigureReminder
    <2>1. /\ actor = "cfg_remind" /\ actor' = "cfg_init"
          /\ UNCHANGED <<config, worker, current, lifeVars, taskVars, pStatus, pConfig, outside>>
      BY <1>7, <1>f DEF ConfigureReminder
    <2> QED BY <2>1, <1>x DEF OneWorker, Live, NoDeletes, Configuring, RunningIsLoaded
  <1>8. CASE ConfigureInit
    <2>1. /\ actor = "cfg_init" /\ actor' = "idle" /\ InitWorker
          /\ UNCHANGED <<config, current, durable, outside>>
      BY <1>8 DEF ConfigureInit
    <2>2. lifecycle[current] = "Configured" /\ config /\ pConfig /\ current \in Lifecycles
      BY <2>1 DEF Configuring, TypeOK
    <2>3. \A w \in Workers : ~Live(w)
      BY <2>1 DEF OneWorker
    <2>4. ~WorkerRunning
      BY <2>3, ConstantsAssumption DEF WorkerRunning, TypeOK
    <2>5. StartWorker(current) /\ UNCHANGED lifeVars
      BY <2>1, <2>2, <2>4 DEF InitWorker
    <2>6. OneWorker'
      BY <2>1, <2>2, <2>3, <2>5, ResumeStartWorker
    <2>7. NoDeletes' /\ Configuring'
      BY <2>1, <2>2, <2>5 DEF NoDeletes, Configuring, StartWorker
    <2>8. RunningIsLoaded'
      BY <2>1, <2>5, <1>x DEF RunningIsLoaded
    <2> QED BY <2>6, <2>7, <2>8
  <1>9. CASE DeprovisionReminder \/ DeprovisionPersist \/ DeactivateReminder \/ DeactivatePersist
    BY <1>9 DEF DeprovisionReminder, DeprovisionPersist, DeactivateReminder, DeactivatePersist, NoDeletes
  <1>10. CASE DeactivateWait
    <2>1. \A w \in Workers : ~Live(w)
      BY <1>10, ConstantsAssumption DEF DeactivateWait, WorkerRunning, OneWorker
    <2>2. \A w \in Workers : ~Live(w)' /\ cmds'[w] \in Seq({"Shutdown"})
      BY <1>10, <2>1 DEF DeactivateWait, Live, NoDeletes
    <2> QED BY <1>10, <2>2, ResumeLeave DEF DeactivateWait, Leave
  <1>11. CASE WatcherTake
    <2>1. /\ actor # "inactive" /\ saving' = lifecycle[current]
          /\ UNCHANGED <<actorVars, lifecycle, taskVars, durable, outside>>
      BY <1>11 DEF WatcherTake
    <2> QED BY <2>1, <1>x DEF OneWorker, Live, NoDeletes, Configuring, RunningIsLoaded
  <1>12. CASE WatcherSave
    <2>1. /\ actor # "inactive" /\ pStatus' = saving /\ saving # NoStatus /\ saving' = NoStatus
          /\ UNCHANGED <<actorVars, lifecycle, taskVars, pConfig, reminder, outside>>
      BY <1>12, <1>f DEF WatcherSave
    <2> QED BY <2>1, <1>x DEF OneWorker, Live, NoDeletes, Configuring, RunningIsLoaded, NoStatus
  <1> QED
    BY <1>1, <1>2, <1>3, <1>4, <1>5, <1>6, <1>7, <1>8, <1>9, <1>10, <1>11, <1>12
       DEF HandlerStep, Watcher

\* As long as no call has failed and nothing was deleted, a worker consumes changes
\* only over a completely bootstrapped index, whichever status had been saved when
\* the process crashed, for every kind of query and any number of crashes
\* (query_actor.rs: on_activate resumes from the saved status; query_worker.rs: the
\* match on the lifecycle).
THEOREM RestartsKeepResults == Spec => []RestartKeepsResults
  <1> USE DEF actorVars, lifeVars, taskVars, durable, outside, bounds
  <1>1. Init => ResumeInv
    <2> SUFFICES ASSUME Init PROVE OneWorker /\ NoDeletes /\ Configuring /\ RunningIsLoaded
      BY DEF ResumeInv
    <2>1. OneWorker /\ Configuring /\ RunningIsLoaded
      BY DEF Init, OneWorker, Live, Configuring, RunningIsLoaded, NoStatus
    <2>2. <<>> \in Seq({"Shutdown"})
      OBVIOUS
    <2>3. NoDeletes
      BY <2>2 DEF Init, NoDeletes, NoStatus
    <2> QED BY <2>1, <2>3
  <1>2. TypeOK /\ TypeOK' /\ ResumeInv /\ [Next]_vars => ResumeInv'
    <2> SUFFICES ASSUME TypeOK, TypeOK', ResumeInv, [Next]_vars, Undisturbed'
                 PROVE  OneWorker' /\ NoDeletes' /\ Configuring' /\ RunningIsLoaded'
      BY DEF ResumeInv
    <2>1. CASE UNCHANGED vars
      <3>1. OneWorker /\ NoDeletes /\ Configuring /\ RunningIsLoaded /\ Volatile' = Volatile
        BY <2>1 DEF vars, stateVars, ResumeInv, Undisturbed, Volatile
      <3> QED BY <3>1, <2>1 DEF vars, stateVars, OneWorker, Live, NoDeletes, Configuring, RunningIsLoaded
    <2>2. ASSUME Step, profile' = profile
          PROVE  OneWorker' /\ NoDeletes' /\ Configuring' /\ RunningIsLoaded'
      <3>0. Undisturbed
        BY <2>2, UndisturbedBefore
      <3>i. OneWorker /\ NoDeletes /\ Configuring /\ RunningIsLoaded
        BY <3>0 DEF ResumeInv
      <3>1. CASE \E w \in Workers : WorkerStep(w)
        BY <2>2, <3>0, <3>i, <3>1, ResumeWorkerStep
      <3>2. CASE ActivateOnCall
        BY <2>2, <3>0, <3>i, <3>2, ResumeActivate DEF ActivateOnCall
      <3>3. CASE ReminderDue \/ Configure \/ Deprovision \/ Deactivate \/ HandlerStep \/ Watcher
        BY <2>2, <3>0, <3>i, <3>3, ResumeActorStep
      <3>4. CASE Crash
        <4>1. \A w \in Workers : wpc'[w] = "none" /\ cmds'[w] = <<>>
          BY <3>4 DEF Crash
        <4>2. <<>> \in Seq({"Shutdown"})
          OBVIOUS
        <4>3. \A w \in Workers : ~Live(w)' /\ cmds'[w] \in Seq({"Shutdown"})
          BY <4>1, <4>2 DEF Live
        <4> QED BY <2>2, <3>i, <3>4, <4>3, ResumeLeave DEF Crash
      <3> QED BY <2>2, <3>1, <3>2, <3>3, <3>4 DEF Step
    <2> QED BY <2>1, <2>2 DEF Next
  <1>3. ResumeInv => RestartKeepsResults
    BY DEF ResumeInv, Undisturbed, OneWorker, Live, RestartKeepsResults
  <1> QED
    BY <1>1, <1>2, <1>3, TypeCorrect, PTL DEF Spec

=============================================================================
