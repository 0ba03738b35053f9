----------------------------- MODULE QueryHost -----------------------------
(***************************************************************************)
(* The control side of one continuous query inside the query host: the     *)
(* Dapr actor QueryActor (query-host/src/query_actor.rs), the background   *)
(* task QueryWorker it spawns (query_worker.rs), the QueryLifecycle they   *)
(* share (models.rs) and the status watcher that persists it.              *)
(*                                                                         *)
(* Dapr runs the handlers of one actor one at a time, so `actor' is the    *)
(* program counter of the handler in progress.  Worker tasks, the status   *)
(* watcher and a crash of the process interleave with it at every await.   *)
(*                                                                         *)
(* A worker outlives the actor's reference to it: deprovision only queues  *)
(* Delete and forgets the task.  Workers are therefore slots, each with    *)
(* its own program counter, command channel and lifecycle object.          *)
(***************************************************************************)
EXTENDS Naturals, Sequences

CONSTANTS
  Workers,        \* slots for worker tasks
  Lifecycles,     \* slots for QueryLifecycle objects, one per actor activation
  NoWorker,       \* OptionalValue::None of QueryActor.worker
  Profiles,       \* kinds of query: IndexFactory::is_volatile of its storage profile
                  \* and QuerySpec.transient
  ViewEnabled,    \* ViewSpec.enabled
  Faults,         \* the fallible calls that may fail in this model
  MaxFaults,      \* bound: failed calls
  MaxCrashes,     \* bound: crashes of the query-host process
  MaxConfigures,  \* bound: accepted configure calls
  MaxDeletes      \* bound: deprovision calls

FaultKinds == {"index", "build", "connect", "view", "sequence", "bootstrap", "stream",
               "process", "clear", "unsubscribe", "persist", "reminder", "status"}

ASSUME ConstantsAssumption ==
  /\ NoWorker \notin Workers
  /\ Profiles \subseteq [volatile : BOOLEAN, transient : BOOLEAN] /\ ViewEnabled \in BOOLEAN
  /\ Faults \subseteq FaultKinds
  /\ MaxFaults \in Nat /\ MaxCrashes \in Nat /\ MaxConfigures \in Nat
  /\ MaxDeletes \in Nat \ {0}

QueryState == {"New", "Configured", "Bootstrapping", "Running", "Deleted",
               "TerminalError", "TransientError"}
NoStatus == "NoStatus"
Command == {"Shutdown", "Delete"}
IndexState == {"empty", "partial", "loaded"}
ActorPc == {"inactive", "idle", "remind", "cfg_persist", "cfg_remind", "cfg_init",
            "dep_remind", "dep_persist", "deact_wait", "deact_remind", "deact_persist"}
WorkerPc == {"none", "prepare", "view", "seq", "clear", "subscribe", "load", "stream",
             "loop", "del_index", "del_sub", "del_view", "stopped"}

VARIABLES
  actor,        \* handler of the actor in progress, "idle" between handlers
  config,       \* QueryActor.config holds a spec
  worker,       \* QueryActor.worker
  current,      \* QueryActor.lifecycle
  lifecycle,    \* state of each QueryLifecycle object
  dirty,        \* the watch channel holds a state the status watcher has not seen
  saving,       \* the state the status watcher is writing, or NoStatus
  wpc,          \* program counter of each worker task, "none" once finished
  cmds,         \* command channel of each worker
  owner,        \* the QueryLifecycle object each worker was started with
  index,        \* the element, result and archive index as each worker sees it
  pStatus,      \* durable actor state, key "status"
  pConfig,      \* durable actor state, key "config", holds a spec
  reminder,     \* the "ping" reminder is registered
  subscribed,   \* the sources have a subscription of this query
  view,         \* the view actor of this query is configured
  faults, crashes, configures, deletes,   \* bound counters
  profile       \* the kind of this query, the same for its whole life

actorVars == <<actor, config, worker, current>>
lifeVars  == <<lifecycle, dirty, saving>>
taskVars  == <<wpc, cmds, owner>>
durable   == <<pStatus, pConfig, reminder>>
outside   == <<index, subscribed, view>>
bounds    == <<faults, crashes, configures, deletes>>
stateVars == <<actorVars, lifeVars, taskVars, durable, outside, bounds>>
vars == <<stateVars, profile>>

Volatile == profile.volatile
Transient == profile.transient

Live(w) == wpc[w] # "none"

Init ==
  /\ actor = "inactive" /\ config = FALSE /\ worker = NoWorker
  /\ current \in Lifecycles
  /\ lifecycle = [l \in Lifecycles |-> "New"] /\ dirty = FALSE /\ saving = NoStatus
  /\ wpc = [w \in Workers |-> "none"] /\ cmds = [w \in Workers |-> <<>>]
  /\ owner = [w \in Workers |-> current]
  /\ index = [w \in Workers |-> "empty"]
  /\ pStatus = "New" /\ pConfig = FALSE /\ reminder = FALSE
  /\ subscribed = FALSE /\ view = FALSE
  /\ faults = 0 /\ crashes = 0 /\ configures = 0 /\ deletes = 0
  /\ profile \in Profiles

-----------------------------------------------------------------------------
(***************************************************************************)
(* Helpers.                                                                *)
(***************************************************************************)

\* A call of the given kind fails.
Fail(kind) ==
  /\ kind \in Faults /\ faults < MaxFaults
  /\ faults' = faults + 1 /\ UNCHANGED <<crashes, configures, deletes>>

\* QueryLifecycle::change_state on object l; only the object of the running
\* actor still has a status watcher.
ChangeState(l, s) ==
  /\ lifecycle' = [lifecycle EXCEPT ![l] = s]
  /\ dirty' = (dirty \/ l = current)
  /\ UNCHANGED saving

Goto(w, pc) == wpc' = [wpc EXCEPT ![w] = pc] /\ UNCHANGED <<cmds, owner>>

\* The task ends and drops the receiving end of its command channel.
Finish(w) ==
  /\ wpc' = [wpc EXCEPT ![w] = "none"]
  /\ cmds' = [cmds EXCEPT ![w] = <<>>]
  /\ UNCHANGED owner

GiveUp(w, s) == Finish(w) /\ ChangeState(owner[w], s)

\* A persistent store is shared by all workers of the query, an in-memory one
\* belongs to the worker that built it.
SetIndex(w, s) ==
  index' = [v \in Workers |-> IF ~Volatile \/ v = w THEN s ELSE index[v]]

-----------------------------------------------------------------------------
(***************************************************************************)
(* QueryWorker: the task spawned by QueryWorker::start.                    *)
(***************************************************************************)

\* Build the index set, the query and the publisher of the future queue.  An
\* index error is transient, a query that does not build is terminal, and a
\* failed connection to the broker is an unwrap: the task panics and leaves the
\* lifecycle as it is.
Prepare(w) ==
  /\ wpc[w] = "prepare"
  /\ \/ /\ Goto(w, "view")
        /\ IF Volatile THEN SetIndex(w, "empty") ELSE UNCHANGED index
        /\ UNCHANGED <<lifeVars, bounds>>
     \/ Fail("index") /\ GiveUp(w, "TransientError") /\ UNCHANGED index
     \/ Fail("build") /\ GiveUp(w, "TerminalError") /\ UNCHANGED index
     \/ Fail("connect") /\ Finish(w) /\ UNCHANGED <<index, lifeVars>>
  /\ UNCHANGED <<actorVars, durable, subscribed, view>>

\* configure_result_view, then the test that sends a volatile query that was
\* Running back to Configured.
ConfigureView(w) ==
  /\ wpc[w] = "view"
  /\ \/ /\ view' = (view \/ ViewEnabled)
        /\ Goto(w, "seq")
        /\ IF lifecycle[owner[w]] = "Running" /\ Volatile
           THEN ChangeState(owner[w], "Configured")
           ELSE UNCHANGED lifeVars
        /\ UNCHANGED bounds
     \/ ViewEnabled /\ Fail("view") /\ GiveUp(w, "TransientError") /\ UNCHANGED view
  /\ UNCHANGED <<actorVars, durable, index, subscribed>>

\* Mutant of StartSequence: an interrupted bootstrap is not repeated.
StartSequenceResumes(w) ==
  /\ wpc[w] = "seq"
  /\ \/ /\ lifecycle[owner[w]] = "Configured"
        /\ ChangeState(owner[w], "Bootstrapping") /\ Goto(w, "clear")
     \/ /\ lifecycle[owner[w]] # "Configured"
        /\ ChangeState(owner[w], "Running") /\ Goto(w, "stream")
  /\ UNCHANGED <<actorVars, durable, outside, bounds>>

\* SequenceManager::new, then the match on the lifecycle: bootstrap, panic in
\* todo!(), or go straight to Running.
StartSequence(w) ==
  /\ wpc[w] = "seq"
  /\ \/ Fail("sequence") /\ GiveUp(w, "TransientError")
     \/ /\ lifecycle[owner[w]] \in {"Configured", "Bootstrapping"}
        /\ ChangeState(owner[w], "Bootstrapping") /\ Goto(w, "clear")
        /\ UNCHANGED bounds
     \/ /\ lifecycle[owner[w]] = "TerminalError"
        /\ Finish(w) /\ UNCHANGED <<lifeVars, bounds>>
     \/ /\ lifecycle[owner[w]] \notin {"Configured", "Bootstrapping", "TerminalError"}
        /\ ChangeState(owner[w], "Running") /\ Goto(w, "stream")
        /\ UNCHANGED bounds
  /\ UNCHANGED <<actorVars, durable, outside>>

\* Clear the indexes, ignoring errors, and publish BootstrapStarted.  (The code clears
\* them before and after the signal; the two clears are one here.)
ClearIndexes(w) ==
  /\ wpc[w] = "clear"
  /\ \/ SetIndex(w, "empty") /\ Goto(w, "subscribe") /\ UNCHANGED <<lifeVars, bounds>>
     \/ Fail("clear") /\ Goto(w, "subscribe") /\ UNCHANGED <<index, lifeVars>>
     \/ SetIndex(w, "empty") /\ Fail("bootstrap") /\ GiveUp(w, "TerminalError")
  /\ UNCHANGED <<actorVars, durable, subscribed, view>>

\* Subscribe to the sources; a failed subscribe may still have registered.
SubscribeSources(w) ==
  /\ wpc[w] = "subscribe"
  /\ \/ /\ subscribed' = TRUE /\ SetIndex(w, "partial") /\ Goto(w, "load")
        /\ UNCHANGED <<lifeVars, bounds>>
     \/ /\ Fail("bootstrap") /\ GiveUp(w, "TerminalError")
        /\ subscribed' \in {subscribed, TRUE} /\ UNCHANGED index
  /\ UNCHANGED <<actorVars, durable, view>>

\* Apply the initial data, publish BootstrapCompleted and go to Running.
LoadInitialData(w) ==
  /\ wpc[w] = "load"
  /\ \/ /\ SetIndex(w, "loaded") /\ Goto(w, "stream")
        /\ ChangeState(owner[w], "Running") /\ UNCHANGED bounds
     \/ Fail("bootstrap") /\ GiveUp(w, "TerminalError") /\ UNCHANGED index
  /\ UNCHANGED <<actorVars, durable, subscribed, view>>

\* RedisChangeStream::new; publishing the Running signal cannot stop the worker.
OpenStream(w) ==
  /\ wpc[w] = "stream"
  /\ \/ Goto(w, "loop") /\ UNCHANGED <<lifeVars, bounds>>
     \/ Fail("stream") /\ GiveUp(w, "TransientError")
  /\ UNCHANGED <<actorVars, durable, outside>>

\* Mutant of HandleCommand: Shutdown does not break the loop.
HandleDeleteOnly(w) ==
  /\ wpc[w] = "loop" /\ cmds[w] # <<>>
  /\ wpc' = [wpc EXCEPT ![w] = IF Head(cmds[w]) = "Delete" THEN "del_index" ELSE "loop"]
  /\ cmds' = [cmds EXCEPT ![w] = Tail(@)]
  /\ UNCHANGED <<actorVars, lifeVars, owner, durable, outside, bounds>>

\* A command ends the select! loop.
HandleCommand(w) ==
  /\ wpc[w] = "loop" /\ cmds[w] # <<>>
  /\ wpc' = [wpc EXCEPT ![w] = IF Head(cmds[w]) = "Delete" THEN "del_index" ELSE "stopped"]
  /\ cmds' = [cmds EXCEPT ![w] = Tail(@)]
  /\ UNCHANGED <<actorVars, lifeVars, owner, durable, outside, bounds>>

\* recv or process_change fails.  (A change that is processed leaves this
\* control state alone; QueryStream models it.)
ProcessFails(w) ==
  /\ wpc[w] = "loop"
  /\ Fail("process")
  /\ ChangeState(owner[w], "TransientError") /\ Goto(w, "stopped")
  /\ UNCHANGED <<actorVars, durable, outside>>

\* Command::Delete, one step per call it awaits; every error is only logged.
DeleteIndex(w) ==
  /\ wpc[w] = "del_index"
  /\ Goto(w, "del_sub")
  /\ \/ SetIndex(w, "empty") /\ UNCHANGED bounds
     \/ Fail("clear") /\ UNCHANGED index
  /\ UNCHANGED <<actorVars, lifeVars, durable, subscribed, view>>

DeleteSubscription(w) ==
  /\ wpc[w] = "del_sub"
  /\ Goto(w, "del_view")
  /\ \/ subscribed' = FALSE /\ UNCHANGED bounds
     \/ Fail("unsubscribe") /\ UNCHANGED subscribed
  /\ UNCHANGED <<actorVars, lifeVars, durable, index, view>>

DeleteView(w) ==
  /\ wpc[w] = "del_view"
  /\ Goto(w, "stopped")
  /\ \/ view' = (view /\ ~ViewEnabled) /\ UNCHANGED bounds
     \/ ViewEnabled /\ Fail("view") /\ UNCHANGED view
  /\ UNCHANGED <<actorVars, lifeVars, durable, index, subscribed>>

\* Terminate the future consumer, publish Stopped, end the task.
Stop(w) ==
  /\ wpc[w] = "stopped" /\ Finish(w)
  /\ UNCHANGED <<actorVars, lifeVars, durable, outside, bounds>>

WorkerStep(w) ==
  \/ Prepare(w) \/ ConfigureView(w) \/ StartSequence(w) \/ ClearIndexes(w)
  \/ SubscribeSources(w) \/ LoadInitialData(w) \/ OpenStream(w) \/ HandleCommand(w)
  \/ ProcessFails(w) \/ DeleteIndex(w) \/ DeleteSubscription(w) \/ DeleteView(w) \/ Stop(w)

-----------------------------------------------------------------------------
(***************************************************************************)
(* QueryActor: handlers and their awaits.                                  *)
(***************************************************************************)

\* QueryWorker::start in a free slot, sharing lifecycle object l.
StartWorker(l) ==
  \E w \in Workers :
    /\ ~Live(w)
    /\ wpc' = [wpc EXCEPT ![w] = "prepare"]
    /\ owner' = [owner EXCEPT ![w] = l]
    /\ worker' = w
    /\ UNCHANGED cmds

WorkerRunning == worker # NoWorker /\ Live(worker)

\* init_worker on the active actor.
InitWorker ==
  \/ /\ WorkerRunning
     /\ UNCHANGED <<worker, taskVars, lifeVars>>
  \/ /\ ~WorkerRunning /\ ~config
     /\ ChangeState(current, "TerminalError") /\ UNCHANGED <<worker, taskVars>>
  \/ /\ ~WorkerRunning /\ config
     /\ StartWorker(current) /\ UNCHANGED lifeVars

\* What on_activate does with the fresh lifecycle object l, once read_state has
\* put the persisted status into it.
Resume(l) ==
  \/ /\ pStatus \in {"Configured", "Running", "Bootstrapping"} /\ pConfig
     /\ StartWorker(l)
     /\ lifecycle' = [lifecycle EXCEPT ![l] = pStatus]
     /\ UNCHANGED <<dirty, reminder, bounds>>
  \/ /\ pStatus \in {"Configured", "Running", "Bootstrapping"} /\ ~pConfig
     /\ lifecycle' = [lifecycle EXCEPT ![l] = "TerminalError"] /\ dirty' = TRUE
     /\ UNCHANGED <<worker, taskVars, reminder, bounds>>
  \/ /\ pStatus \notin {"Configured", "Running", "Bootstrapping"}
     /\ lifecycle' = [lifecycle EXCEPT ![l] = pStatus]
     /\ \/ reminder' = (reminder /\ pStatus # "TerminalError") /\ UNCHANGED bounds
        \/ pStatus = "TerminalError" /\ Fail("reminder") /\ UNCHANGED reminder
     /\ UNCHANGED <<dirty, worker, taskVars>>

\* on_activate: Dapr builds a new actor object, with a lifecycle no worker left
\* over from an earlier activation shares, and read_state loads the config.
Activate(pc) ==
  /\ actor = "inactive"
  /\ actor' = pc /\ config' = pConfig
  /\ \E l \in Lifecycles :
       /\ \A w \in Workers : Live(w) => owner[w] # l
       /\ current' = l
       /\ Resume(l)
  /\ UNCHANGED <<saving, pStatus, pConfig, outside>>

\* A call from the management API reaches an inactive actor.
ActivateOnCall == Activate("idle")

\* The reminder fires; Dapr activates the actor first when it has to.
ReminderDue ==
  /\ reminder
  /\ \/ Activate("remind")
     \/ /\ actor = "idle" /\ actor' = "remind"
        /\ UNCHANGED <<config, worker, current, lifeVars, taskVars, durable, outside, bounds>>

\* Mutant of OnReminder: the retry is for terminal errors.
OnReminderTerminal ==
  /\ actor = "remind" /\ actor' = "idle"
  /\ IF lifecycle[current] = "TerminalError"
     THEN InitWorker
     ELSE UNCHANGED <<worker, taskVars, lifeVars>>
  /\ UNCHANGED <<config, current, durable, outside, bounds>>

\* on_reminder restarts the worker of a query in TransientError.
OnReminder ==
  /\ actor = "remind" /\ actor' = "idle"
  /\ IF lifecycle[current] = "TransientError"
     THEN InitWorker
     ELSE UNCHANGED <<worker, taskVars, lifeVars>>
  /\ UNCHANGED <<config, current, durable, outside, bounds>>

\* configure; on an actor that has a config it answers CONFLICT and does nothing.
Configure ==
  /\ actor = "idle" /\ ~config /\ configures < MaxConfigures
  /\ configures' = configures + 1 /\ UNCHANGED <<faults, crashes, deletes>>
  /\ config' = TRUE /\ ChangeState(current, "Configured")
  /\ actor' = "cfg_persist"
  /\ UNCHANGED <<worker, current, taskVars, durable, outside>>

ConfigurePersist ==
  /\ actor = "cfg_persist"
  /\ \/ pConfig' = config /\ actor' = "cfg_remind" /\ UNCHANGED bounds
     \/ Fail("persist") /\ actor' = "idle" /\ UNCHANGED pConfig
  /\ UNCHANGED <<config, worker, current, lifeVars, taskVars, pStatus, reminder, outside>>

ConfigureReminder ==
  /\ actor = "cfg_remind"
  /\ \/ reminder' = TRUE /\ actor' = "cfg_init" /\ UNCHANGED bounds
     \/ Fail("reminder") /\ actor' = "idle" /\ UNCHANGED reminder
  /\ UNCHANGED <<config, worker, current, lifeVars, taskVars, pStatus, pConfig, outside>>

ConfigureInit ==
  /\ actor = "cfg_init" /\ actor' = "idle"
  /\ InitWorker
  /\ UNCHANGED <<config, current, durable, outside, bounds>>

\* Mutant of DiscardWorker: the worker is forgotten but not told.
ForgetWorker ==
  /\ deletes' = IF deletes < MaxDeletes THEN deletes + 1 ELSE deletes
  /\ worker' = NoWorker
  /\ UNCHANGED <<faults, crashes, configures, taskVars>>

\* worker.delete() then worker.shutdown(): both commands are queued, unless the
\* task has ended.  The actor forgets the worker without waiting for it.
DiscardWorker ==
  /\ deletes' = IF deletes < MaxDeletes THEN deletes + 1 ELSE deletes
  /\ UNCHANGED <<faults, crashes, configures>>
  /\ cmds' = [w \in Workers |-> IF w = worker /\ Live(w)
                                THEN cmds[w] \o <<"Delete", "Shutdown">> ELSE cmds[w]]
  /\ worker' = NoWorker
  /\ UNCHANGED <<wpc, owner>>

Deprovision ==
  /\ actor = "idle" /\ deletes < MaxDeletes /\ actor' = "dep_remind"
  /\ DiscardWorker
  /\ UNCHANGED <<config, current, lifeVars, durable, outside>>

DeprovisionReminder ==
  /\ actor = "dep_remind"
  /\ \/ /\ reminder' = FALSE /\ config' = FALSE
        /\ ChangeState(current, "Deleted")
        /\ actor' = "dep_persist" /\ UNCHANGED bounds
     \/ Fail("reminder") /\ actor' = "idle" /\ UNCHANGED <<reminder, config, lifeVars>>
  /\ UNCHANGED <<worker, current, taskVars, pStatus, pConfig, outside>>

DeprovisionPersist ==
  /\ actor = "dep_persist" /\ actor' = "idle"
  /\ \/ pConfig' = config /\ UNCHANGED bounds
     \/ Fail("persist") /\ UNCHANGED pConfig
  /\ UNCHANGED <<config, worker, current, lifeVars, taskVars, pStatus, reminder, outside>>

\* Mutant of Leave: the aborted watcher stores an empty status.
LeaveStoringNothing ==
  /\ actor' = "inactive" /\ config' = FALSE /\ worker' = NoWorker
  /\ dirty' = FALSE /\ saving' = NoStatus
  /\ pStatus' \in {pStatus, saving}
  /\ UNCHANGED <<current, lifecycle, reminder, outside>>

\* The end of on_deactivate: the watcher is aborted, perhaps in mid write, and
\* the actor object is dropped.
Leave ==
  /\ actor' = "inactive" /\ config' = FALSE /\ worker' = NoWorker
  /\ dirty' = FALSE /\ saving' = NoStatus
  /\ pStatus' \in {pStatus} \cup ({saving} \ {NoStatus})
  /\ UNCHANGED <<current, lifecycle, reminder, outside>>

\* on_deactivate of a transient query that has a worker deletes it; any other
\* worker is shut down and awaited; without one the actor leaves at once.
DeactivateTransient ==
  /\ worker # NoWorker /\ Transient /\ config
  /\ DiscardWorker /\ actor' = "deact_remind"
  /\ UNCHANGED <<config, current, lifeVars, durable, outside>>

DeactivateRunning ==
  /\ WorkerRunning /\ ~(Transient /\ config)
  /\ cmds' = [cmds EXCEPT ![worker] = Append(@, "Shutdown")]
  /\ actor' = "deact_wait"
  /\ UNCHANGED <<config, worker, current, lifeVars, wpc, owner, durable, outside, bounds>>

DeactivateIdle ==
  /\ ~WorkerRunning /\ ~(worker # NoWorker /\ Transient /\ config)
  /\ Leave /\ UNCHANGED <<taskVars, pConfig, bounds>>

Deactivate ==
  actor = "idle" /\ (DeactivateTransient \/ DeactivateRunning \/ DeactivateIdle)

DeactivateReminder ==
  /\ actor = "deact_remind" /\ actor' = "deact_persist"
  /\ \/ reminder' = FALSE /\ UNCHANGED bounds
     \/ Fail("reminder") /\ UNCHANGED reminder
  /\ config' = FALSE /\ ChangeState(current, "Deleted")
  /\ UNCHANGED <<worker, current, taskVars, pStatus, pConfig, outside>>

DeactivatePersist ==
  /\ actor = "deact_persist"
  /\ \/ pConfig' = config /\ UNCHANGED bounds
     \/ Fail("persist") /\ UNCHANGED pConfig
  /\ Leave /\ UNCHANGED taskVars

\* shutdown_async returns once the worker task has ended.
DeactivateWait ==
  /\ actor = "deact_wait" /\ ~WorkerRunning
  /\ Leave /\ UNCHANGED <<taskVars, pConfig, bounds>>

HandlerStep ==
  \/ OnReminder \/ ConfigurePersist \/ ConfigureReminder \/ ConfigureInit
  \/ DeprovisionReminder \/ DeprovisionPersist \/ DeactivateReminder
  \/ DeactivatePersist \/ DeactivateWait

-----------------------------------------------------------------------------
(***************************************************************************)
(* The status watcher, and the crash of the process.                       *)
(***************************************************************************)

\* The watcher sees only the latest state of the channel.
WatcherTake ==
  /\ actor # "inactive" /\ dirty /\ saving = NoStatus
  /\ saving' = lifecycle[current] /\ dirty' = FALSE
  /\ UNCHANGED <<actorVars, lifecycle, taskVars, durable, outside, bounds>>

WatcherSave ==
  /\ actor # "inactive" /\ saving # NoStatus
  /\ \/ pStatus' = saving /\ UNCHANGED bounds
     \/ Fail("status") /\ UNCHANGED pStatus
  /\ saving' = NoStatus
  /\ UNCHANGED <<actorVars, lifecycle, dirty, taskVars, pConfig, reminder, outside>>

Watcher == WatcherTake \/ WatcherSave

\* The process dies: tasks, channels and in-memory indexes are gone, a status
\* write in flight may or may not have reached the state store.
Crash ==
  /\ crashes < MaxCrashes
  /\ crashes' = crashes + 1 /\ UNCHANGED <<faults, configures, deletes>>
  /\ actor' = "inactive" /\ config' = FALSE /\ worker' = NoWorker /\ UNCHANGED current
  /\ lifecycle' = [l \in Lifecycles |-> "New"] /\ dirty' = FALSE /\ saving' = NoStatus
  /\ wpc' = [w \in Workers |-> "none"] /\ cmds' = [w \in Workers |-> <<>>]
  /\ UNCHANGED owner
  /\ index' = IF Volatile THEN [w \in Workers |-> "empty"] ELSE index
  /\ pStatus' \in {pStatus} \cup ({saving} \ {NoStatus})
  /\ UNCHANGED <<pConfig, reminder, subscribed, view>>

Step ==
  \/ \E w \in Workers : WorkerStep(w)
  \/ ActivateOnCall \/ ReminderDue \/ Configure \/ Deprovision \/ Deactivate
  \/ HandlerStep \/ Watcher \/ Crash

Next == Step /\ UNCHANGED profile

\* Tokio runs every task that can make progress; a handler in progress is
\* resumed; the reminder recurs every 60 seconds and queues for the actor's turn
\* lock, so a turn that keeps coming free is eventually given to it.
Fairness ==
  /\ \A w \in Workers : WF_stateVars(WorkerStep(w))
  /\ WF_stateVars(HandlerStep)
  /\ WF_stateVars(Watcher)
  /\ SF_stateVars(ReminderDue)

Spec == Init /\ [][Next]_vars /\ Fairness

-----------------------------------------------------------------------------
(***************************************************************************)
(* Properties.                                                             *)
(***************************************************************************)

\* Every variable holds a value the code can give it; profile never changes.
TypeOK ==
  /\ actor \in ActorPc /\ config \in BOOLEAN /\ worker \in Workers \cup {NoWorker}
  /\ current \in Lifecycles /\ lifecycle \in [Lifecycles -> QueryState]
  /\ dirty \in BOOLEAN /\ saving \in QueryState \cup {NoStatus}
  /\ wpc \in [Workers -> WorkerPc] /\ cmds \in [Workers -> Seq(Command)]
  /\ owner \in [Workers -> Lifecycles] /\ index \in [Workers -> IndexState]
  /\ pStatus \in QueryState /\ pConfig \in BOOLEAN /\ reminder \in BOOLEAN
  /\ subscribed \in BOOLEAN /\ view \in BOOLEAN
  /\ faults \in Nat /\ crashes \in Nat /\ configures \in Nat /\ deletes \in Nat

\* The worker has been told to stop, or is past its loop.
Stopping(w) == cmds[w] # <<>> \/ wpc[w] \in {"del_index", "del_sub", "del_view", "stopped"}

\* However configure, deprovision, deactivation, the reminder, failing calls and
\* crashes interleave, a worker task that is not on its way out is the one the
\* actor holds, of a query that is configured, writing the lifecycle the actor
\* reads: no query is run by two workers that both mean to go on, and none is
\* run that the actor can no longer stop.
WorkerOwnership ==
  \A w \in Workers :
    Live(w) /\ ~Stopping(w) =>
      /\ w = worker /\ config /\ owner[w] = current
      /\ actor \notin {"inactive", "dep_remind", "dep_persist",
                       "deact_remind", "deact_persist", "deact_wait"}

\* As long as no call has failed and nothing was deleted, a worker that consumes
\* changes does so over a completely bootstrapped index, whatever status the
\* watcher had saved when the process crashed and whether or not the index
\* survived the crash.
RestartKeepsResults ==
  faults = 0 /\ deletes = 0 =>
    \A w \in Workers : wpc[w] = "loop" => index[w] = "loaded"

\* The doc comment of QueryWorker: the worker "starts by bootstrapping the query
\* from the sources and then enters a loop of consuming change events".  Stated
\* for a query that is not being deleted.
BootstrapsBeforeStreaming ==
  deletes = 0 => \A w \in Workers : wpc[w] = "loop" => index[w] = "loaded"

\* A query in TransientError whose reminder is registered does not stay there:
\* on_reminder keeps restarting the worker.
TransientErrorIsRetried ==
  (config /\ reminder /\ lifecycle[current] = "TransientError")
    ~> lifecycle[current] # "TransientError"

\* A worker that has been told to stop ends, wherever in its start-up the command
\* found it; so on_deactivate, which waits for it, returns.
StoppingWorkersEnd ==
  /\ \A w \in Workers : (Live(w) /\ Stopping(w)) ~> ~Live(w)
  /\ actor = "deact_wait" ~> actor = "inactive"
=============================================================================
