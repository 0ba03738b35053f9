---------------------------- MODULE ViewService ----------------------------
(***************************************************************************)
(* The view service (query-container/view-svc) for one query: the actor    *)
(* ViewActor, the task ViewWorker that consumes the result topic, the      *)
(* MongoViewStore it writes and a client that reads the view.              *)
(*                                                                         *)
(* A result event is a record of its kind, its time and the row operations *)
(* record_change derives from it: an added result is put, a deleted one is *)
(* closed, an updated one is closed and put.  A row holds the key its hash *)
(* stands for (the grouping values, or all values) and, as its value, the  *)
(* position of the event that wrote it.                                    *)
(*                                                                         *)
(* The Redis stream is consumed in order and resumes with the first entry  *)
(* that is not acknowledged; how it does so is the subject of QueryStream, *)
(* whose change stream is the same code.                                   *)
(***************************************************************************)
EXTENDS Integers, Sequences

CONSTANTS
  Keys,           \* hashes of results
  Changes,        \* row operations a change event may hold
  Kinds,          \* kinds of event the query host publishes
  Policies,       \* retention policies a configure call may carry
  ExpireAfter,    \* RetentionPolicy::Expire.after_seconds
  Faults,         \* the fallible calls that may fail in this model
  MaxTime,        \* bound: clock
  MaxEvents,      \* bound: published events
  MaxFaults,      \* bound: failed calls and crashes
  MaxConfigures,  \* bound: configure calls
  MaxStops        \* bound: deprovision calls and deactivations

FaultKinds == {"persist", "reminder", "index", "connect", "group", "row", "meta", "drop",
               "state", "ack", "crash"}
EventKinds == {"reset", "change", "status", "bad"}
Writes == [key : Keys, put : BOOLEAN]
ChangeEvents(times) == [kind : EventKinds, ts : times, writes : Changes \cup {<<>>}]

ASSUME ViewAssumption ==
  /\ Changes \subseteq Seq(Writes) /\ Kinds \subseteq EventKinds
  /\ Policies \subseteq {"Latest", "Expire", "All"} /\ ExpireAfter \in Nat
  /\ Faults \subseteq FaultKinds
  /\ MaxTime \in Nat /\ MaxEvents \in Nat /\ MaxFaults \in Nat
  /\ MaxConfigures \in Nat /\ MaxStops \in Nat

NoPolicy == "NoPolicy"
NoMeta == [seq |-> 0, ts |-> 0]
Open == MaxTime + 1              \* MAX_TIMESTAMP: the row is current
ViewDocuments(n) == [key : Keys, val : 1 .. n, from : 0 .. MaxTime, to : -1 .. Open]

VARIABLES
  topic,      \* Redis stream <query>-results
  bootstrap,  \* the query host is between BootstrapStarted and BootstrapCompleted
  results,    \* keys of the query's current result
  now,        \* the clock
  joined,     \* the consumer group "view-svc" exists
  start,      \* events the view is without: published before the group was created, or
              \* recorded in a collection that deprovision has dropped
  pos,        \* entries the group has acknowledged or will never be given
  actor,      \* handler of the actor in progress
  config,     \* ViewActor.config
  held,       \* ViewActor.worker is set
  pConfig,    \* durable actor state, key "config"
  reminder,   \* the "ping" reminder is registered
  wpc,        \* program counter of the worker task
  wcfg,       \* spec the worker was started with
  at,         \* row operations of the event in hand already done
  reason,     \* ShutdownReason the worker ended with, or "Running"
  cmds,       \* command channel of the worker
  policy,     \* MongoViewStore.retention_policy of this query
  rows,       \* ViewDocuments of the collection
  meta,       \* MetadataDocument of the collection
  since,      \* history: the rows of earlier times may have been removed
  reader,     \* get_view in progress
  faults, configures, stops   \* bound counters

hostVars   == <<topic, bootstrap, results, now>>
groupVars  == <<joined, start, pos>>
actorVars  == <<actor, config, held>>
durable    == <<pConfig, reminder>>
workerVars == <<wpc, wcfg, at, reason, cmds>>
storeVars  == <<policy, rows, meta, since>>
bounds     == <<faults, configures, stops>>
vars == <<hostVars, groupVars, actorVars, durable, workerVars, storeVars, reader, bounds>>

Idle == [pc |-> "idle", seq |-> 0, ts |-> 0, at |-> 0]

Init ==
  /\ topic = <<>> /\ bootstrap = FALSE /\ results = {} /\ now = 0
  /\ joined = FALSE /\ start = 0 /\ pos = 0
  /\ actor = "inactive" /\ config = NoPolicy /\ held = FALSE
  /\ pConfig = NoPolicy /\ reminder = FALSE
  /\ wpc = "none" /\ wcfg = NoPolicy /\ at = 0 /\ reason = "Running" /\ cmds = <<>>
  /\ policy = NoPolicy /\ rows = {} /\ meta = NoMeta /\ since = 0
  /\ reader = Idle
  /\ faults = 0 /\ configures = 0 /\ stops = 0

Fail(kind) ==
  /\ kind \in Faults /\ faults < MaxFaults
  /\ faults' = faults + 1 /\ UNCHANGED <<configures, stops>>

-----------------------------------------------------------------------------
(***************************************************************************)
(* The query host.                                                         *)
(***************************************************************************)

\* The query host publishes once it has configured the view, and not while it waits
\* for configure to return.  Time passes, or not, from one event to the next.
Emit(kind, ts, writes) ==
  /\ kind \in Kinds /\ Len(topic) < MaxEvents
  /\ pConfig # NoPolicy /\ actor \notin {"cfg_persist", "cfg_remind"}
  /\ topic' = Append(topic, [kind |-> kind, ts |-> ts, writes |-> writes])
  /\ now' \in {now, now + 1} \cap 0 .. MaxTime

\* The control signals of the query worker carry the time of the query host.
\* BootstrapStarted and QueryDeleted empty the result, the others leave it.
PublishSignal ==
  /\ \/ Emit("reset", now, <<>>) /\ bootstrap' \in BOOLEAN /\ results' = {}
     \/ Emit("status", now, <<>>) /\ bootstrap' = FALSE /\ UNCHANGED results
     \/ Emit("bad", now, <<>>) /\ UNCHANGED <<bootstrap, results>>
  /\ UNCHANGED <<groupVars, actorVars, durable, workerVars, storeVars, reader, bounds>>

\* A change of the result, which only removes what is there and only adds what is
\* not.  Its time is 0 in the bootstrap and the source's time afterwards.
PublishChange ==
  \E c \in Changes :
    LET closed == {c[j].key : j \in {i \in DOMAIN c : ~c[i].put}}
        put    == {c[j].key : j \in {i \in DOMAIN c : c[i].put}}
    IN  /\ closed \subseteq results /\ (put \ closed) \cap results = {}
        /\ results' = (results \ closed) \cup put
        /\ \E ts \in IF bootstrap THEN {0} ELSE {now, now - 1} \cap Nat : Emit("change", ts, c)
        /\ UNCHANGED <<bootstrap, groupVars, actorVars, durable, workerVars, storeVars, reader,
                       bounds>>

-----------------------------------------------------------------------------
(***************************************************************************)
(* ViewWorker.                                                             *)
(***************************************************************************)

\* The inner task returns; the watch channel still says Running.
EndWith(r) == wpc' = "ending" /\ reason' = r /\ at' = 0 /\ UNCHANGED <<wcfg, cmds>>

GotoLoop == wpc' = "loop" /\ at' = 0 /\ UNCHANGED <<wcfg, reason, cmds>>

\* The retention policies are kept in memory only, and forgotten with the view.
SetRetentionPolicy(p) == policy' = p
ForgetPolicy == policy' = NoPolicy

\* init_view: the policy is set, then the indexes are created.
InitView ==
  /\ wpc = "init" /\ SetRetentionPolicy(wcfg)
  /\ \/ wpc' = "stream" /\ UNCHANGED <<wcfg, at, reason, cmds, bounds>>
     \/ Fail("index") /\ EndWith("Error")
  /\ UNCHANGED <<hostVars, groupVars, actorVars, durable, rows, meta, since, reader>>

\* RedisChangeStream::new.  The group starts at the end of the topic; an error of
\* its creation is only logged.
OpenStream ==
  /\ wpc = "stream"
  /\ \/ /\ joined' = TRUE /\ GotoLoop /\ UNCHANGED bounds
        /\ IF joined THEN UNCHANGED <<start, pos>>
                     ELSE start' = Len(topic) /\ pos' = Len(topic)
     \/ Fail("group") /\ GotoLoop /\ UNCHANGED groupVars
     \/ Fail("connect") /\ EndWith("Error") /\ UNCHANGED groupVars
  /\ UNCHANGED <<hostVars, actorVars, durable, storeVars, reader>>

HandleCommand ==
  /\ wpc = "loop" /\ cmds # <<>>
  /\ \/ /\ Head(cmds) = "Shutdown" /\ UNCHANGED policy
        /\ wpc' = "ending" /\ reason' = "Deactivated"
     \/ /\ Head(cmds) # "Shutdown" /\ SetRetentionPolicy(Head(cmds))
        /\ UNCHANGED <<wpc, reason>>
  /\ cmds' = Tail(cmds)
  /\ UNCHANGED <<hostVars, groupVars, actorVars, durable, wcfg, at, rows, meta, since, reader,
                 bounds>>

Event == topic[pos + 1]

Undecodable == Event.kind = "bad"

\* recv and the match on the event.  An entry that does not deserialise breaks the
\* loop; a change of a view without a policy is NotFound.
Recv ==
  /\ wpc = "loop" /\ joined /\ pos < Len(topic)
  /\ \/ Undecodable /\ EndWith("Deactivated") /\ UNCHANGED policy
     \/ /\ Event.kind = "change" /\ policy = NoPolicy
        /\ EndWith("Error") /\ UNCHANGED policy
     \/ /\ Event.kind = "change" /\ policy # NoPolicy
        /\ wpc' = "write" /\ UNCHANGED <<wcfg, at, reason, cmds, policy>>
     \/ /\ Event.kind = "reset" /\ ForgetPolicy
        /\ wpc' = "drop" /\ UNCHANGED <<wcfg, at, reason, cmds>>
     \/ Event.kind = "status" /\ wpc' = "state" /\ UNCHANGED <<wcfg, at, reason, cmds, policy>>
  /\ UNCHANGED <<hostVars, groupVars, actorVars, durable, rows, meta, since, reader, bounds>>

\* delete_view: the policy is gone already, the collection is dropped.
DropCollection == rows' = {} /\ meta' = NoMeta /\ since' = 0 /\ UNCHANGED policy

WorkerDrop ==
  /\ wpc = "drop"
  /\ \/ DropCollection /\ wpc' = "ack" /\ UNCHANGED <<wcfg, at, reason, cmds, bounds>>
     \/ Fail("drop") /\ EndWith("Error") /\ UNCHANGED storeVars
  /\ UNCHANGED <<hostVars, groupVars, actorVars, durable, reader>>

SetHeader == meta' = [seq |-> pos + 1, ts |-> Event.ts]

\* set_state; its errors are ignored.
SetState ==
  /\ wpc = "state" /\ wpc' = "ack"
  /\ \/ SetHeader /\ UNCHANGED bounds
     \/ Fail("state") /\ UNCHANGED meta
  /\ UNCHANGED <<hostVars, groupVars, actorVars, durable, wcfg, at, reason, cmds, policy, rows,
                 since, reader>>

\* Rows that were valid until just before t are gone.
Lose(t) == since' = IF since < t THEN t ELSE since

Current(k) == {r \in rows : r.key = k /\ r.to = Open}

\* Mutant of Close: the row is removed under every policy.
CloseRemoves(k) == rows' = rows \ Current(k) /\ UNCHANGED since

\* Mutant of Close: the row stays valid at the time of the event that closes it.
CloseAtTime(k) ==
  /\ rows' = (rows \ Current(k)) \cup {[r EXCEPT !.to = Event.ts] : r \in Current(k)}
  /\ UNCHANGED since

\* find_one_and_delete under Latest, else the row is closed before the event's time.
Close(k) ==
  /\ rows' = (rows \ Current(k)) \cup
             IF policy = "Latest" THEN {} ELSE {[r EXCEPT !.to = Event.ts - 1] : r \in Current(k)}
  /\ IF policy = "Latest" /\ Current(k) # {} THEN Lose(Event.ts) ELSE UNCHANGED since

\* find_one_and_replace with upsert.
Put(k) ==
  /\ rows' = (rows \ Current(k)) \cup
             {[key |-> k, val |-> pos + 1, from |-> Event.ts, to |-> Open]}
  /\ UNCHANGED since

\* Mutant of WriteRow: a row operation that fails does not end record_change.
WriteRowIgnoresErrors ==
  /\ wpc = "write" /\ at < Len(Event.writes)
  /\ LET w == Event.writes[at + 1]
     IN  \/ (IF w.put THEN Put(w.key) ELSE Close(w.key)) /\ UNCHANGED bounds
         \/ Fail("row") /\ UNCHANGED <<rows, since>>
  /\ at' = at + 1 /\ UNCHANGED <<wpc, wcfg, reason, cmds>>
  /\ UNCHANGED <<hostVars, groupVars, actorVars, durable, policy, meta, reader>>

\* record_change, one step per row operation.
WriteRow ==
  /\ wpc = "write" /\ at < Len(Event.writes)
  /\ LET w == Event.writes[at + 1]
     IN  \/ /\ IF w.put THEN Put(w.key) ELSE Close(w.key)
            /\ at' = at + 1 /\ UNCHANGED <<wpc, wcfg, reason, cmds, bounds>>
         \/ Fail("row") /\ EndWith("Error") /\ UNCHANGED <<rows, since>>
  /\ UNCHANGED <<hostVars, groupVars, actorVars, durable, policy, meta, reader>>

\* The end of record_change: sequence and time of the view.
WriteHeader ==
  /\ wpc = "write" /\ at = Len(Event.writes)
  /\ \/ /\ SetHeader /\ wpc' = "ack" /\ at' = 0 /\ UNCHANGED <<wcfg, reason, cmds, bounds>>
     \/ Fail("meta") /\ EndWith("Error") /\ UNCHANGED meta
  /\ UNCHANGED <<hostVars, groupVars, actorVars, durable, policy, rows, since, reader>>

\* Mutant of Ack: the item stays in hand and is acknowledged again.
AckKeepsItem ==
  /\ wpc = "ack" /\ pos' = pos + 1
  /\ UNCHANGED <<hostVars, joined, start, actorVars, durable, workerVars, storeVars, reader,
                 bounds>>

\* ack; an error is only logged and the entry is served again.
Ack ==
  /\ wpc = "ack" /\ GotoLoop
  /\ \/ pos' = pos + 1 /\ UNCHANGED bounds
     \/ Fail("ack") /\ UNCHANGED pos
  /\ UNCHANGED <<hostVars, joined, start, actorVars, durable, storeVars, reader>>

\* The outer task publishes the state and completes.
WorkerEnds ==
  /\ wpc = "ending" /\ wpc' = "none" /\ cmds' = <<>>
  /\ UNCHANGED <<hostVars, groupVars, actorVars, durable, wcfg, at, reason, storeVars, reader,
                 bounds>>

WorkerStep == \/ InitView \/ OpenStream \/ HandleCommand \/ Recv \/ WorkerDrop \/ SetState
              \/ WriteRow \/ WriteHeader \/ Ack \/ WorkerEnds

-----------------------------------------------------------------------------
(***************************************************************************)
(* ViewActor.                                                              *)
(***************************************************************************)

\* The durable state of the actor and its reminder.
ReadConfig == config' = pConfig
WriteConfig == pConfig' = config
RegisterReminder == reminder' = TRUE
UnregisterReminder == reminder' = FALSE

\* A worker that still runs is told the new spec.
Reconfigure(spec) == cmds' = Append(cmds, spec) /\ UNCHANGED <<wpc, wcfg, at, reason>>

\* init_worker with the given spec.
InitWorker(spec) ==
  /\ held' = TRUE
  /\ IF wpc # "none"
     THEN Reconfigure(spec)
     ELSE wpc' = "init" /\ wcfg' = spec /\ at' = 0 /\ reason' = "Running" /\ cmds' = <<>>

\* on_activate, for a call or for the reminder.
Activate ==
  /\ actor = "inactive" /\ actor' = "idle" /\ ReadConfig
  /\ IF pConfig = NoPolicy THEN UNCHANGED <<held, workerVars>> ELSE InitWorker(pConfig)
  /\ UNCHANGED <<hostVars, groupVars, durable, storeVars, reader, bounds>>

\* Mutant of OnReminder: a worker that ended with an error is left alone.
OnReminderIgnoresErrors ==
  /\ actor = "idle" /\ reminder /\ held /\ wpc = "none" /\ reason = "Deactivated"
  /\ InitWorker(config) /\ UNCHANGED <<actor, config>>
  /\ UNCHANGED <<hostVars, groupVars, durable, storeVars, reader, bounds>>

\* on_reminder does something only when the worker has ended with an error.
OnReminder ==
  /\ actor = "idle" /\ reminder /\ held /\ wpc = "none" /\ reason = "Error"
  /\ InitWorker(config) /\ UNCHANGED <<actor, config>>
  /\ UNCHANGED <<hostVars, groupVars, durable, storeVars, reader, bounds>>

\* configure: write_config sets the value in memory first.
Configure ==
  /\ actor = "idle" /\ configures < MaxConfigures
  /\ configures' = configures + 1 /\ UNCHANGED <<faults, stops>>
  /\ config' \in Policies /\ actor' = "cfg_persist" /\ UNCHANGED held
  /\ UNCHANGED <<hostVars, groupVars, durable, workerVars, storeVars, reader>>

ConfigurePersist ==
  /\ actor = "cfg_persist"
  /\ \/ WriteConfig /\ actor' = "cfg_remind" /\ UNCHANGED bounds
     \/ Fail("persist") /\ actor' = "idle" /\ UNCHANGED pConfig
  /\ UNCHANGED <<hostVars, groupVars, config, held, reminder, workerVars, storeVars, reader>>

ConfigureInit ==
  /\ actor = "cfg_remind" /\ actor' = "idle"
  /\ \/ RegisterReminder /\ InitWorker(config) /\ UNCHANGED bounds
     \/ Fail("reminder") /\ UNCHANGED <<reminder, held, workerVars>>
  /\ UNCHANGED <<hostVars, groupVars, config, pConfig, storeVars, reader>>

\* worker.take() and shutdown(): Shutdown is sent unless the task has completed.
TakeWorker ==
  /\ stops < MaxStops /\ stops' = stops + 1 /\ UNCHANGED <<faults, configures>>
  /\ held' = FALSE
  /\ cmds' = IF held /\ wpc # "none" THEN Append(cmds, "Shutdown") ELSE cmds
  /\ UNCHANGED <<wpc, wcfg, at, reason>>

Deprovision ==
  /\ actor = "idle"
  /\ \/ UnregisterReminder /\ actor' = "dep_wait" /\ TakeWorker
     \/ Fail("reminder") /\ UNCHANGED <<reminder, actor, held, workerVars>>
  /\ UNCHANGED <<hostVars, groupVars, config, pConfig, storeVars, reader>>

\* shutdown returns when the worker has completed; delete_view follows.
DeprovisionWait ==
  /\ actor = "dep_wait" /\ wpc = "none" /\ actor' = "dep_drop" /\ ForgetPolicy
  /\ UNCHANGED <<hostVars, groupVars, config, held, durable, workerVars, rows, meta, since,
                 reader, bounds>>

DeprovisionDrop ==
  /\ actor = "dep_drop" /\ actor' = "idle"
  /\ \/ DropCollection /\ start' = pos /\ UNCHANGED bounds
     \/ Fail("drop") /\ UNCHANGED <<storeVars, start>>
  /\ UNCHANGED <<hostVars, joined, pos, config, held, durable, workerVars, reader>>

Deactivate ==
  /\ actor = "idle" /\ actor' = "deact_wait" /\ TakeWorker
  /\ UNCHANGED <<hostVars, groupVars, config, durable, storeVars, reader>>

DeactivateWait ==
  /\ actor = "deact_wait" /\ wpc = "none" /\ actor' = "inactive" /\ config' = NoPolicy
  /\ UNCHANGED <<hostVars, groupVars, held, durable, workerVars, storeVars, reader, bounds>>

HandlerStep == \/ ConfigurePersist \/ ConfigureInit \/ DeprovisionWait \/ DeprovisionDrop
               \/ DeactivateWait

-----------------------------------------------------------------------------
(***************************************************************************)
(* The store's garbage collector, a reader, and the crash.                 *)
(***************************************************************************)

CollectGarbage ==
  /\ policy = "Expire"
  /\ \E r \in rows : r.to < now - ExpireAfter
  /\ rows' = {r \in rows : r.to >= now - ExpireAfter} /\ Lose(now - ExpireAfter)
  /\ UNCHANGED <<hostVars, groupVars, actorVars, durable, workerVars, policy, meta, reader, bounds>>

\* get_view up to the header: the policy, the metadata and the effective time for
\* the time asked for; NotFound otherwise.
ReadHeader ==
  /\ reader.pc = "idle" /\ policy # NoPolicy /\ meta # NoMeta
  /\ \E t \in 0 .. now :
       /\ policy = "Expire" => now - ExpireAfter <= t
       /\ reader' = [pc |-> "rows", seq |-> meta.seq, ts |-> meta.ts,
                     at |-> IF meta.ts < t THEN meta.ts ELSE t]
  /\ UNCHANGED <<hostVars, groupVars, actorVars, durable, workerVars, storeVars, bounds>>

\* The rows that are valid at the effective time.  (An error while they are read is
\* logged and leaves rows out of the answer: that fault is not in the model.)
Visible(t) == {<<r.key, r.val>> : r \in {q \in rows : q.from <= t /\ t <= q.to}}

ReadRows ==
  /\ reader.pc = "rows" /\ reader' = Idle
  /\ UNCHANGED <<hostVars, groupVars, actorVars, durable, workerVars, storeVars, bounds>>

Crash ==
  /\ Fail("crash")
  /\ actor' = "inactive" /\ config' = NoPolicy /\ held' = FALSE
  /\ wpc' = "none" /\ at' = 0 /\ reason' = "Running" /\ cmds' = <<>> /\ UNCHANGED wcfg
  /\ policy' = NoPolicy /\ reader' = Idle
  /\ UNCHANGED <<hostVars, groupVars, durable, rows, meta, since>>

Next ==
  \/ PublishSignal \/ PublishChange
  \/ WorkerStep \/ HandlerStep
  \/ Activate \/ OnReminder \/ Configure \/ Deprovision \/ Deactivate
  \/ CollectGarbage \/ ReadHeader \/ ReadRows \/ Crash

\* Tokio runs the worker and the handler in progress; select! chooses at random, so
\* an event that keeps being ready is received; the reminder recurs every 30 seconds,
\* activates the actor and is given its turn in the end.
Fairness ==
  /\ WF_vars(WorkerStep) /\ WF_vars(HandlerStep)
  /\ SF_vars(Recv) /\ SF_vars(reminder /\ Activate) /\ SF_vars(OnReminder)

Spec == Init /\ [][Next]_vars /\ Fairness

-----------------------------------------------------------------------------
(***************************************************************************)
(* Properties.                                                             *)
(***************************************************************************)

\* Every variable holds a value the code can give it; a hash has at most one
\* current row, which is what find_one relies on.
TypeOK ==
  /\ topic \in Seq(ChangeEvents(0 .. MaxTime))
  /\ bootstrap \in BOOLEAN /\ results \subseteq Keys /\ now \in 0 .. MaxTime
  /\ joined \in BOOLEAN /\ start \in Nat /\ pos \in start .. Len(topic)
  /\ actor \in {"inactive", "idle", "cfg_persist", "cfg_remind", "dep_wait", "dep_drop",
                "deact_wait"}
  /\ config \in Policies \cup {NoPolicy} /\ held \in BOOLEAN
  /\ pConfig \in Policies \cup {NoPolicy} /\ reminder \in BOOLEAN
  /\ wpc \in {"none", "init", "stream", "loop", "write", "drop", "state", "ack", "ending"}
  /\ wcfg \in Policies \cup {NoPolicy} /\ at \in Nat
  /\ wpc \in {"write", "drop", "state", "ack"} => pos < Len(topic)
  /\ reason \in {"Running", "Deactivated", "Error"}
  /\ cmds \in Seq(Policies \cup {"Shutdown"})
  /\ policy \in Policies \cup {NoPolicy} /\ since \in 0 .. MaxTime
  /\ rows \subseteq ViewDocuments(Len(topic))
  /\ \A k \in Keys : \A r, q \in Current(k) : r = q
  /\ meta \in [seq : 0 .. Len(topic), ts : 0 .. MaxTime]
  /\ reader \in [pc : {"idle", "rows"}, seq : 0 .. Len(topic), ts : 0 .. MaxTime, at : 0 .. MaxTime]
  /\ faults \in Nat /\ configures \in Nat /\ stops \in Nat

\* The promise of ResultView, for the header and the rows valid at its time.
Promise == INSTANCE ResultView WITH
  log <- topic, seq <- meta.seq, ts <- meta.ts, exact <- (policy = "All"),
  contents <- IF meta = NoMeta THEN {} ELSE Visible(meta.ts)

\* Whatever fails, crashes or is delivered again, the view is what ResultView
\* promises: its header moves only onto completely recorded results.
ViewKeepsPromise == Promise!Spec

Of(k, pairs) == {p \in pairs : p[1] = k}

\* No event after the one of the header empties the view, and times are in order.
Steady(n) == /\ Promise!InOrder(topic)
             /\ \A i \in n + 1 .. Len(topic) : ~Promise!IsReset(topic[i])

\* What the SyncDaprStateStore reaction relies on when it takes the sequence of the
\* header as its sync point: each key it reads is as of that result, or a later
\* result touches the key and will be delivered to it.  Stated once the event of the
\* header is acknowledged: when that event is delivered again, an update in place
\* closes the row it had written before it writes it again, and a reader in between
\* misses the row.
ReadsAreFresh ==
  /\ reader.pc = "rows" /\ reader.at = reader.ts /\ Steady(reader.seq)
  /\ reader.seq <= pos \/ wpc = "ack"
  => \A k \in Keys :
       \/ Of(k, Visible(reader.at)) = Of(k, Promise!After(reader.seq))
       \/ \E i \in reader.seq + 1 .. Len(topic) : k \in Promise!Touched(topic[i])

\* Result n is the last one that counts at time t: it is not later, or empties the view.
LastAt(n, t) ==
  LET Counts(i) == \/ i = 0 \/ Promise!IsReset(topic[i])
                   \/ topic[i].kind = "change" /\ topic[i].ts <= t
  IN  Counts(n) /\ \A i \in n + 1 .. reader.seq : ~Counts(i)

\* A read of a past time, of which no row was removed, finds the result of that time,
\* whatever has been recorded or recorded again since.  Rows are removed under Latest
\* when they are superseded, and under Expire once the retention period is over.
HistoryIsExact ==
  /\ reader.pc = "rows" /\ reader.at < reader.ts /\ since <= reader.at /\ Steady(reader.seq)
  /\ \A i \in DOMAIN topic : ~Promise!Shifts(topic[i])
  /\ \A i \in reader.seq + 1 .. Len(topic) : reader.at < topic[i].ts
  => \A n \in 0 .. reader.seq :
       LastAt(n, reader.at) => Visible(reader.at) = Promise!After(n)

\* A registered reminder keeps the view going: every event is in the end handled,
\* through errors, crashes and the restart that each bootstrap costs.
ViewCatchesUp ==
  \A n \in 1 .. MaxEvents :
    [](Len(topic) >= n => <>(pos >= n \/ ~reminder))
=============================================================================
