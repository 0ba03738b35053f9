---------------------------- MODULE QueryStream ----------------------------
(***************************************************************************)
(* The data side of one continuous query in the query host: the consumer   *)
(* group of the query on the publish stream in Redis, the                  *)
(* RedisChangeStream that buffers it (change_stream/                       *)
(* redis_change_stream.rs), the select! loop of QueryWorker that applies   *)
(* and acknowledges changes (query_worker.rs), and the results topic.      *)
(* ResultSequence models the numbers the results carry.                    *)
(*                                                                         *)
(* The query runs on a persistent index, so a restart of the worker skips  *)
(* the bootstrap and resumes from the consumer group.  QueryHost models    *)
(* when the worker is started and stopped; here it may stop and start      *)
(* again at any time.  A deletion tells the worker and forgets it: the     *)
(* worker left over clears the index and the consumer while the next one   *)
(* may already run.                                                        *)
(*                                                                         *)
(* Entry i of the stream is the i-th XADD.  The change in it sets the one  *)
(* element of the model to version i, so the index holds the number of the *)
(* change applied last and a result is that number.                        *)
(***************************************************************************)
EXTENDS Naturals, Sequences, FiniteSets

CONSTANTS
  Kinds,        \* the kinds of entry the stream carries in this model
  BufferSize,   \* ChangeStreamConfig.buffer_size
  FetchBatch,   \* ChangeStreamConfig.fetch_batch_size
  Faults,       \* the fallible calls that may fail in this model
  MaxEntries,   \* bound: entries published
  MaxFaults,    \* bound: failed calls
  MaxStops,     \* bound: shutdowns of the worker
  MaxStale,     \* bound: blocked reads left behind at the same time
  MaxCrashes,   \* bound: crashes of the query-host process
  MaxDeletes    \* bound: deletions of the query (one worker left over at a time)

\* "change": for this query; "other": for another query of the container;
\* "bad": does not deserialise; "malformed": is for this query and does not convert
\* to a source change.
EntryKinds == {"change", "other", "bad", "malformed"}
FaultKinds == {"connect", "group", "process", "publish", "status", "ack", "clear", "unsubscribe"}

ASSUME StreamAssumption ==
  /\ Kinds \subseteq EntryKinds /\ Faults \subseteq FaultKinds
  /\ BufferSize \in Nat \ {0} /\ FetchBatch \in Nat \ {0}
  /\ MaxEntries \in Nat /\ MaxFaults \in Nat /\ MaxStops \in Nat /\ MaxStale \in Nat /\ MaxCrashes \in Nat
  /\ MaxDeletes \in Nat

VARIABLES
  log,        \* the publish stream: the kind of every entry
  group,      \* the consumer group of the query exists
  delivered,  \* last-delivered-id of the consumer group
  pel,        \* pending entries of consumer "qh": delivered, not acknowledged
  stale,      \* number of blocked reads of ended sessions Redis may still serve
  loop,       \* where the worker is in its start or its loop, "down" when there is none
  startAt,    \* start_timestamp: the length of the stream when the worker started, 0 after
  leftover,   \* where the worker of a deleted query is, "none" when it has ended
  fetcher,    \* where the background task of the stream is
  startId,    \* cursor of the fetcher's pass over the pending entries
  batch,      \* entries the fetcher has read and not yet buffered
  buffer,     \* the mpsc channel between fetcher and recv
  unack,      \* RedisChangeStream.unack_item, 0 for None
  loaded,     \* the state of the query is past Bootstrapping
  index,      \* the version of the element in the query's index
  view,       \* what a subscriber of the results topic has: the last result published
  bootAt,     \* history: the length of the stream at the last bootstrap
  groupAt,    \* history: where the consumer group was created
  disturbed,  \* history: a worker left over has acted since the last bootstrap began
  staleReads, faults, stops, crashes, deletes   \* history and bounds

redis    == <<log, group, groupAt, delivered, pel, stale, staleReads>>
indexVars == <<loaded, index, bootAt, disturbed>>
fetchVars == <<fetcher, startId, batch, buffer>>
bounds   == <<faults, stops, crashes, deletes>>
vars == <<redis, loop, startAt, leftover, fetchVars, unack, indexVars, view, bounds>>

StartPc == {"boot", "load", "connect"}
LoopPc == {"down", "recv", "process", "publish", "ack"} \cup StartPc
LeftoverPc == {"none", "starting", "told", "unsubscribe", "signal"}
FetcherPc == {"off", "pending", "sendPending", "read", "sendNew"}

Init ==
  /\ log = <<>> /\ group = FALSE /\ groupAt = 0 /\ delivered = 0 /\ pel = {} /\ stale = 0
  /\ startAt = 0 /\ leftover = "none" /\ bootAt = 0 /\ disturbed = FALSE
  /\ loop = "down" /\ fetcher = "off" /\ startId = 0 /\ batch = <<>> /\ buffer = <<>>
  /\ unack = 0 /\ loaded = FALSE /\ index = 0
  /\ view = 0
  /\ staleReads = 0 /\ faults = 0 /\ stops = 0 /\ crashes = 0 /\ deletes = 0

Fail(kind) ==
  /\ kind \in Faults /\ faults < MaxFaults
  /\ faults' = faults + 1 /\ UNCHANGED <<stops, crashes, deletes>>

-----------------------------------------------------------------------------
(***************************************************************************)
(* Redis, and the publish API and the future queue that feed it.           *)
(***************************************************************************)

\* What the worker makes of an entry: deserialize_message, has_query, try_into.
Undecodable(i) == log[i] = "bad"
HasQuery(i) == log[i] # "other"
Converts(i) == log[i] # "malformed"

\* XADD by the publish API.
Publish(kind) ==
  /\ Len(log) < MaxEntries
  /\ log' = Append(log, kind)
  /\ UNCHANGED <<group, groupAt, delivered, pel, stale, staleReads, loop, startAt, leftover, fetchVars, unack, indexVars, view, bounds>>

\* XADD by the FutureConsumer of the query, which the worker terminates when it ends.
FutureDue == (loop # "down" \/ leftover # "none") /\ Publish("change")

\* XREADGROUP with ">": the next entries, at most FetchBatch of them, become
\* pending for the consumer.
NewEntries ==
  LET n == IF Len(log) - delivered < FetchBatch THEN Len(log) - delivered ELSE FetchBatch
  IN  [k \in 1..n |-> delivered + k]

DeliverNew ==
  /\ group /\ delivered < Len(log)
  /\ delivered' = delivered + Len(NewEntries)
  /\ pel' = pel \cup (delivered + 1)..(delivered + Len(NewEntries))
  /\ UNCHANGED <<log, group, groupAt>>

\* XREADGROUP with an id: b is the batch of pending entries after startId.
IsPendingBatch(b) ==
  /\ \A k \in 1..Len(b) : b[k] \in pel /\ b[k] > startId
  /\ \A k \in 1..(Len(b) - 1) : b[k] < b[k + 1]
  /\ \A i \in pel : i > startId /\ (Len(b) < FetchBatch \/ i < b[Len(b)])
                      => \E k \in 1..Len(b) : b[k] = i

\* Redis answers the blocked read of a session whose task or process is gone:
\* the entries become pending and nobody receives them.
StaleRead ==
  /\ stale > 0 /\ DeliverNew
  /\ stale' = stale - 1 /\ staleReads' = staleReads + 1
  /\ UNCHANGED <<loop, startAt, leftover, fetchVars, unack, indexVars, view, bounds>>

\* Redis notices that the connection is closed.
StaleGone ==
  /\ stale > 0 /\ stale' = stale - 1
  /\ UNCHANGED <<log, group, groupAt, delivered, pel, staleReads, loop, startAt, leftover, fetchVars, unack, indexVars, view, bounds>>

-----------------------------------------------------------------------------
(***************************************************************************)
(* The background task of RedisChangeStream.  A read that fails, as every  *)
(* one does when the consumer group is missing, is tried again at once and *)
(* changes nothing.                                                        *)
(***************************************************************************)

FetchPending ==
  /\ fetcher = "pending" /\ group
  /\ \E n \in 0..FetchBatch : \E b \in [1..n -> pel] :
       /\ IsPendingBatch(b)
       /\ IF n = 0 THEN fetcher' = "read" /\ UNCHANGED <<startId, batch>>
                   ELSE fetcher' = "sendPending" /\ startId' = b[n] /\ batch' = b
  /\ UNCHANGED <<redis, loop, startAt, leftover, buffer, unack, indexVars, view, bounds>>

FetchNew ==
  /\ fetcher = "read" /\ DeliverNew
  /\ batch' = NewEntries /\ fetcher' = "sendNew"
  /\ UNCHANGED <<stale, staleReads, loop, startAt, leftover, startId, buffer, unack, indexVars, view, bounds>>

\* Mutant of SendBatch: the channel is not bounded.
SendBatchUnbounded ==
  /\ fetcher \in {"sendPending", "sendNew"}
  /\ buffer' = Append(buffer, Head(batch)) /\ batch' = Tail(batch)
  /\ fetcher' = IF Len(batch) > 1 THEN fetcher
                ELSE IF fetcher = "sendPending" THEN "pending" ELSE "read"
  /\ UNCHANGED <<redis, loop, startAt, leftover, startId, unack, indexVars, view, bounds>>

\* process_batch: one send into the bounded channel.
SendBatch ==
  /\ fetcher \in {"sendPending", "sendNew"} /\ Len(buffer) < BufferSize
  /\ buffer' = Append(buffer, Head(batch)) /\ batch' = Tail(batch)
  /\ fetcher' = IF Len(batch) > 1 THEN fetcher
                ELSE IF fetcher = "sendPending" THEN "pending" ELSE "read"
  /\ UNCHANGED <<redis, loop, startAt, leftover, startId, unack, indexVars, view, bounds>>

Fetcher == FetchPending \/ FetchNew \/ SendBatch

-----------------------------------------------------------------------------
(***************************************************************************)
(* QueryWorker.                                                            *)
(***************************************************************************)

\* The state of the sources: the last change published to the query.
Snapshot ==
  LET changes == {i \in 1..Len(log) : log[i] = "change"}
  IN  IF changes = {} THEN 0 ELSE CHOOSE i \in changes : \A j \in changes : j <= i

\* The worker begins and takes start_timestamp.  (Errors of its first calls end
\* it again and change nothing here; QueryHost models them.)
Start ==
  /\ loop = "down" /\ loop' = "boot" /\ startAt' = Len(log)
  /\ UNCHANGED <<redis, leftover, fetchVars, unack, indexVars, view, bounds>>

\* A query that was loaded before skips the bootstrap; for a new one the indexes
\* are cleared.  (Whether a clear fails shows nowhere: the elements loaded next
\* replace what it leaves.)
BeginBootstrap ==
  /\ loop = "boot"
  /\ \/ loaded /\ loop' = "connect" /\ UNCHANGED indexVars
     \/ /\ ~loaded /\ loop' = "load" /\ index' = 0 /\ disturbed' = FALSE
        /\ UNCHANGED <<loaded, bootAt>>
  /\ UNCHANGED <<redis, startAt, leftover, fetchVars, unack, view, bounds>>

\* bootstrap tells the subscribers to start over, loads the data of the sources
\* and publishes it as results; then the query is Running.  (A bootstrap that
\* fails is terminal; QueryHost models it.)
Bootstrap ==
  /\ loop = "load" /\ loop' = "connect"
  /\ index' = Snapshot /\ view' = Snapshot /\ loaded' = TRUE /\ bootAt' = Len(log)
  /\ UNCHANGED <<redis, startAt, leftover, fetchVars, unack, disturbed, bounds>>

\* Mutant of CreateGroup: the group begins at the end of the stream.
CreateGroupAtEnd ==
  /\ group' = TRUE
  /\ delivered' = IF group THEN delivered ELSE Len(log)
  /\ groupAt' = IF group THEN groupAt ELSE startAt

\* XGROUP CREATE at the time of the start, unless the group exists.
CreateGroup ==
  /\ group' = TRUE
  /\ delivered' = IF group THEN delivered ELSE startAt
  /\ groupAt' = IF group THEN groupAt ELSE startAt
KeepGroup == UNCHANGED <<group, delivered, groupAt>>

\* Mutant of Connect: the fetcher begins with new entries.
ConnectSkipsPending ==
  /\ loop = "connect" /\ startId' = 0 /\ startAt' = 0
  /\ loop' = "recv" /\ fetcher' = "read" /\ CreateGroup /\ UNCHANGED bounds
  /\ UNCHANGED <<log, pel, stale, staleReads, leftover, batch, buffer, unack, indexVars, view>>

\* RedisChangeStream::new creates the consumer group and spawns the fetcher.  A
\* connection that fails, before or after the group is created, ends the worker;
\* an error of the creation itself is only logged.
Connect ==
  /\ loop = "connect" /\ startId' = 0 /\ startAt' = 0
  /\ \/ loop' = "recv" /\ fetcher' = "pending" /\ CreateGroup /\ UNCHANGED bounds
     \/ loop' = "recv" /\ fetcher' = "pending" /\ KeepGroup /\ Fail("group")
     \/ loop' = "down" /\ fetcher' = "off" /\ Fail("connect") /\ (CreateGroup \/ KeepGroup)
  /\ UNCHANGED <<log, pel, stale, staleReads, leftover, batch, buffer, unack, indexVars, view>>

\* The stream is dropped: its buffer is gone.  A fetcher that is sending gives
\* up; one that is reading, or about to, may have a blocked read with Redis that
\* is still served.
DropStream ==
  /\ fetcher' = "off" /\ startId' = 0 /\ batch' = <<>> /\ buffer' = <<>> /\ unack' = 0
  /\ stale' = IF fetcher \in {"pending", "read"} /\ stale < MaxStale THEN stale + 1 ELSE stale

\* The worker leaves its loop and drops the stream.
EndWorker == loop' = "down" /\ DropStream

\* recv: serve the item that was not acknowledged, or take the next one.  An
\* item that does not deserialise is an error: TransientError, the worker ends.
Recv ==
  /\ loop = "recv"
  /\ \/ /\ unack # 0 /\ loop' = IF HasQuery(unack) THEN "process" ELSE "ack"
        /\ UNCHANGED <<fetchVars, unack, stale>>
     \/ /\ unack = 0 /\ buffer # <<>> /\ ~Undecodable(Head(buffer))
        /\ unack' = Head(buffer) /\ buffer' = Tail(buffer)
        /\ loop' = IF HasQuery(Head(buffer)) THEN "process" ELSE "ack"
        /\ UNCHANGED <<fetcher, startId, batch, stale>>
     \/ /\ unack = 0 /\ buffer # <<>> /\ Undecodable(Head(buffer))
        /\ EndWorker
  /\ UNCHANGED <<log, group, groupAt, delivered, pel, staleReads, startAt, leftover, indexVars, view, bounds>>

\* Mutant of Process: a change that fails is acknowledged all the same.
ProcessAcksOnError ==
  /\ loop = "process"
  /\ \/ /\ index' = unack
        /\ loop' = IF index = unack THEN "ack" ELSE "publish"
        /\ UNCHANGED <<fetchVars, unack, stale, pel, bounds>>
     \/ Fail("process") /\ EndWorker /\ UNCHANGED index /\ pel' = pel \ {unack}
  /\ UNCHANGED <<log, group, groupAt, delivered, staleReads, startAt, leftover, loaded, bootAt, disturbed, view>>

\* process_source_change: the index takes the change; no result if nothing
\* changes.  An error may come before or after the index was written; an event
\* that does not convert is an error too.
Process ==
  /\ loop = "process"
  /\ \/ /\ Converts(unack) /\ index' = unack
        /\ loop' = IF index = unack THEN "ack" ELSE "publish"
        /\ UNCHANGED <<fetchVars, unack, stale, bounds>>
     \/ Converts(unack) /\ Fail("process") /\ EndWorker /\ index' \in {index, unack}
     \/ ~Converts(unack) /\ EndWorker /\ UNCHANGED <<index, bounds>>
  /\ UNCHANGED <<log, group, groupAt, delivered, pel, staleReads, startAt, leftover, loaded, bootAt, disturbed, view>>

\* Publish the result.  A failed request ends the worker; an error
\* status of the sidecar counts as success.
PublishResult ==
  /\ loop = "publish"
  /\ \/ /\ view' = index /\ loop' = "ack"
        /\ UNCHANGED <<fetchVars, unack, stale, bounds>>
     \/ /\ Fail("status") /\ loop' = "ack"
        /\ UNCHANGED <<fetchVars, unack, stale, view>>
     \/ Fail("publish") /\ EndWorker /\ UNCHANGED view
  /\ UNCHANGED <<log, group, groupAt, delivered, pel, staleReads, startAt, leftover, indexVars>>

\* Mutant of Ack: a failed XACK forgets the item.
AckForgets ==
  /\ loop = "ack" /\ loop' = "recv" /\ unack' = 0
  /\ \/ pel' = pel \ {unack} /\ UNCHANGED bounds
     \/ Fail("ack") /\ UNCHANGED pel
  /\ UNCHANGED <<log, group, groupAt, delivered, stale, staleReads, startAt, leftover, fetchVars, indexVars, view>>

\* ack; a failed XACK is logged and the item is served again.
Ack ==
  /\ loop = "ack" /\ loop' = "recv"
  /\ \/ pel' = pel \ {unack} /\ unack' = 0 /\ UNCHANGED bounds
     \/ Fail("ack") /\ UNCHANGED <<pel, unack>>
  /\ UNCHANGED <<log, group, groupAt, delivered, stale, staleReads, startAt, leftover, fetchVars, indexVars, view>>

Worker == BeginBootstrap \/ Bootstrap \/ Connect \/ Recv \/ Process \/ PublishResult \/ Ack

\* Mutant of Shutdown: the command interrupts the processing of a message.
ShutdownAnywhere ==
  /\ loop # "down" /\ stops < MaxStops /\ EndWorker
  /\ stops' = stops + 1 /\ UNCHANGED <<faults, crashes, deletes>>
  /\ UNCHANGED <<log, group, groupAt, delivered, pel, staleReads, startAt, leftover, indexVars, view>>

\* Command::Shutdown, taken between two messages.
Shutdown ==
  /\ loop = "recv" /\ stops < MaxStops /\ EndWorker
  /\ stops' = stops + 1 /\ UNCHANGED <<faults, crashes, deletes>>
  /\ UNCHANGED <<log, group, groupAt, delivered, pel, staleReads, startAt, leftover, indexVars, view>>

\* deprovision sends Command::Delete and forgets the worker, wherever it is; the
\* query may be created again at once.
Delete ==
  /\ loop # "down" /\ leftover = "none" /\ deletes < MaxDeletes
  /\ deletes' = deletes + 1 /\ UNCHANGED <<faults, stops, crashes>>
  /\ leftover' = IF loop \in StartPc THEN "starting" ELSE "told"
  /\ loaded' = FALSE /\ loop' = "down"
  /\ fetcher' = "off" /\ startId' = 0 /\ batch' = <<>> /\ buffer' = <<>> /\ unack' = 0
  /\ startAt' = 0 /\ UNCHANGED <<redis, index, bootAt, disturbed, view>>

-----------------------------------------------------------------------------
(***************************************************************************)
(* The worker left over.  Until it takes the command it finishes its start *)
(* and what it holds; of the entries in its hands the model keeps only     *)
(* that they were delivered.  Its index, consumer group, topic and         *)
(* lifecycle are those of the query created after it.                      *)
(***************************************************************************)

\* What it read, published or set is seen by the worker that runs now: a state it
\* sets before that one has read it makes that one skip its bootstrap.
Disturb == disturbed' = TRUE /\ UNCHANGED <<loop, startAt, fetchVars, unack, bootAt>>
SetState == loaded' \in {loaded, loaded \/ loop = "boot"}

\* It finishes its start.
LeftoverStarts ==
  /\ leftover = "starting" /\ Disturb
  /\ \/ /\ index' = Snapshot /\ view' = Snapshot /\ SetState
        /\ UNCHANGED <<group, groupAt, delivered, leftover>>
     \/ /\ leftover' = "told" /\ UNCHANGED <<loaded, index, view>>
        /\ \/ ~group /\ group' = TRUE /\ \E at \in 0..Len(log) : delivered' = at /\ groupAt' = at
           \/ KeepGroup
  /\ UNCHANGED <<log, pel, stale, staleReads, bounds>>

\* Its loop goes on: it applies a change, publishes its result or acknowledges an
\* entry.
LeftoverWorks ==
  /\ leftover = "told" /\ Disturb
  /\ \/ \E i \in 1..delivered :
          /\ log[i] = "change" /\ UNCHANGED pel
          /\ \/ index' = i /\ UNCHANGED view
             \/ view' = i /\ UNCHANGED index
     \/ \E i \in pel : pel' = pel \ {i} /\ UNCHANGED <<index, view>>
  /\ UNCHANGED <<log, group, groupAt, delivered, stale, staleReads, leftover, loaded, bounds>>

\* Its fetcher reads: the worker that runs now does not receive the entries.
LeftoverFetches ==
  /\ leftover \in {"told", "unsubscribe"} /\ Disturb /\ DeliverNew
  /\ staleReads' = staleReads + 1
  /\ UNCHANGED <<stale, leftover, loaded, index, view, bounds>>

\* An entry that is an error, or a failed call, ends it before it takes the
\* command; the state becomes TransientError.
LeftoverEnds ==
  /\ leftover \in {"starting", "told"} /\ Disturb
  /\ leftover' = "none" /\ SetState
  /\ stale' = IF stale < MaxStale THEN stale + 1 ELSE stale
  /\ UNCHANGED <<log, group, groupAt, delivered, pel, staleReads, index, view, bounds>>

\* Command::Delete: clear the indexes; the error of a clear is ignored.
LeftoverClears ==
  /\ leftover = "told" /\ leftover' = "unsubscribe" /\ Disturb
  /\ \/ index' = 0 /\ UNCHANGED bounds
     \/ Fail("clear") /\ UNCHANGED index
  /\ UNCHANGED <<redis, loaded, view>>

\* unsubscribe: stop the fetcher and delete the consumer with its pending entries;
\* the consumer group stays.  The error is ignored.
LeftoverUnsubscribes ==
  /\ leftover = "unsubscribe" /\ leftover' = "signal" /\ Disturb
  /\ \/ pel' = {} /\ UNCHANGED bounds
     \/ Fail("unsubscribe") /\ UNCHANGED pel
  /\ stale' = IF stale < MaxStale THEN stale + 1 ELSE stale
  /\ UNCHANGED <<log, group, groupAt, delivered, staleReads, loaded, index, view>>

\* The QueryDeleted signal and the end of the result view; errors are ignored.
LeftoverSignals ==
  /\ leftover = "signal" /\ leftover' = "none" /\ Disturb
  /\ \/ view' = 0 /\ UNCHANGED bounds
     \/ Fail("publish") /\ UNCHANGED view
  /\ UNCHANGED <<redis, loaded, index>>

Leftover ==
  \/ LeftoverStarts \/ LeftoverWorks \/ LeftoverFetches \/ LeftoverEnds
  \/ LeftoverClears \/ LeftoverUnsubscribes \/ LeftoverSignals

-----------------------------------------------------------------------------
\* The process dies at any point.  The state Running may not have been saved: the
\* watcher saves it later than it is set, and only logs an error.
Crash ==
  /\ loop # "down" \/ leftover # "none"
  /\ crashes < MaxCrashes
  /\ crashes' = crashes + 1 /\ UNCHANGED <<faults, stops, deletes>>
  /\ loop' = "down" /\ startAt' = 0 /\ leftover' = "none" /\ DropStream
  /\ loaded' \in {loaded, FALSE}
  /\ UNCHANGED <<log, group, groupAt, delivered, pel, staleReads, index, bootAt, disturbed, view>>

Next ==
  \/ \E kind \in Kinds : Publish(kind)
  \/ FutureDue
  \/ StaleRead \/ StaleGone
  \/ Fetcher \/ Worker
  \/ Start \/ Shutdown \/ Delete \/ Leftover \/ Crash

\* Tokio runs the tasks, the reminder restarts a worker that is down.
Fairness ==
  /\ WF_vars(Fetcher) /\ WF_vars(Worker) /\ WF_vars(Start)

Spec == Init /\ [][Next]_vars /\ Fairness

-----------------------------------------------------------------------------
(***************************************************************************)
(* Properties.                                                             *)
(***************************************************************************)

Ids == 1..MaxEntries

\* Every variable holds a value the code can give it.
TypeOK ==
  /\ log \in Seq(EntryKinds) /\ group \in BOOLEAN /\ delivered \in 0..Len(log)
  /\ startAt \in 0..Len(log) /\ bootAt \in 0..Len(log) /\ groupAt \in 0..Len(log)
  /\ leftover \in LeftoverPc /\ disturbed \in BOOLEAN
  /\ pel \subseteq 1..delivered /\ stale \in Nat /\ staleReads \in Nat
  /\ loop \in LoopPc /\ fetcher \in FetcherPc /\ startId \in Nat
  /\ batch \in Seq(1..Len(log)) /\ buffer \in Seq(1..Len(log)) /\ Len(buffer) <= BufferSize
  /\ unack \in 0..Len(log) /\ loaded \in BOOLEAN /\ index \in 0..Len(log) /\ view \in 0..Len(log)
  /\ faults \in Nat /\ stops \in Nat /\ crashes \in Nat /\ deletes \in Nat

\* The entries that fell between the bootstrap and a consumer group created only
\* by a later start: that start skips the bootstrap, and nothing reads them.
Missed == (bootAt + 1)..groupAt

\* The entries acknowledged, or covered by the bootstrap before the group.
Done == ((1..delivered) \ pel) \ Missed

\* A change is acknowledged only once the index reflects it, and is not undone
\* by an older one afterwards: shutdowns, crashes, failed calls, a second
\* bootstrap and redelivery from the pending list lose and reorder nothing but
\* the entries of Missed, which are lost when a start ends between its bootstrap
\* and the creation of the group.  (Unless Redis served the blocked read of a
\* dropped stream; and until the query is deleted.)
AckedIsApplied ==
  loaded /\ staleReads = 0 /\ deletes = 0 =>
    \A i \in Done : log[i] = "change" => index >= i

\* Backpressure: the consumer never holds more pending entries than the buffer,
\* one batch and the item being processed, however often it restarts; a read
\* of a worker that is gone or left over adds at most a batch.
PendingBounded ==
  Cardinality(pel) <= BufferSize + FetchBatch * (1 + staleReads) + 1

\* Without crashes and failed calls, stopping and restarting the worker, or
\* deleting and recreating the query, loses no result: a subscriber has the state
\* of the index, except for the one result about to be published.  (Unless the
\* worker left over from the deletion acted after the recreated query had begun
\* to load: nothing makes the one wait for the other.)
ResultsMatchIndex ==
  faults = 0 /\ crashes = 0 /\ loaded /\ ~disturbed => view = index \/ loop = "publish"

\* The worker runs and its consumer group was never created: the query is Running
\* and reads nothing.
Stuck == loop = "recv" /\ ~group

\* Every entry published to the stream is in the end acknowledged, unless it is
\* one of Missed or a stale read took entries: shutdowns, crashes and failed calls
\* only delay it.  The one failure that does more is an error of the creation of
\* the group, which is only logged and leaves the worker stuck for good.
EntriesAreConsumed ==
  \/ []<>(1..Len(log) \subseteq Done \cup Missed \/ staleReads > 0)
  \/ <>[]Stuck
=============================================================================
