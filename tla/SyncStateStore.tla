--------------------------- MODULE SyncStateStore ---------------------------
(***************************************************************************)
(* The SyncDaprStateStore reaction (reactions/dapr/sync-statestore)        *)
(* consuming the numbered results of ResultSequence.                       *)
(*                                                                         *)
(* At start QueryInitializationService loads the sync point of the query,  *)
(* or copies the result view into the state store and writes a first sync  *)
(* point, the sequence in the view's header.  The view goes on recording   *)
(* between the reads of its header and of its rows.  Then                  *)
(* ChangeEventHandler handles one event at a time (the pubsub component    *)
(* has concurrency 1): it skips an event numbered below the sync point,    *)
(* otherwise writes its keys and moves the sync point.  An exception makes *)
(* the broker deliver the event again.                                     *)
(*                                                                         *)
(* Event i of the topic saves or deletes its keys; `store' and `view' keep *)
(* for each key the event whose outcome it has.                            *)
(***************************************************************************)
EXTENDS ResultSequence

CONSTANTS
  InOrder,     \* the broker delivers a failed event again before later ones
  Faults,      \* the fallible calls of the reaction that may fail in this model
  MaxFaults,   \* bound: failed calls
  MaxRestarts  \* bound: crashes of the reaction

FaultKinds == {"load", "save", "point"}

ASSUME StoreAssumption ==
  /\ InOrder \in BOOLEAN /\ Faults \subseteq FaultKinds
  /\ MaxFaults \in Nat /\ MaxRestarts \in Nat

None == -1   \* no sync point

NoItems == [k \in Keys |-> 0]

\* c with the keys of event i overwritten by it.
Written(c, keys, i) == [k \in Keys |-> IF k \in keys THEN i ELSE c[k]]

\* Event i leaves key k out of a store, as does no event at all.
Absent(i, k) == i # 0 => k \in results[i].removed

VARIABLES
  viewed,     \* the result view has recorded this many events
  view,       \* the result view: the event each key has its value from, 0 if none
  tried,      \* events the broker has delivered
  acked,      \* events the reaction has answered with success
  phase,      \* where the reaction is
  event,      \* the event being handled
  header,     \* the event whose sequence is in the header fetched by the initial sync
  items,      \* the items of the view fetched by the initial sync
  torn,       \* history: for a key not read as of the header, the event that mends it
  syncPoint,  \* _syncPoints[query] in memory, None before initialisation
  savedPoint, \* the sync point in the state store, None if there is none
  store,      \* the state store: the event each key has its value from
  resyncs,    \* history: initial syncs over a store that was not empty
  faults, restarts

fetched == <<header, items, torn>>
reaction == <<phase, event, fetched, syncPoint>>
storeVars == <<savedPoint, store>>
counters == <<resyncs, faults, restarts>>
viewVars == <<viewed, view>>
broker == <<tried, acked>>
vars == <<hostVars, viewVars, broker, reaction, storeVars, counters>>

Init ==
  /\ HostInit
  /\ viewed = 0 /\ view = NoItems /\ tried = {} /\ acked = {}
  /\ phase = "down" /\ event = 0 /\ header = 0 /\ items = NoItems /\ torn = NoItems
  /\ syncPoint = None /\ savedPoint = None /\ store = NoItems
  /\ resyncs = 0 /\ faults = 0 /\ restarts = 0

Fail(kind) ==
  /\ kind \in Faults /\ faults < MaxFaults
  /\ faults' = faults + 1 /\ UNCHANGED restarts

\* The process ends: Environment.Exit, or a crash.
Exit ==
  /\ restarts < MaxRestarts /\ restarts' = restarts + 1
  /\ phase' = "down" /\ event' = 0 /\ syncPoint' = None /\ header' = 0 /\ items' = NoItems

-----------------------------------------------------------------------------
(***************************************************************************)
(* The result view and the broker.                                         *)
(***************************************************************************)

\* The view service records the next event of the topic.
ViewRecords ==
  /\ viewed < Len(results) /\ viewed' = viewed + 1
  /\ view' = Written(view, results[viewed + 1].keys, viewed + 1)
  /\ UNCHANGED <<hostVars, broker, reaction, storeVars, counters>>

\* The broker hands the reaction an event that it has not answered: the next
\* one, or one that failed.  With InOrder a failed event holds up the next.
Deliver(i) ==
  /\ phase = "ready" /\ i \in (1..Len(results)) \ acked
  /\ \A j \in 1..(i - 1) : j \in IF InOrder THEN acked ELSE tried
  /\ tried' = tried \cup {i}
  /\ phase' = "handle" /\ event' = i
  /\ UNCHANGED <<hostVars, viewVars, acked, fetched, syncPoint, storeVars, counters>>

-----------------------------------------------------------------------------
(***************************************************************************)
(* QueryInitializationService.                                             *)
(***************************************************************************)

StoreIsEmpty == \A k \in Keys : Absent(store[k], k)

\* Mutant of LoadSyncPoint: a call that fails counts as loaded.
LoadSyncPointIgnoringErrors ==
  /\ phase = "down"
  /\ \/ /\ savedPoint # None
        /\ syncPoint' = savedPoint /\ phase' = "ready" /\ UNCHANGED counters
     \/ /\ savedPoint = None
        /\ phase' = "fetch" /\ UNCHANGED <<syncPoint, counters>>
     \/ /\ savedPoint # None /\ Fail("load") /\ UNCHANGED resyncs
        /\ phase' = "ready" /\ UNCHANGED syncPoint
  /\ UNCHANGED <<hostVars, viewVars, broker, event, fetched, storeVars>>

\* TryLoadSyncPointAsync: a call that fails counts as no sync point.
LoadSyncPoint ==
  /\ phase = "down"
  /\ \/ /\ savedPoint # None
        /\ syncPoint' = savedPoint /\ phase' = "ready" /\ UNCHANGED counters
     \/ /\ savedPoint = None
        /\ resyncs' = (IF StoreIsEmpty THEN resyncs ELSE resyncs + 1)
        /\ phase' = "fetch" /\ UNCHANGED <<syncPoint, faults, restarts>>
     \/ /\ savedPoint # None /\ Fail("load") /\ resyncs' = resyncs + 1
        /\ phase' = "fetch" /\ UNCHANGED syncPoint
  /\ UNCHANGED <<hostVars, viewVars, broker, event, fetched, storeVars>>

\* GetQuerySyncPointFromHeaderAsync.  A query that is not ready in time and a view
\* without header, one that has recorded nothing, terminate the reaction, which is
\* started again, as after CrashReaction.
FetchHeader ==
  /\ phase = "fetch" /\ viewed # 0 /\ phase' = "rows"
  /\ header' = viewed /\ items' = view /\ torn' = NoItems
  /\ UNCHANGED <<hostVars, viewVars, broker, event, syncPoint, storeVars, counters>>

\* The events that touch key k and that the view may be recording while its rows are
\* read: the one of the header, delivered to it again, and those after it.
Since(k) == {j \in header .. viewed + 1 : j <= Len(results) /\ k \in results[j].keys}

First(S) == CHOOSE i \in S : \A j \in S : i <= j

\* What the rows may show: a key as of the header, closed by a later event, or written
\* by one (ViewService!ReadsAreFresh).
Readable == {c \in [Keys -> 0..Len(results)] :
               \A k \in Keys : c[k] # items[k] => Since(k) # {} /\ c[k] \in Since(k) \cup {0}}

\* The event whose answer makes up for reading key k as in c.
MendedBy(c, k) == IF c[k] = items[k] THEN 0 ELSE IF c[k] # 0 THEN c[k] ELSE First(Since(k))

\* BuildListOfItemsToSaveAsync.  A row without the key field terminates the reaction,
\* every time it is there.
FetchRows ==
  /\ phase = "rows"
  /\ \E c \in Readable :
       IF \E k \in Keys : ~Absent(c[k], k) /\ results[c[k]].keyless
       THEN Exit /\ UNCHANGED <<torn, resyncs, faults>>
       ELSE /\ items' = c /\ torn' = [k \in Keys |-> MendedBy(c, k)]
            /\ phase' = "copy" /\ UNCHANGED <<event, syncPoint, header, counters>>
  /\ UNCHANGED <<hostVars, viewVars, broker, storeVars>>

\* SaveBulkStateAsync of the items of the view; the keys the view does not hold
\* are left alone, and agree with it if the store does not hold them either (and
\* they were read as of the header).  A failed call terminates the reaction.
CopyView ==
  /\ phase = "copy"
  /\ \E keys \in SUBSET {k \in Keys : ~Absent(items[k], k)} :
       /\ store' = [k \in Keys |-> IF \/ k \in keys
                                      \/ Absent(items[k], k) /\ Absent(store[k], k) /\ torn[k] = 0
                                   THEN items[k] ELSE store[k]]
       /\ \/ /\ keys = {k \in Keys : ~Absent(items[k], k)}
             /\ phase' = "point" /\ UNCHANGED <<event, fetched, syncPoint, counters>>
          \/ "save" \in Faults /\ Exit /\ UNCHANGED <<torn, resyncs, faults>>
  /\ UNCHANGED <<hostVars, viewVars, broker, savedPoint>>

\* TryUpdateSyncPointAsync with the sequence of the header.
FirstSyncPoint ==
  /\ phase = "point"
  /\ \/ /\ savedPoint' = results[header].seq /\ syncPoint' = results[header].seq
        /\ phase' = "ready" /\ header' = 0 /\ items' = NoItems /\ UNCHANGED <<event, counters>>
     \/ /\ "point" \in Faults /\ Exit /\ savedPoint' \in {savedPoint, results[header].seq}
        /\ UNCHANGED <<resyncs, faults>>
  /\ UNCHANGED <<hostVars, viewVars, broker, torn, store>>

-----------------------------------------------------------------------------
(***************************************************************************)
(* ChangeEventHandler.                                                     *)
(***************************************************************************)

\* The handler returns and the broker is told so.
Answer == phase' = "ready" /\ event' = 0 /\ acked' = acked \cup {event}

\* The handler throws: the broker will deliver the event again.
Throw == phase' = "ready" /\ event' = 0 /\ UNCHANGED acked

\* Mutant of Skip: an old event is refused.
SkipThrows ==
  /\ phase = "handle"
  /\ results[event].keys = {} \/ results[event].seq < syncPoint
  /\ Throw
  /\ UNCHANGED <<hostVars, viewVars, tried, fetched, syncPoint, storeVars, counters>>

\* An event without results is dropped by the SDK, one below the sync point by
\* the handler.
Skip ==
  /\ phase = "handle"
  /\ results[event].keys = {} \/ results[event].seq < syncPoint
  /\ Answer
  /\ UNCHANGED <<hostVars, viewVars, tried, fetched, syncPoint, storeVars, counters>>

\* Mutant of SaveEvent: a failed call does not stop the handler.
SaveEventIgnoringErrors ==
  /\ phase = "handle" /\ results[event].keys # {} /\ results[event].seq >= syncPoint
  /\ ~results[event].keyless
  /\ \E keys \in SUBSET results[event].keys :
       /\ store' = Written(store, keys, event)
       /\ phase' = "sync"
       /\ \/ keys = results[event].keys /\ UNCHANGED counters
          \/ Fail("save") /\ UNCHANGED resyncs
  /\ UNCHANGED <<hostVars, viewVars, broker, event, fetched, syncPoint, savedPoint>>

\* Mutant of SaveEvent: no comparison with the sync point.
SaveEventAlways ==
  /\ phase = "handle" /\ results[event].keys # {} /\ ~results[event].keyless
  /\ store' = Written(store, results[event].keys, event)
  /\ phase' = "sync" /\ UNCHANGED <<acked, event, counters>>
  /\ UNCHANGED <<hostVars, viewVars, tried, fetched, syncPoint, savedPoint>>

\* The bulk save and the deletes.  Some of them may fail: the handler throws.  It
\* always throws, before it saves anything, when a row lacks the key field.
SaveEvent ==
  /\ phase = "handle" /\ results[event].keys # {} /\ results[event].seq >= syncPoint
  /\ \/ results[event].keyless /\ Throw /\ UNCHANGED <<store, counters>>
     \/ /\ ~results[event].keyless
        /\ \E keys \in SUBSET results[event].keys :
             /\ store' = Written(store, keys, event)
             /\ \/ /\ keys = results[event].keys
                   /\ phase' = "sync" /\ UNCHANGED <<acked, event, counters>>
                \/ Fail("save") /\ Throw /\ UNCHANGED resyncs
  /\ UNCHANGED <<hostVars, viewVars, tried, fetched, syncPoint, savedPoint>>

\* TryUpdateSyncPointAsync; if the call fails the handler throws, and the store
\* may have the new sync point nevertheless.
UpdateSyncPoint ==
  /\ phase = "sync"
  /\ \/ /\ savedPoint' = results[event].seq /\ syncPoint' = results[event].seq
        /\ Answer /\ UNCHANGED counters
     \/ /\ Fail("point") /\ Throw /\ savedPoint' \in {savedPoint, results[event].seq}
        /\ UNCHANGED <<syncPoint, resyncs>>
  /\ UNCHANGED <<hostVars, viewVars, tried, fetched, store>>

\* The reaction crashes at any point; an event in hand is delivered again.
CrashReaction ==
  /\ phase # "down" /\ Exit
  /\ \/ UNCHANGED savedPoint
     \/ phase = "sync" /\ savedPoint' = results[event].seq
  /\ UNCHANGED <<hostVars, viewVars, broker, torn, store, resyncs, faults>>

Reaction ==
  \/ LoadSyncPoint \/ FetchHeader \/ FetchRows \/ CopyView \/ FirstSyncPoint
  \/ Skip \/ SaveEvent \/ UpdateSyncPoint

Next ==
  \/ HostNext /\ UNCHANGED <<viewVars, broker, reaction, storeVars, counters>>
  \/ ViewRecords \/ (\E i \in 1..MaxResults : Deliver(i))
  \/ Reaction \/ CrashReaction

\* The broker delivers what is not answered, Kubernetes restarts the reaction, and the
\* view service records what is published (ViewService!ViewCatchesUp).
Fairness ==
  /\ WF_vars(Reaction \/ \E i \in 1..MaxResults : Deliver(i))
  /\ WF_vars(ViewRecords)

Spec == Init /\ [][Next]_vars /\ Fairness

-----------------------------------------------------------------------------
(***************************************************************************)
(* Properties.                                                             *)
(***************************************************************************)

Contents == [Keys -> 0..Len(results)]
Phases == {"down", "fetch", "rows", "copy", "point", "ready", "handle", "sync"}

\* Every variable holds a value the code can give it.
TypeOK ==
  /\ HostTypeOK
  /\ viewed \in 0..Len(results) /\ view \in Contents /\ items \in Contents
  /\ torn \in Contents /\ store \in Contents
  /\ tried \subseteq 1..Len(results) /\ acked \subseteq tried
  /\ phase \in Phases /\ event \in 0..Len(results) /\ header \in 0..Len(results)
  /\ (phase \in {"rows", "copy", "point"} <=> header # 0)
  /\ (phase \in {"handle", "sync"} <=> event # 0) /\ (event # 0 => event \in tried)
  /\ syncPoint \in Nat \cup {None} /\ savedPoint \in Nat \cup {None}
  /\ (phase \in {"ready", "handle", "sync"} <=> syncPoint # None)
  /\ resyncs \in Nat /\ faults \in Nat /\ restarts \in Nat

\* Key k was read while the view recorded a change of it, and the event that writes
\* it again is still to be answered.
Torn(k) == torn[k] # 0 /\ torn[k] \notin acked

\* What the README of the reaction promises, that "the state store is kept
\* up-to-date with the latest query results": an event the reaction has answered
\* is in the store, or something newer is.
AckedIsStored ==
  \A i \in acked : \A k \in results[i].keys : store[k] >= i \/ Torn(k)

\* The sync point makes handling idempotent: whatever is saved in part, thrown,
\* crashed and delivered again, no answered event is missing from the store if
\* the numbers increase, events are delivered in order and every initial sync
\* began with an empty store.  The only exception is a key that the view changed
\* while the initial sync read it, and only until the event that changed it is answered.
AckedIsStoredInOrder ==
  InOrder /\ NumbersIncrease /\ resyncs = 0 => AckedIsStored

\* Under the same conditions, and with the same exception, a key never goes back to
\* an older result, even when an event is handled twice.
StoreNeverGoesBack ==
  [][InOrder /\ NumbersIncrease' /\ resyncs' = 0
       => \A k \in Keys : store'[k] >= store[k] \/ Torn(k)]_vars

\* An event that ChangeEventHandler refuses for ever is waiting to be answered, and
\* with it all that follow.
Blocked == \E i \in (1..Len(results)) \ acked : results[i].keyless

\* Every result published is in the end answered, unless an event without key field
\* is in the way: a failed call, a crash or a failed initial sync only delays it.
EventsAreAnswered ==
  \A i \in 1..MaxResults : i <= Len(results) ~> i \in acked \/ Blocked
=============================================================================
