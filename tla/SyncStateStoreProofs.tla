------------------------ MODULE SyncStateStoreProofs ------------------------
(***************************************************************************)
(* Proofs about SyncStateStore: its type invariant, and that each answered *)
(* event is in the state store, and no key of it goes back, when numbers   *)
(* increase, events are delivered in order and every initial sync begins   *)
(* with an empty store; but for the keys the initial sync read torn, until *)
(* they are mended.                                                        *)
(***************************************************************************)
EXTENDS SyncStateStore, ResultSequenceProofs, WellFoundedInduction

\* A step of the query host only appends to the topic.
LEMMA ResultsGrow ==
  ASSUME HostTypeOK, HostNext
  PROVE  /\ Len(results) \in Nat /\ Len(results') \in Nat /\ Len(results) <= Len(results')
         /\ \A i \in 1..Len(results) : results'[i] = results[i]
<1>1. ASSUME NEW e \in Events, Emit(e)
      PROVE  /\ Len(results') = Len(results) + 1
             /\ \A i \in 1..Len(results) : results'[i] = results[i]
  BY <1>1 DEF HostTypeOK, Emit
<1>2. (~ \E e \in Events : Emit(e)) => results' = results
  BY DEF HostNext, StartManager, EndWorker, EmitFails, StoreSequence, StoreLate, CrashHost
<1>3. Len(results) \in Nat
  BY DEF HostTypeOK
<1> QED BY <1>1, <1>2, <1>3

LEMMA ResultType ==
  ASSUME HostTypeOK, NEW i \in 1..Len(results)
  PROVE  results[i] \in Result /\ results[i].seq \in Nat /\ results[i].keys \subseteq Keys
<1>1. results[i] \in Result
  BY DEF HostTypeOK
<1> QED BY <1>1 DEF Result

\* Overwriting some keys of a store with an event of the topic gives a store.
LEMMA WrittenType ==
  ASSUME NEW c \in Contents, NEW keys, NEW i \in 0..Len(results)
  PROVE  Written(c, keys, i) \in Contents
  BY DEF Contents, Written

\* A nonempty set of events has a first one.
LEMMA FirstIsLeast ==
  ASSUME NEW S \in SUBSET Nat, S # {}
  PROVE  First(S) \in S /\ \A j \in S : First(S) <= j
<1>1. PICK x \in S : \A y \in S : ~ (<<y, x>> \in OpToRel(<, Nat))
  BY NatLessThanWellFounded, WFMin
<1>2. \A y \in S : x <= y
  <2> TAKE y \in S
  <2>1. y < x => <<y, x>> \in OpToRel(<, Nat)
    BY DEF OpToRel
  <2>2. ~(y < x)
    BY <1>1, <2>1, Zenon
  <2> QED BY <2>2
<1> QED BY <1>2 DEF First

\* The event that mends a key comes with or after the one of the header, and
\* touches the key.
LEMMA MendedByLater ==
  ASSUME TypeOK, header # 0, NEW c \in Readable, NEW k \in Keys
  PROVE  /\ MendedBy(c, k) \in 0..Len(results)
         /\ MendedBy(c, k) = 0 <=> c[k] = items[k]
         /\ MendedBy(c, k) # 0 => MendedBy(c, k) >= header /\ k \in results[MendedBy(c, k)].keys
<1>1. Len(results) \in Nat /\ header \in 1..Len(results) /\ viewed \in Nat /\ items[k] \in 0..Len(results)
  BY DEF TypeOK, HostTypeOK, Contents
<1>2. \A j \in Since(k) : j \in 1..Len(results) /\ j >= header /\ k \in results[j].keys
  BY <1>1 DEF Since
<1>3. Since(k) \in SUBSET Nat /\ 0 \notin Since(k)
  BY <1>2
<1>4. CASE c[k] = items[k]
  BY <1>1, <1>4 DEF MendedBy
<1>5. CASE c[k] # items[k]
  <2>1. Since(k) # {} /\ c[k] \in Since(k) \cup {0}
    BY <1>5 DEF Readable
  <2>2. MendedBy(c, k) \in Since(k)
    <3>1. First(Since(k)) \in Since(k)
      BY <1>3, <2>1, FirstIsLeast
    <3> QED BY <1>5, <2>1, <3>1 DEF MendedBy
  <2> QED BY <1>2, <1>3, <1>5, <2>2
<1> QED BY <1>4, <1>5

\* Every step keeps the type invariant.
LEMMA TypeStep ==
  ASSUME TypeOK, [Next]_vars
  PROVE  TypeOK'
<1> USE DEF viewVars, broker, fetched, reaction, storeVars, counters
<1>h. HostTypeOK /\ (UNCHANGED hostVars => HostTypeOK' /\ results' = results /\ Contents' = Contents)
  <2>1. HostTypeOK
    BY DEF TypeOK
  <2> QED BY <2>1, HostTypeStep DEF hostVars, Contents
<1>l. Len(results) \in Nat
  BY <1>h DEF HostTypeOK
<1>e. NoItems \in Contents
  BY <1>l DEF NoItems, Contents
<1>1. CASE HostNext /\ UNCHANGED <<viewVars, broker, reaction, storeVars, counters>>
  <2>1. HostTypeOK'
    BY <1>1, <1>h, HostTypeStep
  <2>2. Len(results') \in Nat /\ Len(results) <= Len(results')
    BY <1>1, <1>h, ResultsGrow
  <2>3. Contents \subseteq Contents'
    BY <1>l, <2>2 DEF Contents
  <2> QED BY <1>1, <1>l, <2>1, <2>2, <2>3 DEF TypeOK
<1>2. CASE ViewRecords
  <2>1. viewed + 1 \in 0..Len(results)
    BY <1>2, <1>l DEF ViewRecords, TypeOK
  <2>2. view' \in Contents
    BY <1>2, <2>1, WrittenType DEF ViewRecords, TypeOK
  <2> QED BY <1>2, <1>h, <2>1, <2>2 DEF ViewRecords, TypeOK
<1>3. ASSUME NEW i \in 1..MaxResults, Deliver(i)
      PROVE  TypeOK'
  BY <1>3, <1>h, <1>l DEF Deliver, TypeOK, Phases
<1>4. CASE LoadSyncPoint
  BY <1>4, <1>h, <1>l DEF LoadSyncPoint, Fail, TypeOK, Phases, None
<1>5. CASE FetchHeader \/ FetchRows
  <2>1. CASE FetchHeader
    <3>1. header' \in 0..Len(results) /\ header' # 0 /\ items' \in Contents /\ torn' \in Contents
      BY <2>1, <1>e DEF FetchHeader, TypeOK
    <3> QED BY <2>1, <1>h, <3>1 DEF FetchHeader, TypeOK, Phases
  <2>2. CASE FetchRows
    <3>1. header # 0 /\ phase = "rows" /\ UNCHANGED <<hostVars, viewed, view, tried, acked, savedPoint, store>>
      BY <2>2 DEF FetchRows, TypeOK
    <3>2. PICK c \in Readable :
            \/ Exit /\ UNCHANGED <<torn, resyncs, faults>>
            \/ /\ items' = c /\ torn' = [k \in Keys |-> MendedBy(c, k)]
               /\ phase' = "copy" /\ UNCHANGED <<event, syncPoint, header, resyncs, faults, restarts>>
      BY <2>2 DEF FetchRows
    <3>3. HostTypeOK' /\ results' = results /\ Contents' = Contents
      BY <1>h, <3>1
    <3>4. CASE Exit /\ UNCHANGED <<torn, resyncs, faults>>
      BY <1>e, <1>l, <3>1, <3>3, <3>4 DEF Exit, TypeOK, Phases, None
    <3>5. CASE /\ items' = c /\ torn' = [k \in Keys |-> MendedBy(c, k)]
               /\ phase' = "copy" /\ UNCHANGED <<event, syncPoint, header, resyncs, faults, restarts>>
      <4>1. items' \in Contents
        BY <3>5 DEF Readable, Contents
      <4>2. torn' \in Contents
        BY <3>1, <3>5, MendedByLater DEF Contents
      <4> QED BY <1>l, <3>1, <3>3, <3>5, <4>1, <4>2 DEF TypeOK, Phases
    <3> QED BY <3>2, <3>4, <3>5
  <2> QED BY <1>5, <2>1, <2>2
<1>6. CASE CopyView
  <2>1. store' \in Contents
    BY <1>6 DEF CopyView, TypeOK, Contents
  <2> QED BY <1>6, <1>h, <1>e, <1>l, <2>1 DEF CopyView, Exit, TypeOK, Phases, None
<1>7. CASE FirstSyncPoint
  <2>1. results[header].seq \in Nat
    <3>1. header \in 1..Len(results)
      BY <1>7, <1>l DEF FirstSyncPoint, TypeOK
    <3> QED BY <1>h, <3>1, ResultType
  <2>2. UNCHANGED <<hostVars, viewed, view, tried, acked, torn, store>>
    BY <1>7 DEF FirstSyncPoint
  <2>3. HostTypeOK' /\ results' = results /\ Contents' = Contents
    BY <1>h, <2>2
  <2>4. phase' \in {"ready", "down"} /\ event' = 0 /\ header' = 0 /\ items' = NoItems
    BY <1>7 DEF FirstSyncPoint, Exit, TypeOK
  <2>5. /\ savedPoint' \in Nat \cup {None} /\ syncPoint' \in Nat \cup {None}
        /\ (phase' = "ready" <=> syncPoint' # None)
    BY <1>7, <2>1 DEF FirstSyncPoint, Exit, TypeOK, None
  <2>6. resyncs' \in Nat /\ faults' \in Nat /\ restarts' \in Nat
    BY <1>7 DEF FirstSyncPoint, Exit, TypeOK
  <2> QED BY <1>e, <1>l, <2>2, <2>3, <2>4, <2>5, <2>6 DEF TypeOK, Phases
<1>8. CASE Skip
  BY <1>8, <1>h, <1>l DEF Skip, Answer, TypeOK, Phases
<1>9. CASE SaveEvent
  <2>1. event \in 0..Len(results)
    BY DEF TypeOK
  <2>2. store' \in Contents
    BY <1>9, <2>1, WrittenType DEF SaveEvent, TypeOK
  <2>3. \/ phase' = "sync" /\ event' = event /\ acked' = acked /\ faults' = faults /\ UNCHANGED <<resyncs, restarts>>
        \/ /\ phase' = "ready" /\ event' = 0 /\ acked' = acked /\ faults' \in {faults, faults + 1}
           /\ UNCHANGED <<resyncs, restarts>>
    BY <1>9 DEF SaveEvent, Fail, Throw
  <2>4. /\ phase = "handle" /\ UNCHANGED <<hostVars, viewed, view, tried, header, items, torn, syncPoint, savedPoint>>
    BY <1>9 DEF SaveEvent
  <2>5. HostTypeOK' /\ results' = results /\ Contents' = Contents
    BY <1>h, <2>4
  <2>6. CASE phase' = "sync" /\ event' = event /\ faults' = faults
    BY <1>l, <2>2, <2>3, <2>4, <2>5, <2>6 DEF TypeOK, Phases
  <2>7. CASE phase' = "ready" /\ event' = 0 /\ faults' \in {faults, faults + 1}
    <3>1. acked' = acked /\ resyncs' = resyncs /\ restarts' = restarts
      BY <2>3
    <3>2. phase' \in Phases /\ event' \in 0..Len(results') /\ faults' \in Nat
      BY <1>l, <2>5, <2>7 DEF TypeOK, Phases
    <3>3. syncPoint' # None /\ syncPoint' \in Nat \cup {None}
      BY <2>4 DEF TypeOK
    <3> QED BY <2>2, <2>4, <2>5, <2>7, <3>1, <3>2, <3>3 DEF TypeOK
  <2> QED BY <2>3, <2>6, <2>7
<1>10. CASE UpdateSyncPoint
  <2>1. event \in 1..Len(results)
    BY <1>10, <1>l DEF UpdateSyncPoint, TypeOK
  <2>2. results[event].seq \in Nat
    BY <1>h, <2>1, ResultType
  <2>3. UNCHANGED <<hostVars, viewed, view, tried, header, items, torn, store>> /\ header = 0
    BY <1>10 DEF UpdateSyncPoint, TypeOK
  <2>4. HostTypeOK' /\ results' = results /\ Contents' = Contents
    BY <1>h, <2>3
  <2>5. phase' \in Phases /\ phase' = "ready" /\ event' = 0 /\ event' \in 0..Len(results')
    BY <1>10, <1>l, <2>4 DEF UpdateSyncPoint, Answer, Throw, Phases
  <2>6. savedPoint' \in Nat \cup {None} /\ syncPoint' \in Nat \cup {None}
    BY <1>10, <2>2 DEF UpdateSyncPoint, TypeOK
  <2>7. syncPoint' # None
    <3>1. syncPoint # None
      BY <1>10 DEF UpdateSyncPoint, TypeOK
    <3> QED BY <1>10, <2>2, <3>1 DEF UpdateSyncPoint, None
  <2>8. acked' \subseteq tried'
    <3>1. event \in tried /\ acked \subseteq tried
      BY <2>1 DEF TypeOK
    <3> QED BY <1>10, <2>3, <3>1 DEF UpdateSyncPoint, Answer, Throw
  <2>9. resyncs' \in Nat /\ faults' \in Nat /\ restarts' \in Nat
    BY <1>10 DEF UpdateSyncPoint, Fail, TypeOK
  <2> QED BY <2>3, <2>4, <2>5, <2>6, <2>7, <2>8, <2>9 DEF TypeOK
<1>11. CASE CrashReaction
  <2>1. savedPoint' \in Nat \cup {None}
    <3>1. CASE phase = "sync"
      <4>1. event \in 1..Len(results)
        BY <3>1, <1>l DEF TypeOK
      <4> QED BY <1>11, <1>h, <4>1, ResultType DEF CrashReaction, TypeOK
    <3> QED BY <1>11, <3>1 DEF CrashReaction, TypeOK
  <2> QED BY <1>11, <1>h, <1>e, <1>l, <2>1 DEF CrashReaction, Exit, TypeOK, Phases, None
<1>12. CASE UNCHANGED vars
  BY <1>12, <1>h DEF vars, TypeOK
<1> QED BY <1>1, <1>2, <1>3, <1>4, <1>5, <1>6, <1>7, <1>8, <1>9, <1>10, <1>11, <1>12
        DEF Next, Reaction

\* Every variable keeps its type.
THEOREM TypeCorrect == Spec => []TypeOK
<1>1. Init => TypeOK
  <2> SUFFICES ASSUME Init PROVE TypeOK
    OBVIOUS
  <2>1. HostTypeOK
    BY DEF Init, HostInit, HostTypeOK
  <2>2. Len(results) = 0
    BY DEF Init, HostInit
  <2>3. NoItems \in Contents
    BY <2>2 DEF NoItems, Contents
  <2> QED BY <2>1, <2>2, <2>3 DEF Init, TypeOK, Phases, None
<1> QED BY <1>1, TypeStep, PTL DEF Spec

-----------------------------------------------------------------------------
(***************************************************************************)
(* The inductive invariant.  AckedIsStored alone is not inductive: an      *)
(* event is answered without being written when it is below the sync       *)
(* point, so both copies of the sync point have to bound what is stored,   *)
(* and the copy in the store may be ahead of the one in memory.            *)
(***************************************************************************)

Good == InOrder /\ NumbersIncrease /\ resyncs = 0

\* Everything numbered below p is in the contents c.
Holds(c, p) ==
  \A i \in 1..Len(results) :
    results[i].seq < p => \A k \in results[i].keys : c[k] >= i \/ Torn(k)

\* p is the number of a result, or no number yet.
IsNumber(p) == p <= 0 \/ \E j \in 1..Len(results) : results[j].seq = p

\* Events are answered one after the other.
AnswersInOrder ==
  /\ \A i \in acked : \A j \in 1..i : j \in acked
  /\ event # 0 => event \notin acked /\ \A j \in 1..(event - 1) : j \in acked

\* The view holds what it has recorded.
ViewIsComplete ==
  \A i \in 1..viewed : \A k \in results[i].keys : view[k] >= i

PointsAreCovered ==
  /\ Holds(store, syncPoint) /\ Holds(store, savedPoint)
  /\ IsNumber(syncPoint) /\ IsNumber(savedPoint)

\* No event that is still to be written is numbered below the saved sync point.
SavedPointIsBehind ==
  syncPoint # None =>
    \A e \in (1..Len(results)) \ acked : results[e].seq >= syncPoint => results[e].seq >= savedPoint

\* The initial sync runs before anything is answered, from a complete view into
\* an empty store.
InitialSync ==
  /\ savedPoint = None => acked = {} /\ syncPoint = None
  /\ phase \in {"fetch", "rows", "copy", "point"} => savedPoint = None
  /\ phase \in {"fetch", "rows", "copy"} => StoreIsEmpty
  /\ header # 0 => Holds(items, results[header].seq)
  /\ phase = "point" => Holds(store, results[header].seq)

EventIsWritten ==
  phase = "sync" => /\ results[event].seq >= syncPoint
                    /\ \A k \in results[event].keys : store[k] = event

\* The event that mends a torn key is not skipped.
TornIsMended ==
  /\ \A k \in Keys : Torn(k) =>
       /\ torn[k] \in 1..Len(results) /\ k \in results[torn[k]].keys
       /\ results[torn[k]].seq >= syncPoint /\ results[torn[k]].seq >= savedPoint
       /\ header # 0 => results[torn[k]].seq >= results[header].seq
  /\ phase = "rows" => torn = NoItems

StoreInv ==
  Good => /\ AnswersInOrder /\ AckedIsStored /\ ViewIsComplete /\ PointsAreCovered
          /\ SavedPointIsBehind /\ InitialSync /\ EventIsWritten /\ TornIsMended

\* The conditions of the invariant only ever cease to hold.
LEMMA GoodBefore ==
  ASSUME TypeOK, [Next]_vars, Good'
  PROVE  Good
<1>1. HostTypeOK /\ resyncs \in Nat
  BY DEF TypeOK
<1>2. resyncs' \in {resyncs, resyncs + 1}
  BY DEF Next, Reaction, vars, counters, ViewRecords, Deliver, LoadSyncPoint, FetchHeader, FetchRows, CopyView,
         FirstSyncPoint, Skip, SaveEvent, UpdateSyncPoint, CrashReaction
<1>3. results' = results \/ HostNext
  BY DEF Next, Reaction, vars, hostVars, ViewRecords, Deliver, LoadSyncPoint, FetchHeader, FetchRows, CopyView,
         FirstSyncPoint, Skip, SaveEvent, UpdateSyncPoint, CrashReaction
<1>4. NumbersIncrease' => NumbersIncrease
  <2>1. CASE results' = results
    BY <2>1 DEF NumbersIncrease
  <2>2. CASE HostNext
    <3>1. /\ Len(results) \in Nat /\ Len(results') \in Nat /\ Len(results) <= Len(results')
          /\ \A i \in 1..Len(results) : results'[i] = results[i]
      BY <1>1, <2>2, ResultsGrow
    <3> QED BY <3>1 DEF NumbersIncrease
  <2> QED BY <1>3, <2>1, <2>2
<1>5. resyncs = 0
  BY <1>1, <1>2 DEF Good
<1> QED BY <1>4, <1>5 DEF Good

StoreFacts ==
  /\ AnswersInOrder /\ AckedIsStored /\ ViewIsComplete /\ PointsAreCovered
  /\ SavedPointIsBehind /\ InitialSync /\ EventIsWritten /\ TornIsMended

\* A result numbered below another was published before it.
LEMMA LowerIsEarlier ==
  ASSUME HostTypeOK, NumbersIncrease, NEW i \in 1..Len(results), NEW j \in 1..Len(results),
         results[i].seq < results[j].seq
  PROVE  i < j
<1>1. Len(results) \in Nat /\ results[i].seq \in Nat /\ results[j].seq \in Nat
  BY ResultType DEF HostTypeOK
<1> QED BY <1>1 DEF NumbersIncrease

\* A new result has the highest number, so nothing that was covered is exposed.
LEMMA HostStep ==
  ASSUME TypeOK, TypeOK', Good', StoreFacts, HostNext,
         UNCHANGED <<viewVars, broker, reaction, storeVars, counters>>
  PROVE  StoreFacts'
<1> USE DEF viewVars, broker, fetched, reaction, storeVars, counters
<1>1. /\ Len(results) \in Nat /\ Len(results') \in Nat /\ Len(results) <= Len(results')
      /\ \A i \in 1..Len(results) : results'[i] = results[i]
  BY ResultsGrow DEF TypeOK
<1>2. \A i \in 1..Len(results') : results'[i].seq \in Nat
  <2> TAKE i \in 1..Len(results')
  <2>1. results'[i] \in Result
    BY DEF TypeOK, HostTypeOK
  <2> QED BY <2>1 DEF Result
<1>3. ASSUME NEW p \in Nat \cup {None}, IsNumber(p), NEW i \in 1..Len(results'), results'[i].seq < p
      PROVE  i \in 1..Len(results)
  <2>1. PICK j \in 1..Len(results) : results[j].seq = p
    BY <1>2, <1>3 DEF IsNumber, None
  <2>2. results'[j].seq = p /\ j \in 1..Len(results')
    BY <1>1, <2>1
  <2>3. i < j
    BY <1>1, <1>2, <1>3, <2>2 DEF Good, NumbersIncrease
  <2> QED BY <1>1, <2>3
<1>4. ASSUME NEW c, NEW p \in Nat \cup {None}, IsNumber(p), Holds(c, p)
      PROVE  \A i \in 1..Len(results') : results'[i].seq < p => \A k \in results'[i].keys : c[k] >= i \/ Torn(k)
  BY <1>1, <1>3, <1>4 DEF Holds
<1>5. ASSUME NEW p, IsNumber(p)
      PROVE  p <= 0 \/ \E j \in 1..Len(results') : results'[j].seq = p
  BY <1>1, <1>5 DEF IsNumber
<1>6. syncPoint \in Nat \cup {None} /\ savedPoint \in Nat \cup {None}
      /\ header \in 0..Len(results) /\ (phase = "point" => header # 0)
      /\ (header # 0 => /\ results[header].seq \in Nat \cup {None} /\ IsNumber(results[header].seq)
                         /\ results'[header].seq = results[header].seq)
  <2>1. header \in 0..Len(results) /\ (phase = "point" => header # 0)
    BY DEF TypeOK
  <2>2. header # 0 => header \in 1..Len(results)
    BY <1>1, <2>1
  <2>3. header # 0 => results[header].seq \in Nat
    BY <2>2, ResultType DEF TypeOK
  <2> QED BY <1>1, <2>1, <2>2, <2>3 DEF IsNumber, TypeOK
<1>o. \A k \in Keys : Torn(k)' = Torn(k)
  BY DEF Torn
<1>7. AnswersInOrder' /\ AckedIsStored' /\ ViewIsComplete'
  <2>1. acked \subseteq 1..Len(results) /\ viewed \in 0..Len(results)
    BY DEF TypeOK
  <2> QED BY <1>1, <2>1 DEF StoreFacts, AnswersInOrder, AckedIsStored, ViewIsComplete, Torn
<1>8. PointsAreCovered'
  BY <1>4, <1>5, <1>6 DEF StoreFacts, PointsAreCovered, Holds, IsNumber, Torn
<1>9. SavedPointIsBehind'
  <2> SUFFICES ASSUME syncPoint # None, NEW e \in (1..Len(results')) \ acked,
                      results'[e].seq >= syncPoint
               PROVE  results'[e].seq >= savedPoint
    BY DEF SavedPointIsBehind
  <2>1. CASE e \in 1..Len(results)
    BY <1>1, <2>1 DEF StoreFacts, SavedPointIsBehind
  <2>2. CASE e \notin 1..Len(results)
    BY <1>2, <1>3, <1>6, <2>2 DEF StoreFacts, PointsAreCovered, None
  <2> QED BY <2>1, <2>2
<1>10. InitialSync'
  <2>1. StoreIsEmpty => StoreIsEmpty'
    <3>1. \A k \in Keys : store[k] \in 0..Len(results)
      BY DEF TypeOK, Contents
    <3> QED BY <1>1, <3>1 DEF StoreIsEmpty, Absent
  <2>2. ASSUME NEW c, header # 0, Holds(c, results[header].seq)
        PROVE  \A i \in 1..Len(results') :
                 results'[i].seq < results'[header].seq => \A k \in results'[i].keys : c[k] >= i \/ Torn(k)
    BY <1>4, <1>6, <2>2
  <2>3. header # 0 => Holds(items, results[header].seq)'
    BY <2>2 DEF StoreFacts, InitialSync, Holds, Torn
  <2>4. phase = "point" => Holds(store, results[header].seq)'
    BY <1>6, <2>2 DEF StoreFacts, InitialSync, Holds, Torn
  <2> QED BY <2>1, <2>3, <2>4 DEF StoreFacts, InitialSync
<1>11. EventIsWritten'
  <2>1. phase = "sync" => event \in 1..Len(results)
    BY <1>1 DEF TypeOK
  <2> QED BY <1>1, <2>1 DEF StoreFacts, EventIsWritten
<1>12. TornIsMended'
  BY <1>1, <1>6 DEF StoreFacts, TornIsMended, Torn
<1> QED BY <1>7, <1>8, <1>9, <1>10, <1>11, <1>12 DEF StoreFacts

\* The initial sync: the view copied holds everything numbered below its header.
LEMMA InitialSyncStep ==
  ASSUME TypeOK, TypeOK', Good, Good', StoreFacts,
         LoadSyncPoint \/ FetchHeader \/ FetchRows \/ CopyView \/ FirstSyncPoint
  PROVE  StoreFacts'
<1> USE DEF viewVars, broker, fetched, storeVars, counters
<1>t. /\ HostTypeOK /\ Len(results) \in Nat /\ acked \subseteq 1..Len(results) /\ viewed \in 0..Len(results)
      /\ syncPoint \in Nat \cup {None} /\ savedPoint \in Nat \cup {None} /\ header \in 0..Len(results)
      /\ (phase \in {"handle", "sync"} <=> event # 0)
      /\ (phase \in {"rows", "copy", "point"} <=> header # 0)
  <2>1. HostTypeOK
    BY DEF TypeOK
  <2>2. Len(results) \in Nat
    BY <2>1 DEF HostTypeOK
  <2> QED BY <2>1, <2>2 DEF TypeOK
<1>u. results' = results /\ acked' = acked /\ viewed' = viewed /\ view' = view
  BY DEF hostVars, LoadSyncPoint, FetchHeader, FetchRows, CopyView, FirstSyncPoint
<1>n. \A i \in 1..Len(results) : results[i].seq \in Nat
  BY <1>t, ResultType
<1>v. ViewIsComplete'
  BY <1>u DEF StoreFacts, ViewIsComplete
<1>z. \A c : Holds(c, 0) /\ Holds(c, None)
  BY <1>n DEF Holds, None
<1>l. ASSUME NEW i \in 1..Len(results), NEW j \in 1..Len(results), results[i].seq < results[j].seq
      PROVE  i < j
  BY <1>t, <1>l, LowerIsEarlier DEF Good
<1>1. CASE LoadSyncPoint
  <2>1. /\ phase = "down" /\ event' = event /\ event = 0 /\ header' = header /\ header = 0 /\ items' = items
        /\ torn' = torn /\ store' = store /\ savedPoint' = savedPoint
    BY <1>1, <1>t DEF LoadSyncPoint
  <2>2. \/ syncPoint' = savedPoint /\ phase' = "ready" /\ savedPoint # None
        \/ phase' = "fetch" /\ syncPoint' = syncPoint /\ savedPoint = None /\ StoreIsEmpty
    <3>1. resyncs = 0 /\ resyncs' = 0
      BY DEF Good
    <3> QED BY <1>1, <3>1 DEF LoadSyncPoint
  <2>3. AnswersInOrder' /\ AckedIsStored'
    BY <1>u, <2>1 DEF StoreFacts, AnswersInOrder, AckedIsStored, Torn
  <2>4. PointsAreCovered'
    BY <1>u, <2>1, <2>2 DEF StoreFacts, PointsAreCovered, Holds, IsNumber, Torn
  <2>5. SavedPointIsBehind'
    BY <1>u, <2>1, <2>2 DEF StoreFacts, SavedPointIsBehind
  <2>6. InitialSync' /\ EventIsWritten'
    <3>1. StoreIsEmpty' = StoreIsEmpty
      BY <1>u, <2>1 DEF StoreIsEmpty, Absent
    <3> QED BY <1>u, <2>1, <2>2, <3>1 DEF StoreFacts, InitialSync, EventIsWritten
  <2>7. TornIsMended'
    BY <1>u, <2>1, <2>2 DEF StoreFacts, TornIsMended, Torn
  <2> QED BY <1>v, <2>3, <2>4, <2>5, <2>6, <2>7 DEF StoreFacts
<1>2. CASE FetchHeader
  <2>1. /\ phase = "fetch" /\ phase' = "rows" /\ event' = event /\ event = 0 /\ syncPoint' = syncPoint
        /\ store' = store /\ savedPoint' = savedPoint /\ items' = view /\ torn' = NoItems
        /\ header' = viewed /\ viewed \in 1..Len(results)
    BY <1>2, <1>t DEF FetchHeader
  <2>2. savedPoint = None /\ syncPoint = None /\ acked = {} /\ StoreIsEmpty
    BY <2>1 DEF StoreFacts, InitialSync
  <2>3. Holds(items, results[header].seq)'
    <3> SUFFICES ASSUME NEW i \in 1..Len(results), results[i].seq < results[viewed].seq, NEW k \in results[i].keys
                 PROVE  view[k] >= i
      BY <1>u, <2>1 DEF Holds
    <3>1. i \in 1..viewed
      BY <1>l, <1>t, <2>1
    <3> QED BY <3>1 DEF StoreFacts, ViewIsComplete
  <2>4. AnswersInOrder' /\ AckedIsStored'
    BY <1>u, <2>1, <2>2 DEF AnswersInOrder, AckedIsStored
  <2>5. PointsAreCovered'
    <3>1. \A i \in 1..Len(results) : ~(results[i].seq < None)
      BY <1>n DEF None
    <3> QED BY <1>u, <2>1, <2>2, <3>1 DEF PointsAreCovered, Holds, IsNumber, None
  <2>6. SavedPointIsBehind' /\ EventIsWritten'
    BY <1>u, <2>1, <2>2 DEF SavedPointIsBehind, EventIsWritten
  <2>7. InitialSync'
    <3>1. StoreIsEmpty' = StoreIsEmpty
      BY <1>u, <2>1 DEF StoreIsEmpty, Absent
    <3> QED BY <1>u, <2>1, <2>2, <2>3, <3>1 DEF InitialSync, Holds
  <2>8. TornIsMended'
    BY <2>1 DEF TornIsMended, Torn, NoItems
  <2> QED BY <1>v, <2>4, <2>5, <2>6, <2>7, <2>8 DEF StoreFacts
<1>3. CASE FetchRows
  <2>1. /\ phase = "rows" /\ header \in 1..Len(results) /\ event = 0 /\ savedPoint' = savedPoint /\ store' = store
        /\ savedPoint = None /\ syncPoint = None /\ acked = {} /\ StoreIsEmpty
        /\ Holds(items, results[header].seq) /\ torn = NoItems
    BY <1>3, <1>t DEF FetchRows, StoreFacts, InitialSync, TornIsMended
  <2>2. PICK c \in Readable :
          \/ Exit /\ torn' = torn
          \/ /\ items' = c /\ torn' = [k \in Keys |-> MendedBy(c, k)]
             /\ phase' = "copy" /\ UNCHANGED <<event, syncPoint, header>>
    BY <1>3 DEF FetchRows
  <2>3. event' = 0 /\ syncPoint' = None /\ phase' \in {"down", "copy"}
    BY <2>1, <2>2 DEF Exit
  <2>4. AnswersInOrder' /\ AckedIsStored'
    BY <1>u, <2>1, <2>3 DEF AnswersInOrder, AckedIsStored
  <2>5. PointsAreCovered'
    <3>1. \A i \in 1..Len(results) : ~(results[i].seq < None)
      BY <1>n DEF None
    <3> QED BY <1>u, <2>1, <2>3, <3>1 DEF PointsAreCovered, Holds, IsNumber, None
  <2>6. SavedPointIsBehind' /\ EventIsWritten'
    BY <2>3 DEF SavedPointIsBehind, EventIsWritten
  <2>7. StoreIsEmpty'
    BY <1>u, <2>1 DEF StoreIsEmpty, Absent
  <2>8. CASE Exit /\ torn' = torn
    <3>1. header' = 0 /\ phase' = "down"
      BY <2>8 DEF Exit
    <3>2. InitialSync' /\ TornIsMended'
      BY <1>u, <2>1, <2>3, <2>8, <3>1 DEF InitialSync, TornIsMended, Torn, NoItems
    <3> QED BY <1>v, <2>4, <2>5, <2>6, <3>2 DEF StoreFacts
  <2>9. CASE /\ items' = c /\ torn' = [k \in Keys |-> MendedBy(c, k)]
             /\ phase' = "copy" /\ UNCHANGED <<event, syncPoint, header>>
    <3>1. ASSUME NEW k \in Keys
          PROVE  /\ torn'[k] = MendedBy(c, k) /\ torn'[k] \in 0..Len(results)
                 /\ torn'[k] = 0 <=> c[k] = items[k]
                 /\ torn'[k] # 0 => torn'[k] >= header /\ k \in results[torn'[k]].keys
      BY <2>1, <2>9, MendedByLater
    <3>2. \A k \in Keys : c[k] = items[k] \/ Torn(k)'
      BY <1>u, <2>1, <3>1 DEF Torn
    <3>3. Holds(items, results[header].seq)'
      <4> SUFFICES ASSUME NEW i \in 1..Len(results), results[i].seq < results[header].seq, NEW k \in results[i].keys
                   PROVE  c[k] >= i \/ Torn(k)'
        BY <1>u, <2>9 DEF Holds, Torn
      <4>1. k \in Keys
        BY <1>t, ResultType
      <4>2. items[k] >= i
        <5>1. ~Torn(k)
          BY <2>1, <4>1 DEF Torn, NoItems
        <5> QED BY <2>1, <5>1 DEF Holds
      <4> QED BY <3>2, <4>1, <4>2
    <3>4. InitialSync'
      BY <1>u, <2>1, <2>3, <2>7, <2>9, <3>3 DEF InitialSync
    <3>5. ASSUME NEW k \in Keys, torn'[k] # 0
          PROVE  torn'[k] \in 1..Len(results) /\ results[torn'[k]].seq >= results[header].seq
                 /\ results[torn'[k]].seq >= None
      <4>1. torn'[k] \in 1..Len(results) /\ torn'[k] >= header
        BY <1>t, <3>1, <3>5
      <4>2. ~(results[torn'[k]].seq < results[header].seq)
        BY <1>l, <2>1, <4>1
      <4> QED BY <1>n, <2>1, <4>1, <4>2 DEF None
    <3>6. TornIsMended'
      BY <1>u, <2>1, <2>3, <2>9, <3>1, <3>5 DEF TornIsMended, Torn
    <3> QED BY <1>v, <2>4, <2>5, <2>6, <3>4, <3>6 DEF StoreFacts
  <2> QED BY <2>2, <2>8, <2>9
<1>4. CASE CopyView
  <2>1. /\ phase = "copy" /\ savedPoint = None /\ savedPoint' = None /\ acked = {} /\ syncPoint = None /\ event = 0
        /\ torn' = torn /\ header \in 1..Len(results)
    BY <1>4, <1>t DEF CopyView, StoreFacts, InitialSync
  <2>2. syncPoint' = None /\ event' = 0
    BY <1>4, <2>1 DEF CopyView, Exit
  <2>3. \/ phase' = "down" /\ header' = 0
        \/ /\ phase' = "point" /\ header' = header /\ items' = items
           /\ \A k \in Keys : store'[k] = items[k] \/ torn[k] # 0
    <3>1. \A k \in Keys : Absent(store[k], k)
      BY <2>1 DEF StoreFacts, InitialSync, StoreIsEmpty
    <3> QED BY <1>4, <3>1 DEF CopyView, Exit
  <2>4. AnswersInOrder' /\ AckedIsStored'
    BY <1>u, <2>1, <2>2 DEF AnswersInOrder, AckedIsStored
  <2>5. Holds(store', None) /\ IsNumber(None)
    BY <1>z DEF IsNumber, None
  <2>6. PointsAreCovered'
    BY <1>u, <2>1, <2>2, <2>5 DEF PointsAreCovered, Holds, IsNumber, Torn
  <2>7. SavedPointIsBehind' /\ EventIsWritten'
    BY <2>2, <2>3 DEF SavedPointIsBehind, EventIsWritten
  <2>8. phase' = "point" => Holds(items, results[header].seq)' /\ Holds(store, results[header].seq)'
    <3> SUFFICES ASSUME phase' = "point", NEW i \in 1..Len(results), results[i].seq < results[header].seq,
                        NEW k \in results[i].keys
                 PROVE  (items[k] >= i \/ Torn(k)) /\ (store'[k] >= i \/ Torn(k))
      BY <1>u, <2>1, <2>3 DEF Holds, Torn
    <3>1. items[k] >= i \/ Torn(k)
      BY <2>1 DEF StoreFacts, InitialSync, Holds
    <3>2. k \in Keys /\ items[k] \in Nat
      BY <1>t, ResultType DEF TypeOK, Contents
    <3> QED BY <2>1, <2>3, <3>1, <3>2 DEF Torn
  <2>9. InitialSync'
    BY <1>u, <2>1, <2>2, <2>3, <2>8 DEF InitialSync
  <2>10. TornIsMended'
    BY <1>u, <2>1, <2>2, <2>3 DEF StoreFacts, TornIsMended, Torn
  <2> QED BY <1>v, <2>4, <2>6, <2>7, <2>9, <2>10 DEF StoreFacts
<1>5. CASE FirstSyncPoint
  <2> DEFINE h == results[header].seq
  <2>1. /\ phase = "point" /\ savedPoint = None /\ acked = {} /\ syncPoint = None /\ event = 0 /\ event' = 0
        /\ store' = store /\ torn' = torn /\ header \in 1..Len(results)
    BY <1>5, <1>t DEF FirstSyncPoint, Exit, StoreFacts, InitialSync
  <2>2. /\ header' = 0
        /\ \/ phase' = "ready" /\ savedPoint' = h /\ syncPoint' = h
           \/ phase' = "down" /\ savedPoint' \in {None, h} /\ syncPoint' = None
    BY <1>5, <2>1 DEF FirstSyncPoint, Exit
  <2>3. Holds(store, h) /\ Holds(store, None) /\ IsNumber(h) /\ IsNumber(None)
    BY <1>z, <2>1 DEF StoreFacts, InitialSync, IsNumber, None
  <2>4. AnswersInOrder' /\ AckedIsStored'
    BY <1>u, <2>1 DEF AnswersInOrder, AckedIsStored
  <2>5. PointsAreCovered'
    BY <1>u, <2>1, <2>2, <2>3 DEF PointsAreCovered, Holds, IsNumber, Torn
  <2>6. SavedPointIsBehind' /\ EventIsWritten'
    BY <1>u, <2>2 DEF SavedPointIsBehind, EventIsWritten
  <2>7. h \in Nat /\ h # None
    BY <1>n, <2>1 DEF None
  <2>8. InitialSync'
    BY <1>u, <2>1, <2>2, <2>7 DEF InitialSync
  <2>9. TornIsMended'
    BY <1>u, <2>1, <2>2 DEF StoreFacts, TornIsMended, Torn
  <2> QED BY <1>v, <2>4, <2>5, <2>6, <2>8, <2>9 DEF StoreFacts
<1> QED BY <1>1, <1>2, <1>3, <1>4, <1>5

\* Handling an event: what is skipped is covered by the sync point, what is
\* written is newer than anything answered or covered.
LEMMA HandlingStep ==
  ASSUME TypeOK, TypeOK', Good, Good', StoreFacts,
         (\E i \in 1..MaxResults : Deliver(i)) \/ Skip \/ SaveEvent \/ UpdateSyncPoint
  PROVE  StoreFacts'
<1> USE DEF viewVars, broker, fetched, storeVars, counters
<1>t. /\ HostTypeOK /\ Len(results) \in Nat /\ acked \subseteq 1..Len(results) /\ event \in 0..Len(results)
      /\ syncPoint \in Nat \cup {None} /\ savedPoint \in Nat \cup {None}
      /\ (phase \in {"rows", "copy", "point"} <=> header # 0)
      /\ (phase \in {"handle", "sync"} => event # 0)
      /\ (phase \in {"ready", "handle", "sync"} => syncPoint # None)
      /\ store \in Contents
  <2>1. HostTypeOK
    BY DEF TypeOK
  <2>2. Len(results) \in Nat
    BY <2>1 DEF HostTypeOK
  <2> QED BY <2>1, <2>2 DEF TypeOK
<1>u. results' = results /\ viewed' = viewed /\ view' = view /\ header' = header /\ items' = items /\ torn' = torn
  BY DEF hostVars, Deliver, Skip, SaveEvent, UpdateSyncPoint
<1>h. header = 0 /\ phase \notin {"fetch", "rows", "copy", "point"}
  BY <1>t DEF Deliver, Skip, SaveEvent, UpdateSyncPoint
<1>n. \A i \in 1..Len(results) : results[i].seq \in Nat /\ results[i].keys \subseteq Keys
  BY <1>t, ResultType
<1>v. ViewIsComplete'
  BY <1>u DEF StoreFacts, ViewIsComplete
<1>l. \A i, j \in 1..Len(results) : results[i].seq < results[j].seq => i < j
  BY <1>t, LowerIsEarlier DEF Good
<1>a. ASSUME event # 0, NEW i \in acked PROVE i < event
  <2>1. event \notin acked /\ \A j \in 1..i : j \in acked
    BY <1>a DEF StoreFacts, AnswersInOrder
  <2> QED BY <1>t, <1>a, <2>1
<1>b. event # 0 => event \in 1..Len(results) /\ event \notin acked /\ \A j \in 1..(event - 1) : j \in acked
  BY <1>t DEF StoreFacts, AnswersInOrder
<1>1. ASSUME NEW i \in 1..MaxResults, Deliver(i) PROVE StoreFacts'
  <2>1. /\ phase = "ready" /\ phase' = "handle" /\ event' = i /\ acked' = acked
        /\ syncPoint' = syncPoint /\ savedPoint' = savedPoint /\ store' = store
        /\ i \in (1..Len(results)) \ acked
    BY <1>1 DEF Deliver
  <2>2. \A j \in 1..(i - 1) : j \in acked
    BY <1>1 DEF Deliver, Good
  <2>3. AnswersInOrder' /\ AckedIsStored'
    BY <1>u, <2>1, <2>2 DEF StoreFacts, AnswersInOrder, AckedIsStored, Torn
  <2>4. PointsAreCovered' /\ TornIsMended'
    BY <1>h, <1>u, <2>1 DEF StoreFacts, PointsAreCovered, TornIsMended, Holds, IsNumber, Torn
  <2>5. SavedPointIsBehind' /\ InitialSync' /\ EventIsWritten'
    BY <1>h, <1>u, <2>1 DEF StoreFacts, SavedPointIsBehind, InitialSync, EventIsWritten
  <2> QED BY <1>v, <2>3, <2>4, <2>5 DEF StoreFacts
<1>2. CASE Skip
  <2>1. /\ phase = "handle" /\ phase' = "ready" /\ event' = 0 /\ acked' = acked \cup {event} /\ event # 0
        /\ syncPoint' = syncPoint /\ savedPoint' = savedPoint /\ store' = store
        /\ results[event].keys = {} \/ results[event].seq < syncPoint
    BY <1>2, <1>t DEF Skip, Answer
  <2>2. AnswersInOrder'
    BY <1>b, <1>t, <2>1 DEF StoreFacts, AnswersInOrder
  <2>3. \A k \in results[event].keys : store[k] >= event \/ Torn(k)
    BY <1>b, <2>1 DEF StoreFacts, PointsAreCovered, Holds
  <2>a. \A k \in Keys : Torn(k) => torn[k] # event
    <3> SUFFICES ASSUME NEW k \in Keys, Torn(k), torn[k] = event PROVE FALSE
      OBVIOUS
    <3>1. k \in results[event].keys /\ results[event].seq >= syncPoint
      BY DEF StoreFacts, TornIsMended
    <3> QED BY <1>b, <1>n, <1>t, <2>1, <3>1 DEF None
  <2>b. \A k \in Keys : Torn(k)' <=> Torn(k)
    BY <1>u, <2>1, <2>a DEF Torn
  <2>c. \A i \in 1..Len(results) : \A k \in results[i].keys : Torn(k)' <=> Torn(k)
    BY <1>n, <2>b
  <2>4. AckedIsStored'
    BY <1>b, <1>t, <1>u, <2>1, <2>3, <2>c DEF StoreFacts, AckedIsStored
  <2>5. PointsAreCovered'
    BY <1>u, <2>1, <2>c DEF StoreFacts, PointsAreCovered, Holds, IsNumber
  <2>d. TornIsMended'
    BY <1>h, <1>u, <2>1, <2>b DEF StoreFacts, TornIsMended
  <2>6. SavedPointIsBehind' /\ InitialSync' /\ EventIsWritten'
    BY <1>h, <1>t, <1>u, <2>1 DEF StoreFacts, SavedPointIsBehind, InitialSync, EventIsWritten
  <2> QED BY <1>v, <2>2, <2>4, <2>5, <2>6, <2>d DEF StoreFacts
<1>3. CASE SaveEvent
  <2>1. /\ phase = "handle" /\ event # 0 /\ acked' = acked /\ results[event].seq >= syncPoint
        /\ syncPoint' = syncPoint /\ savedPoint' = savedPoint
    BY <1>3, <1>t DEF SaveEvent, Throw
  <2>2. PICK keys \in SUBSET results[event].keys :
          /\ store' = Written(store, keys, event)
          /\ \/ keys = results[event].keys /\ phase' = "sync" /\ event' = event
             \/ phase' = "ready" /\ event' = 0
    <3>1. CASE results[event].keyless
      <4>1. store' = store /\ phase' = "ready" /\ event' = 0
        BY <1>3, <3>1 DEF SaveEvent, Throw
      <4>2. store = Written(store, {}, event)
        BY <1>t DEF Written, Contents
      <4> QED BY <4>1, <4>2
    <3>2. CASE ~results[event].keyless
      BY <1>3, <3>2 DEF SaveEvent, Throw
    <3> QED BY <3>1, <3>2
  <2>t. \A k : Torn(k)' <=> Torn(k)
    BY <1>u, <2>1 DEF Torn
  <2>3. ASSUME NEW k \in Keys PROVE store'[k] = IF k \in keys THEN event ELSE store[k]
    BY <2>2 DEF Written
  <2>4. AnswersInOrder'
    BY <2>1, <2>2 DEF StoreFacts, AnswersInOrder
  <2>5. AckedIsStored'
    <3> SUFFICES ASSUME NEW i \in acked, NEW k \in results[i].keys, ~Torn(k) PROVE store'[k] >= i
      BY <1>u, <2>1, <2>t DEF AckedIsStored
    <3>1. i < event /\ i \in 1..Len(results) /\ k \in Keys /\ store[k] >= i
      BY <1>a, <1>n, <1>t, <2>1 DEF StoreFacts, AckedIsStored
    <3> QED BY <1>t, <2>3, <3>1
  <2>6. ASSUME NEW q \in {syncPoint, savedPoint}, NEW i \in 1..Len(results), results[i].seq < q,
               NEW k \in results[i].keys, ~Torn(k)
        PROVE  store'[k] >= i
    <3>1. results[event].seq >= q
      BY <1>b, <1>t, <2>1 DEF StoreFacts, SavedPointIsBehind
    <3>2. results[i].seq < results[event].seq
      BY <1>b, <1>n, <1>t, <2>1, <2>6, <3>1, SMT DEF None
    <3>3. i < event
      BY <1>b, <1>l, <2>1, <3>2
    <3>4. k \in Keys /\ store[k] >= i
      BY <1>n, <2>6 DEF StoreFacts, PointsAreCovered, Holds
    <3> QED BY <1>t, <2>3, <3>3, <3>4
  <2>7. PointsAreCovered'
    BY <1>u, <2>1, <2>6, <2>t DEF StoreFacts, PointsAreCovered, Holds, IsNumber
  <2>8. SavedPointIsBehind' /\ InitialSync' /\ TornIsMended'
    BY <1>h, <1>u, <2>1, <2>2, <2>t DEF StoreFacts, SavedPointIsBehind, InitialSync, TornIsMended
  <2>9. EventIsWritten'
    <3> SUFFICES ASSUME phase' = "sync", NEW k \in results[event].keys PROVE store'[k] = event
      BY <1>u, <2>1, <2>2 DEF EventIsWritten
    <3>1. k \in keys /\ k \in Keys
      BY <1>b, <1>n, <2>1, <2>2
    <3> QED BY <1>t, <2>3, <3>1
  <2> QED BY <1>v, <2>4, <2>5, <2>7, <2>8, <2>9 DEF StoreFacts
<1>4. CASE UpdateSyncPoint
  <2> DEFINE p == results[event].seq
  <2>1. phase = "sync" /\ event # 0 /\ event \in 1..Len(results) /\ store' = store /\ phase' = "ready" /\ event' = 0
    BY <1>4, <1>b, <1>t DEF UpdateSyncPoint, Answer, Throw
  <2>2. \/ savedPoint' = p /\ syncPoint' = p /\ acked' = acked \cup {event}
        \/ savedPoint' \in {savedPoint, p} /\ syncPoint' = syncPoint /\ acked' = acked
    BY <1>4 DEF UpdateSyncPoint, Answer, Throw
  <2>3. p \in Nat /\ p >= syncPoint /\ IsNumber(p) /\ \A k \in results[event].keys : store[k] = event
    BY <1>n, <2>1 DEF StoreFacts, EventIsWritten, IsNumber
  \* A key stops being torn only by being written.
  <2>t. ASSUME NEW k \in Keys, Torn(k), ~Torn(k)' PROVE store[k] = event
    <3>1. torn[k] = event
      BY <1>u, <2>2, <2>t DEF Torn
    <3> QED BY <2>3, <2>t, <3>1 DEF StoreFacts, TornIsMended
  <2>k. \A i \in 1..Len(results) : \A k \in results[i].keys : k \in Keys
    BY <1>n
  <2>4. Holds(store, p)
    <3> SUFFICES ASSUME NEW i \in 1..Len(results), results[i].seq < p, NEW k \in results[i].keys
                 PROVE  store[k] >= i \/ Torn(k)
      BY DEF Holds
    <3>1. i \in acked
      BY <1>b, <1>l, <1>t, <2>1
    <3> QED BY <3>1 DEF StoreFacts, AckedIsStored
  \* What is covered stays covered: up to p, what is mended is written by the event.
  <2>m. ASSUME NEW q \in Nat \cup {None}, q <= p, Holds(store, q) PROVE Holds(store, q)'
    <3> SUFFICES ASSUME NEW i \in 1..Len(results), results[i].seq < q, NEW k \in results[i].keys, ~Torn(k)'
                 PROVE  store[k] >= i
      BY <1>u, <2>1, <2>m DEF Holds
    <3>1. CASE Torn(k)
      <4>1. store[k] = event
        BY <2>k, <2>t, <3>1
      <4>2. results[i].seq < results[event].seq
        BY <1>n, <2>1, <2>3, <2>m DEF None
      <4>3. i < event
        BY <1>l, <2>1, <4>2
      <4> QED BY <2>1, <4>1, <4>3
    <3>2. CASE ~Torn(k)
      BY <2>m, <3>2 DEF Holds
    <3> QED BY <3>1, <3>2
  <2>s. syncPoint <= p /\ savedPoint <= p
    <3>1. event \in (1..Len(results)) \ acked
      BY <1>b, <2>1
    <3>2. p >= savedPoint
      BY <1>t, <2>1, <2>3, <3>1 DEF StoreFacts, SavedPointIsBehind
    <3> QED BY <1>t, <2>3, <3>2 DEF None
  <2>5. AnswersInOrder'
    <3>1. CASE acked' = acked
      BY <2>1, <3>1 DEF StoreFacts, AnswersInOrder
    <3>2. CASE acked' = acked \cup {event}
      BY <1>b, <1>t, <2>1, <3>2 DEF StoreFacts, AnswersInOrder
    <3> QED BY <2>2, <3>1, <3>2
  <2>6. AckedIsStored'
    <3> SUFFICES ASSUME NEW i \in acked', NEW k \in results[i].keys, ~Torn(k)' PROVE store[k] >= i
      BY <1>u, <2>1 DEF AckedIsStored
    <3>1. CASE i = event
      BY <2>1, <2>3, <3>1
    <3>2. CASE i # event
      <4>0. i \in acked
        BY <2>2, <3>2
      <4>1. i \in acked /\ i < event /\ i \in 1..Len(results)
        BY <1>a, <1>t, <2>1, <4>0
      <4>2. store[k] >= i \/ Torn(k)
        BY <4>1 DEF StoreFacts, AckedIsStored
      <4>3. Torn(k) => store[k] = event
        BY <2>k, <2>t, <4>1
      <4> QED BY <2>1, <4>1, <4>2, <4>3
    <3> QED BY <3>1, <3>2
  <2>7. PointsAreCovered'
    <3> DEFINE H(q) == \A i \in 1..Len(results) :
                         results[i].seq < q => \A k \in results[i].keys : store[k] >= i \/ Torn(k)'
    <3>2. H(p) /\ H(syncPoint) /\ H(savedPoint)
      BY <1>u, <2>1, <2>3, <2>4, <2>m, <2>s, <1>t DEF StoreFacts, PointsAreCovered, Holds
    <3>3. H(syncPoint') /\ H(savedPoint')
      BY <2>2, <3>2
    <3>4. IsNumber(syncPoint)' /\ IsNumber(savedPoint)'
      BY <1>u, <2>2, <2>3 DEF StoreFacts, PointsAreCovered, IsNumber
    <3> QED BY <1>u, <2>1, <3>3, <3>4 DEF PointsAreCovered, Holds
  <2>8. SavedPointIsBehind'
    <3> SUFFICES ASSUME NEW e \in (1..Len(results)) \ acked', results[e].seq >= syncPoint', savedPoint' # syncPoint'
                 PROVE  results[e].seq >= savedPoint'
      BY <1>n, <1>u DEF SavedPointIsBehind
    <3>1. acked' = acked /\ syncPoint' = syncPoint /\ savedPoint' \in {savedPoint, p}
      BY <2>2
    <3>2. CASE savedPoint' = savedPoint
      BY <1>t, <2>1, <3>1, <3>2 DEF StoreFacts, SavedPointIsBehind
    <3>3. CASE savedPoint' = p
      <4>1. ~(results[e].seq < p)
        BY <1>b, <1>l, <1>t, <2>1, <3>1
      <4> QED BY <1>n, <2>3, <3>3, <4>1
    <3> QED BY <3>1, <3>2, <3>3
  <2>d. TornIsMended'
    <3> SUFFICES ASSUME NEW k \in Keys, Torn(k)'
                 PROVE  /\ torn[k] \in 1..Len(results) /\ k \in results[torn[k]].keys
                        /\ results[torn[k]].seq >= syncPoint' /\ results[torn[k]].seq >= savedPoint'
      BY <1>h, <1>u, <2>1 DEF TornIsMended
    <3>1. Torn(k)
      BY <1>u, <2>2 DEF Torn
    <3>2. /\ torn[k] \in 1..Len(results) /\ k \in results[torn[k]].keys
          /\ results[torn[k]].seq >= syncPoint /\ results[torn[k]].seq >= savedPoint
      BY <3>1 DEF StoreFacts, TornIsMended
    <3>3. ~(results[torn[k]].seq < p)
      BY <1>b, <1>l, <1>t, <2>1, <3>1, <3>2 DEF Torn
    <3> QED BY <1>n, <2>2, <2>3, <3>2, <3>3
  <2>9. InitialSync' /\ EventIsWritten'
    <3>1. syncPoint # None /\ savedPoint # None /\ p # None
      BY <1>t, <2>1, <2>3 DEF StoreFacts, InitialSync, None
    <3>2. savedPoint' # None
      BY <2>2, <3>1
    <3> QED BY <1>h, <1>u, <2>1, <3>2 DEF InitialSync, EventIsWritten
  <2> QED BY <1>v, <2>5, <2>6, <2>7, <2>8, <2>9, <2>d DEF StoreFacts
<1> QED BY <1>1, <1>2, <1>3, <1>4

\* A crash forgets the sync point in memory; the one in the store is covered.
LEMMA CrashStep ==
  ASSUME TypeOK, Good, StoreFacts, CrashReaction
  PROVE  StoreFacts'
<1> USE DEF viewVars, broker
<1>t. HostTypeOK /\ Len(results) \in Nat /\ event \in 0..Len(results) /\ (phase = "sync" => event # 0)
  <2>1. HostTypeOK
    BY DEF TypeOK
  <2>2. Len(results) \in Nat
    BY <2>1 DEF HostTypeOK
  <2> QED BY <2>1, <2>2 DEF TypeOK
<1>n. \A i \in 1..Len(results) : results[i].seq \in Nat
  BY <1>t, ResultType
<1>1. /\ results' = results /\ viewed' = viewed /\ view' = view /\ acked' = acked /\ store' = store /\ torn' = torn
      /\ phase' = "down" /\ event' = 0 /\ syncPoint' = None /\ header' = 0
      /\ savedPoint' = savedPoint \/ (phase = "sync" /\ savedPoint' = results[event].seq)
  BY DEF CrashReaction, Exit, hostVars
<1>2. phase = "sync" => /\ results[event].seq # None /\ Holds(store, results[event].seq)
                        /\ IsNumber(results[event].seq)
  <2> SUFFICES ASSUME phase = "sync" PROVE results[event].seq # None /\ Holds(store, results[event].seq)
                                           /\ IsNumber(results[event].seq)
    OBVIOUS
  <2>1. event \in 1..Len(results) /\ \A j \in 1..(event - 1) : j \in acked
    BY <1>t DEF StoreFacts, AnswersInOrder
  <2>2. ASSUME NEW i \in 1..Len(results), results[i].seq < results[event].seq PROVE i \in acked
    BY <1>t, <2>1, <2>2, LowerIsEarlier DEF Good
  <2>3. Holds(store, results[event].seq)
    BY <2>2 DEF StoreFacts, AckedIsStored, Holds
  <2> QED BY <1>n, <2>1, <2>3 DEF IsNumber, None
<1>3. Holds(store, None) /\ IsNumber(None)
  BY <1>n DEF Holds, IsNumber, None
<1>4. AnswersInOrder' /\ AckedIsStored' /\ ViewIsComplete'
  BY <1>1 DEF StoreFacts, AnswersInOrder, AckedIsStored, ViewIsComplete, Torn
<1>5. PointsAreCovered'
  BY <1>1, <1>2, <1>3 DEF StoreFacts, PointsAreCovered, Holds, IsNumber, Torn
<1>6. SavedPointIsBehind' /\ InitialSync' /\ EventIsWritten'
  BY <1>1, <1>2 DEF StoreFacts, SavedPointIsBehind, InitialSync, EventIsWritten
<1>7. TornIsMended'
  <2> SUFFICES ASSUME NEW k \in Keys, Torn(k)
               PROVE  /\ torn[k] \in 1..Len(results) /\ k \in results[torn[k]].keys
                      /\ results[torn[k]].seq >= None /\ results[torn[k]].seq >= savedPoint'
    BY <1>1 DEF TornIsMended, Torn
  <2>1. /\ torn[k] \in 1..Len(results) /\ k \in results[torn[k]].keys
        /\ results[torn[k]].seq >= savedPoint
    BY DEF StoreFacts, TornIsMended
  <2>2. phase = "sync" => ~(results[torn[k]].seq < results[event].seq)
    <3> SUFFICES ASSUME phase = "sync", results[torn[k]].seq < results[event].seq PROVE FALSE
      OBVIOUS
    <3>1. event \in 1..Len(results) /\ \A i \in 1..(event - 1) : i \in acked
      BY <1>t DEF StoreFacts, AnswersInOrder
    <3>2. torn[k] < event
      BY <1>t, <2>1, <3>1, LowerIsEarlier DEF Good
    <3> QED BY <2>1, <3>1, <3>2 DEF Torn
  <2>3. phase = "sync" => event \in 1..Len(results)
    BY <1>t
  <2> QED BY <1>1, <1>n, <2>1, <2>2, <2>3 DEF None
<1> QED BY <1>4, <1>5, <1>6, <1>7 DEF StoreFacts

\* Every step keeps the inductive invariant.
LEMMA StoreStep ==
  ASSUME TypeOK, TypeOK', StoreInv, [Next]_vars
  PROVE  StoreInv'
<1> SUFFICES ASSUME Good' PROVE StoreFacts'
  BY DEF StoreInv, StoreFacts
<1>1. Good /\ StoreFacts
  BY GoodBefore DEF StoreInv, StoreFacts
<1>2. CASE HostNext /\ UNCHANGED <<viewVars, broker, reaction, storeVars, counters>>
  BY <1>1, <1>2, HostStep
<1>3. CASE ViewRecords
  <2> USE DEF broker, fetched, reaction, storeVars, counters
  <2>t. Len(results) \in Nat /\ viewed \in 0..Len(results) /\ view \in Contents
    BY DEF TypeOK, HostTypeOK
  <2>1. /\ results' = results /\ viewed' = viewed + 1
        /\ view' = Written(view, results[viewed + 1].keys, viewed + 1)
        /\ UNCHANGED <<acked, phase, event, header, items, torn, syncPoint, savedPoint, store>>
    BY <1>3 DEF ViewRecords, hostVars
  <2>2. ViewIsComplete'
    <3>0. viewed + 1 <= Len(results)
      BY <1>3, <2>t DEF ViewRecords
    <3> SUFFICES ASSUME NEW i \in 1..(viewed + 1), NEW k \in results[i].keys
                 PROVE  view'[k] >= i
      BY <2>1 DEF ViewIsComplete
    <3>1. k \in Keys
      <4>1. i \in 1..Len(results) /\ HostTypeOK
        BY <2>t, <3>0 DEF TypeOK
      <4> QED BY <4>1, ResultType
    <3>2. view'[k] = IF k \in results[viewed + 1].keys THEN viewed + 1 ELSE view[k]
      BY <2>1, <3>1 DEF Written
    <3>3. CASE i = viewed + 1
      BY <2>t, <3>2, <3>3
    <3>4. CASE i # viewed + 1
      <4>1. i \in 1..viewed /\ view[k] >= i
        BY <1>1, <2>t, <3>4 DEF StoreFacts, ViewIsComplete
      <4> QED BY <2>t, <3>2, <4>1
    <3> QED BY <3>3, <3>4
  <2>3. AnswersInOrder' /\ AckedIsStored'
    BY <1>1, <2>1 DEF StoreFacts, AnswersInOrder, AckedIsStored, Torn
  <2>4. PointsAreCovered'
    BY <1>1, <2>1 DEF StoreFacts, PointsAreCovered, Holds, IsNumber, Torn
  <2>5. SavedPointIsBehind' /\ EventIsWritten' /\ TornIsMended'
    BY <1>1, <2>1 DEF StoreFacts, SavedPointIsBehind, EventIsWritten, TornIsMended, Torn
  <2>6. InitialSync'
    BY <1>1, <2>1 DEF StoreFacts, InitialSync, Holds, StoreIsEmpty, Absent, Torn
  <2> QED BY <2>2, <2>3, <2>4, <2>5, <2>6 DEF StoreFacts
<1>4. CASE (\E i \in 1..MaxResults : Deliver(i)) \/ Skip \/ SaveEvent \/ UpdateSyncPoint
  BY <1>1, <1>4, HandlingStep
<1>5. CASE LoadSyncPoint \/ FetchHeader \/ FetchRows \/ CopyView \/ FirstSyncPoint
  BY <1>1, <1>5, InitialSyncStep
<1>6. CASE CrashReaction
  BY <1>1, <1>6, CrashStep
<1>7. CASE UNCHANGED vars
  BY <1>1, <1>7 DEF vars, hostVars, viewVars, broker, reaction, fetched, storeVars, StoreFacts,
     AnswersInOrder, AckedIsStored, ViewIsComplete, PointsAreCovered, SavedPointIsBehind, InitialSync,
     EventIsWritten, TornIsMended, Holds, IsNumber, StoreIsEmpty, Absent, Torn
<1> QED BY <1>2, <1>3, <1>4, <1>5, <1>6, <1>7 DEF Next, Reaction

\* Whatever is saved in part, thrown, crashed and delivered again, an answered
\* event is in the state store if numbers increase, the broker keeps the order
\* and every initial sync began with an empty store; or the key was read torn by the
\* initial sync and the event that mends it is still to be answered.
THEOREM AnsweredIsStored == Spec => []AckedIsStoredInOrder
<1>1. Init => StoreInv
  <2> SUFFICES ASSUME Init PROVE StoreFacts
    BY DEF StoreInv, StoreFacts
  <2>1. /\ Len(results) = 0 /\ acked = {} /\ event = 0 /\ viewed = 0 /\ phase = "down"
        /\ header = 0 /\ syncPoint = None /\ savedPoint = None /\ \A k \in Keys : torn[k] = 0
    BY DEF Init, HostInit, NoItems
  <2> QED BY <2>1 DEF StoreFacts, AnswersInOrder, AckedIsStored, ViewIsComplete, PointsAreCovered,
                      SavedPointIsBehind, InitialSync, EventIsWritten, TornIsMended, Torn, Holds, IsNumber, None
<1>2. StoreInv => AckedIsStoredInOrder
  BY DEF StoreInv, Good, AckedIsStoredInOrder
<1> QED BY <1>1, <1>2, StoreStep, TypeCorrect, PTL DEF Spec

-----------------------------------------------------------------------------
(***************************************************************************)
(* StoreNeverGoesBack needs the other direction: nothing in the store is   *)
(* newer than an event that may still be written.                          *)
(***************************************************************************)

Freshness ==
  /\ \A k \in Keys : view[k] <= viewed
  /\ savedPoint = None /\ StoreIsEmpty => \A k \in Keys : store[k] <= view[k]
  /\ header # 0 => \A k \in Keys : torn[k] = 0 =>
       /\ store[k] <= items[k] /\ items[k] <= view[k] /\ items[k] <= header
  /\ savedPoint # None =>
       \A e \in (1..Len(results)) \ acked :
         results[e].seq >= savedPoint => \A k \in Keys : store[k] <= e \/ Torn(k)

FreshInv == Good => Freshness

\* The event in hand is the oldest one not answered; if it may be written, nothing in
\* the store is newer.
LEMMA HandIsNewest ==
  ASSUME TypeOK, Good, StoreFacts, Freshness, event # 0, results[event].seq >= syncPoint,
         phase \in {"handle", "sync"}
  PROVE  /\ event \in (1..Len(results)) \ acked /\ savedPoint # None
         /\ results[event].seq >= savedPoint
         /\ \A k \in Keys : store[k] <= event \/ Torn(k)
         /\ \A e \in (1..Len(results)) \ acked : event <= e
<1>t. Len(results) \in Nat /\ event \in 1..Len(results) /\ syncPoint # None
  BY DEF TypeOK, HostTypeOK
<1>1. event \notin acked /\ \A j \in 1..(event - 1) : j \in acked
  BY <1>t DEF StoreFacts, AnswersInOrder
<1>2. savedPoint # None
  BY <1>t DEF StoreFacts, InitialSync
<1>3. results[event].seq >= savedPoint
  BY <1>t, <1>1 DEF StoreFacts, SavedPointIsBehind
<1>4. \A k \in Keys : store[k] <= event \/ Torn(k)
  BY <1>t, <1>1, <1>2, <1>3 DEF Freshness
<1>5. \A e \in (1..Len(results)) \ acked : event <= e
  BY <1>t, <1>1
<1> QED BY <1>t, <1>1, <1>2, <1>3, <1>4, <1>5

\* The answer that mends a torn key follows a write of the key.
LEMMA AnswerMends ==
  ASSUME TypeOK, Good, StoreFacts, Skip \/ UpdateSyncPoint, NEW k \in Keys, Torn(k), ~Torn(k)'
  PROVE  phase = "sync" /\ event # 0 /\ store[k] = event
<1>1. torn' = torn /\ acked' \in {acked, acked \cup {event}}
  BY DEF Skip, UpdateSyncPoint, Answer, Throw, fetched
<1>2. torn[k] = event
  BY <1>1 DEF Torn
<1>3. k \in results[event].keys /\ results[event].seq >= syncPoint /\ event \in 1..Len(results)
  BY <1>2 DEF StoreFacts, TornIsMended
<1>4. ~Skip
  <2>1. HostTypeOK /\ syncPoint \in Nat \cup {None} /\ results[event].seq \in Nat
    BY <1>3, ResultType DEF TypeOK
  <2> QED BY <1>3, <2>1 DEF Skip, None
<1>5. phase = "sync" /\ event # 0
  BY <1>4 DEF UpdateSyncPoint, TypeOK
<1> QED BY <1>3, <1>5 DEF StoreFacts, EventIsWritten

LEMMA FreshStep ==
  ASSUME TypeOK, TypeOK', Good, Good', StoreFacts, Freshness, [Next]_vars
  PROVE  Freshness' /\ \A k \in Keys : store'[k] >= store[k] \/ Torn(k)
<1> USE DEF viewVars, broker, fetched, reaction, storeVars, counters
<1>t. /\ HostTypeOK /\ Len(results) \in Nat /\ viewed \in 0..Len(results)
      /\ syncPoint \in Nat \cup {None} /\ savedPoint \in Nat \cup {None} /\ header \in 0..Len(results)
      /\ \A k \in Keys : /\ view[k] \in 0..Len(results) /\ items[k] \in 0..Len(results)
                         /\ store[k] \in 0..Len(results)
      /\ (phase \in {"handle", "sync"} <=> event # 0)
      /\ (phase \in {"ready", "handle", "sync"} <=> syncPoint # None)
      /\ (phase \in {"rows", "copy", "point"} <=> header # 0)
  <2>1. HostTypeOK
    BY DEF TypeOK
  <2>2. Len(results) \in Nat
    BY <2>1 DEF HostTypeOK
  <2> QED BY <2>1, <2>2 DEF TypeOK, Contents
<1>n. \A i \in 1..Len(results) : results[i].seq \in Nat /\ results[i].keys \subseteq Keys
  BY <1>t, ResultType
<1>z. None \notin Nat
  BY DEF None
<1>i. phase \in {"fetch", "rows", "copy", "point"} => savedPoint = None /\ acked = {}
  BY DEF StoreFacts, InitialSync
\* A step that leaves the view and the store alone.
<1>k. ASSUME UNCHANGED <<results, viewed, view, store, torn>>, acked \subseteq acked',
             header' # 0 => UNCHANGED <<items, header>>, savedPoint' = savedPoint,
             \A k \in Keys : Torn(k) => Torn(k)' \/ \A e \in (1..Len(results)) \ acked' : store[k] <= e
      PROVE  Freshness' /\ \A k \in Keys : store'[k] >= store[k] \/ Torn(k)
  <2>1. \A k \in Keys : store'[k] >= store[k]
    BY <1>k, <1>t
  <2>2. StoreIsEmpty' = StoreIsEmpty
    BY <1>k DEF StoreIsEmpty, Absent
  <2>3. ASSUME savedPoint # None
        PROVE  \A e \in (1..Len(results)) \ acked' :
                 results[e].seq >= savedPoint => \A k \in Keys : store[k] <= e \/ Torn(k)'
    BY <1>k, <2>3 DEF Freshness
  <2>4. \A k \in Keys : view'[k] <= viewed'
    BY <1>k DEF Freshness
  <2>5. savedPoint' = None /\ StoreIsEmpty' => \A k \in Keys : store'[k] <= view'[k]
    BY <1>k, <2>2 DEF Freshness
  <2>6. header' # 0 => \A k \in Keys : torn'[k] = 0 =>
          /\ store'[k] <= items'[k] /\ items'[k] <= view'[k] /\ items'[k] <= header'
    BY <1>k DEF Freshness
  <2> QED BY <1>k, <2>1, <2>3, <2>4, <2>5, <2>6 DEF Freshness
<1>1. CASE HostNext /\ UNCHANGED <<viewVars, broker, reaction, storeVars, counters>>
  <2>1. /\ Len(results) \in Nat /\ Len(results') \in Nat /\ Len(results) <= Len(results')
        /\ \A i \in 1..Len(results) : results'[i] = results[i]
    BY <1>t, <1>1, ResultsGrow
  <2>2. \A e \in 1..Len(results') : e \in 1..Len(results) \/ e > Len(results)
    BY <2>1
  <2>3. \A e \in 1..Len(results') : e > Len(results) => \A k \in Keys : store[k] <= e
    BY <1>t, <2>1
  <2>4. \A k \in Keys : store'[k] >= store[k]
    BY <1>1, <1>t
  <2>5. UNCHANGED <<viewed, view, store, savedPoint, acked, phase, items, header, torn>>
    BY <1>1
  <2>6. StoreIsEmpty' => StoreIsEmpty
    BY <1>t, <2>1, <2>5 DEF StoreIsEmpty, Absent
  <2>7. ASSUME savedPoint # None
        PROVE  \A e \in (1..Len(results')) \ acked :
                 results'[e].seq >= savedPoint => \A k \in Keys : store[k] <= e \/ Torn(k)
    BY <2>1, <2>2, <2>3, <2>7 DEF Freshness
  <2>8. \A k : Torn(k)' <=> Torn(k)
    BY <2>5 DEF Torn
  <2> QED BY <2>4, <2>5, <2>6, <2>7, <2>8 DEF Freshness
<1>2. CASE ViewRecords
  <2>1. /\ viewed' = viewed + 1 /\ view' = Written(view, results[viewed + 1].keys, viewed + 1)
        /\ UNCHANGED <<results, acked, phase, header, items, torn, savedPoint, store>>
    BY <1>2 DEF ViewRecords, hostVars
  <2>2. \A k \in Keys : view'[k] = (IF k \in results[viewed + 1].keys THEN viewed + 1 ELSE view[k])
    BY <2>1 DEF Written
  <2>3. \A k \in Keys : view[k] <= view'[k] /\ view'[k] <= viewed'
    BY <1>t, <2>1, <2>2 DEF Freshness
  <2>4. \A k \in Keys : view'[k] \in Nat
    BY <1>t, <2>2
  <2>5. \A k \in Keys : (store[k] <= view[k] => store[k] <= view'[k]) /\ (items[k] <= view[k] => items[k] <= view'[k])
    BY <1>t, <2>3, <2>4
  <2>6. \A k \in Keys : store'[k] >= store[k]
    BY <1>t, <2>1
  <2>7. StoreIsEmpty' = StoreIsEmpty /\ \A k : Torn(k)' <=> Torn(k)
    BY <2>1 DEF StoreIsEmpty, Absent, Torn
  <2> QED BY <2>1, <2>3, <2>5, <2>6, <2>7 DEF Freshness
<1>3. CASE \E i \in 1..MaxResults : Deliver(i)
  BY <1>3, <1>k DEF Deliver, hostVars, Torn
<1>4. CASE LoadSyncPoint
  BY <1>4, <1>k DEF LoadSyncPoint, hostVars, Torn
<1>5. CASE FetchHeader
  <2>1. /\ phase = "fetch" /\ phase' = "rows" /\ items' = view /\ header' = viewed /\ torn' = NoItems
        /\ UNCHANGED <<results, viewed, view, acked, savedPoint, store>>
    BY <1>5 DEF FetchHeader, hostVars
  <2>2. savedPoint = None /\ StoreIsEmpty
    BY <2>1 DEF StoreFacts, InitialSync
  <2>3. \A k \in Keys : store'[k] >= store[k] /\ view[k] <= view[k] /\ store[k] <= view[k]
    BY <1>t, <2>1, <2>2 DEF Freshness
  <2> QED BY <2>1, <2>2, <2>3 DEF Freshness
<1>6. CASE FetchRows
  <2>1. phase = "rows" /\ header # 0 /\ savedPoint = None /\ torn = NoItems
        /\ UNCHANGED <<results, viewed, view, acked, savedPoint, store>>
    BY <1>6, <1>i, <1>t DEF FetchRows, hostVars, StoreFacts, TornIsMended
  <2>2. PICK c \in Readable :
          \/ Exit /\ torn' = torn
          \/ /\ items' = c /\ torn' = [k \in Keys |-> MendedBy(c, k)] /\ header' = header
    BY <1>6 DEF FetchRows
  <2>3. \A k \in Keys : store'[k] >= store[k]
    BY <1>t, <2>1
  <2>4. StoreIsEmpty' = StoreIsEmpty
    BY <2>1 DEF StoreIsEmpty, Absent
  <2>5. header' # 0 => \A k \in Keys : torn'[k] = 0 => items'[k] = items[k] /\ header' = header
    <3>1. Exit => header' = 0
      BY DEF Exit
    <3> QED BY <2>1, <2>2, <3>1, MendedByLater
  <2>6. \A k \in Keys : torn[k] = 0
    BY <2>1 DEF NoItems
  <2> QED BY <2>1, <2>3, <2>4, <2>5, <2>6 DEF Freshness
<1>7. CASE CopyView
  <2>1. phase = "copy" /\ header # 0 /\ UNCHANGED <<results, viewed, view, acked, savedPoint, torn>>
        /\ \/ header' = header /\ items' = items
           \/ header' = 0
    BY <1>7, <1>t DEF CopyView, hostVars, Exit
  <2>2. savedPoint = None /\ acked = {} /\ StoreIsEmpty
    BY <1>i, <2>1 DEF StoreFacts, InitialSync
  <2>3. \A k \in Keys : \/ store'[k] = store[k]
                        \/ store'[k] = items[k] /\ (torn[k] = 0 \/ ~Absent(items[k], k))
    <3>1. PICK keys \in SUBSET {k \in Keys : ~Absent(items[k], k)} :
            store' = [k \in Keys |-> IF \/ k \in keys
                                        \/ Absent(items[k], k) /\ Absent(store[k], k) /\ torn[k] = 0
                                     THEN items[k] ELSE store[k]]
      BY <1>7 DEF CopyView
    <3>2. \A k \in keys : ~Absent(items[k], k)
      OBVIOUS
    <3> QED BY <3>1, <3>2
  <2>4. \A k \in Keys : torn[k] = 0 => store[k] <= items[k] /\ items[k] <= view[k] /\ items[k] <= header
    BY <2>1 DEF Freshness
  <2>5. \A k \in Keys : torn[k] = 0 => store'[k] <= items[k] /\ store'[k] >= store[k]
    BY <1>t, <2>3, <2>4
  <2>6. \A k \in Keys : torn[k] # 0 => Torn(k)
    BY <2>2 DEF Torn
  <2>7. ASSUME StoreIsEmpty', NEW k \in Keys PROVE store'[k] <= view[k]
    <3>1. store[k] <= view[k]
      BY <2>2 DEF Freshness
    <3>2. Absent(store'[k], k)
      BY <2>1, <2>7 DEF StoreIsEmpty, Absent
    <3> QED BY <1>t, <2>3, <2>4, <3>1, <3>2
  <2> QED BY <2>1, <2>2, <2>4, <2>5, <2>6, <2>7 DEF Freshness
<1>8. CASE FirstSyncPoint
  <2>1. /\ phase = "point" /\ header' = 0 /\ savedPoint' \in {savedPoint, results[header].seq}
        /\ header \in 1..Len(results) /\ UNCHANGED <<results, viewed, view, acked, store, torn>>
    BY <1>8, <1>t DEF FirstSyncPoint, hostVars, Exit
  <2>2. savedPoint = None /\ acked = {}
    BY <1>i, <2>1
  <2>3. \A k \in Keys : store'[k] >= store[k]
    BY <1>t, <2>1
  <2>4. ASSUME NEW e \in 1..Len(results), results[e].seq >= results[header].seq PROVE e >= header
    <3>1. ~(e < header)
      BY <1>n, <2>1, <2>4 DEF Good, NumbersIncrease
    <3> QED BY <1>t, <2>1, <3>1
  <2>5. \A e \in 1..Len(results) : results[e].seq >= results[header].seq =>
          \A k \in Keys : store[k] <= e \/ Torn(k)'
    <3> SUFFICES ASSUME NEW e \in 1..Len(results), results[e].seq >= results[header].seq, NEW k \in Keys,
                        torn[k] = 0
                 PROVE  store[k] <= e
      BY <2>1, <2>2 DEF Torn
    <3>1. e >= header
      BY <2>4
    <3>2. store[k] <= items[k] /\ items[k] <= header
      BY <2>1, <1>t DEF Freshness
    <3> QED BY <1>t, <3>1, <3>2
  <2>6. StoreIsEmpty' = StoreIsEmpty
    BY <2>1 DEF StoreIsEmpty, Absent
  <2> QED BY <2>1, <2>2, <2>3, <2>5, <2>6 DEF Freshness
<1>9. CASE Skip
  <2>1. UNCHANGED <<results, viewed, view, store, torn, savedPoint, items, header>> /\ acked \subseteq acked'
    BY <1>9 DEF Skip, Answer, hostVars
  <2>2. \A k \in Keys : Torn(k) => Torn(k)'
    <3> SUFFICES ASSUME NEW k \in Keys, Torn(k), ~Torn(k)' PROVE FALSE
      OBVIOUS
    <3>1. phase = "sync"
      BY <1>9, AnswerMends
    <3> QED BY <1>9, <3>1 DEF Skip
  <2> QED BY <1>k, <2>1, <2>2
<1>10. CASE SaveEvent
  <2>1. /\ phase = "handle" /\ header = 0 /\ header' = header /\ results[event].seq >= syncPoint
        /\ UNCHANGED <<results, viewed, view, acked, savedPoint, torn>>
    BY <1>10, <1>t DEF SaveEvent, hostVars, Throw
  <2>2. \A k \in Keys : store'[k] \in {event, store[k]}
    BY <1>10 DEF SaveEvent, Written
  <2>3. /\ event \in (1..Len(results)) \ acked /\ savedPoint # None
        /\ \A k \in Keys : store[k] <= event \/ Torn(k)
        /\ \A e \in (1..Len(results)) \ acked : event <= e
    BY <1>t, <2>1, HandIsNewest
  <2>4. \A k \in Keys : store'[k] >= store[k] \/ Torn(k)
    BY <1>t, <2>2, <2>3
  <2>5. \A e \in (1..Len(results)) \ acked : results[e].seq >= savedPoint =>
          \A k \in Keys : store'[k] <= e \/ Torn(k)
    BY <1>t, <2>2, <2>3 DEF Freshness
  <2>6. \A k : Torn(k)' <=> Torn(k)
    BY <2>1 DEF Torn
  <2> QED BY <2>1, <2>3, <2>4, <2>5, <2>6 DEF Freshness
<1>11. CASE UpdateSyncPoint \/ CrashReaction
  <2>a. ASSUME UpdateSyncPoint
        PROVE  /\ header' = header /\ items' = items /\ acked \subseteq acked'
               /\ \/ savedPoint' = savedPoint
                  \/ phase = "sync" /\ savedPoint' = results[event].seq
               /\ UNCHANGED <<results, viewed, view, store, torn>>
    BY <2>a DEF UpdateSyncPoint, hostVars, Exit, Answer, Throw
  <2>b. ASSUME CrashReaction
        PROVE  /\ header' = 0 /\ acked' = acked
               /\ \/ savedPoint' = savedPoint
                  \/ phase = "sync" /\ savedPoint' = results[event].seq
               /\ UNCHANGED <<results, viewed, view, store, torn>>
    BY <2>b DEF CrashReaction, hostVars, viewVars, broker, Exit
  <2>1. /\ header' # 0 => UNCHANGED <<items, header>>
        /\ acked \subseteq acked'
        /\ \/ savedPoint' = savedPoint
           \/ phase = "sync" /\ savedPoint' = results[event].seq
        /\ UNCHANGED <<results, viewed, view, store, torn>>
    BY <1>11, <2>a, <2>b
  <2>2. ASSUME NEW k \in Keys, Torn(k), ~Torn(k)'
        PROVE  \A e \in (1..Len(results)) \ acked' : store[k] <= e
    <3>1. UpdateSyncPoint
      BY <1>11, <2>2, <2>b DEF Torn
    <3>2. phase = "sync" /\ event # 0 /\ store[k] = event
      BY <2>2, <3>1, AnswerMends
    <3>3. results[event].seq >= syncPoint
      BY <3>2 DEF StoreFacts, EventIsWritten
    <3>4. \A e \in (1..Len(results)) \ acked : event <= e
      BY <3>2, <3>3, HandIsNewest
    <3> QED BY <2>1, <3>2, <3>4
  <2>3. CASE savedPoint' = savedPoint
    BY <2>1, <2>2, <2>3, <1>k
  <2>4. CASE phase = "sync" /\ savedPoint' = results[event].seq
    <3>1. results[event].seq >= syncPoint
      BY <2>4 DEF StoreFacts, EventIsWritten
    <3>2. event \in 1..Len(results) /\ savedPoint # None /\ results[event].seq >= savedPoint
      BY <1>t, <2>4, <3>1, HandIsNewest
    <3>3. savedPoint \in Nat /\ savedPoint' \in Nat /\ savedPoint' >= savedPoint /\ savedPoint' # None
      BY <1>t, <1>n, <1>z, <2>4, <3>2
    <3>4. \A e \in 1..Len(results) : results[e].seq >= savedPoint' => results[e].seq >= savedPoint
      BY <1>n, <3>3
    <3>5. \A k \in Keys : store'[k] >= store[k]
      BY <1>t, <2>1
    <3>6. header' = 0
      BY <1>t, <2>1, <2>4
    <3>7. \A e \in (1..Len(results)) \ acked' : results[e].seq >= savedPoint' =>
            \A k \in Keys : store[k] <= e \/ Torn(k)'
      BY <2>1, <2>2, <3>2, <3>4 DEF Freshness
    <3> QED BY <2>1, <3>3, <3>5, <3>6, <3>7 DEF Freshness
  <2> QED BY <2>1, <2>3, <2>4
<1>12. CASE UNCHANGED vars
  BY <1>12, <1>k DEF vars, hostVars, Torn
<1> QED
  BY <1>1, <1>2, <1>3, <1>4, <1>5, <1>6, <1>7, <1>8, <1>9, <1>10, <1>11, <1>12 DEF Next, Reaction

\* Under the same conditions no key of the state store ever goes back to an older
\* result, unless it was read torn and is not mended yet, however often an event is saved in part, refused and handled again: the
\* comparison with the sync point in ChangeEventHandler is enough.
THEOREM StoreOnlyAdvances == Spec => StoreNeverGoesBack
<1>1. Init => StoreInv /\ FreshInv
  <2> SUFFICES ASSUME Init PROVE StoreFacts /\ Freshness
    BY DEF StoreInv, StoreFacts, FreshInv
  <2>1. /\ Len(results) = 0 /\ acked = {} /\ event = 0 /\ viewed = 0 /\ phase = "down"
        /\ header = 0 /\ syncPoint = None /\ savedPoint = None
        /\ \A k \in Keys : view[k] = 0 /\ store[k] = 0 /\ torn[k] = 0
    BY DEF Init, HostInit, NoItems
  <2>2. StoreFacts
    BY <2>1 DEF StoreFacts, AnswersInOrder, AckedIsStored, ViewIsComplete, PointsAreCovered,
                SavedPointIsBehind, InitialSync, EventIsWritten, TornIsMended, Torn, Holds, IsNumber, None
  <2> QED BY <2>1, <2>2 DEF Freshness
<1>2. TypeOK /\ TypeOK' /\ StoreInv /\ FreshInv /\ [Next]_vars =>
        /\ StoreInv' /\ FreshInv'
        /\ InOrder /\ NumbersIncrease' /\ resyncs' = 0 => \A k \in Keys : store'[k] >= store[k] \/ Torn(k)
  <2> SUFFICES ASSUME TypeOK, TypeOK', StoreInv, FreshInv, [Next]_vars
               PROVE  /\ StoreInv' /\ FreshInv'
                      /\ InOrder /\ NumbersIncrease' /\ resyncs' = 0
                           => \A k \in Keys : store'[k] >= store[k] \/ Torn(k)
    OBVIOUS
  <2>1. StoreInv'
    BY StoreStep
  <2>2. ASSUME Good' PROVE Freshness' /\ \A k \in Keys : store'[k] >= store[k] \/ Torn(k)
    <3>1. Good /\ StoreFacts /\ Freshness
      BY <2>2, GoodBefore DEF StoreInv, StoreFacts, FreshInv
    <3> QED BY <2>2, <3>1, FreshStep
  <2>3. InOrder /\ NumbersIncrease' /\ resyncs' = 0 => Good'
    BY DEF Good
  <2> QED BY <2>1, <2>2, <2>3 DEF FreshInv
<1> QED BY <1>1, <1>2, TypeCorrect, PTL DEF Spec, StoreNeverGoesBack

=============================================================================
