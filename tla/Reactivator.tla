---------------------------- MODULE Reactivator ----------------------------
(***************************************************************************)
(* A source's reactivator: the Kubernetes reactivator on the Rust source   *)
(* SDK.  One monitor task per kind of resource watches the API server and  *)
(* sends changes through a bounded channel to the main loop, which         *)
(* publishes them to the topic <source>-change.  A monitor keeps a cursor, *)
(* the resource version it watches from; only a bookmark of the server     *)
(* makes it durable.                                                       *)
(*                                                                         *)
(* The position of an event in the source's log is its resource version.   *)
(* An event gives a node, and a relation for an owned object; what is      *)
(* published is kept as the last version published of each element.        *)
(***************************************************************************)
EXTENDS Integers, Sequences, FiniteSets, FiniteSetsExt, Functions

CONSTANTS
  Objects,      \* resources of the cluster
  Kinds,        \* their kinds: a monitor task each
  KindOf,       \* kind of each object
  Owned,        \* objects with an owner reference
  Faults,       \* what may fail in this model
  MaxLog,       \* bound: changes of the source
  MaxFaults,    \* bound: failed calls
  MaxRestarts   \* bound: crashes and terminations

FaultKinds == {"watch", "end", "expire", "put", "load", "publish", "crash", "terminate",
               "deprovision"}

ASSUME ReactivatorAssumption ==
  /\ KindOf \in [Objects -> Kinds] /\ Owned \subseteq Objects /\ Faults \subseteq FaultKinds
  /\ MaxLog \in Nat /\ MaxFaults \in Nat /\ MaxRestarts \in Nat

Event == [obj : Objects, op : {"i", "u", "d"}]

\* The elements of the objects, and the change messages of a version of them.
Elements == {e \in Objects \X {"node", "rel"} : e[2] = "rel" => e[1] \in Owned}
Messages == Elements \X (1 .. MaxLog)

\* mpsc::channel(1)
Capacity == 1

VARIABLES
  log,      \* events of the source, in the order of their resource versions
  horizon,  \* versions below it are no longer served
  saved,    \* state store: the durable cursor of each kind, 0 for none
  pc,       \* monitor: "start" a watch, or "watching"
  cursor,   \* monitor: version it watches from, 0 for a list and what follows
  todo,     \* versions the server is still to list for the watch
  tail,     \* version up to which the server has served the watch
  out,      \* messages of the event in hand the monitor has not sent
  chan,     \* the channel
  hand,     \* message the main loop publishes
  view,     \* last version published of each element, 0 for none
  dropped,  \* messages a restart lost behind a durable cursor
  skipped,  \* messages a restart left behind a durable cursor that had not been loaded
  unloaded, \* kinds that run without their durable cursor: it was not loaded
  cut,      \* versions a watch that ended left unlisted behind its cursor
  listed,   \* length of the log when each kind was last listed
  crashes, terminations, faults   \* bound counters

source  == <<log, horizon>>
monitor == <<pc, cursor, todo, tail, out>>
history == <<dropped, skipped, unloaded, cut, listed>>
bounds  == <<crashes, terminations, faults>>
vars == <<source, saved, monitor, chan, hand, view, history, bounds>>

Kind(i) == KindOf[log[i].obj]
LastEvent(o) == Max({0} \cup {i \in DOMAIN log : log[i].obj = o})
Live(o) == LastEvent(o) # 0 /\ log[LastEvent(o)].op # "d"
InFlight == Range(chan) \cup Range(hand) \cup UNION {Range(out[k]) : k \in Kinds}

Init ==
  /\ log = <<>> /\ horizon = 0
  /\ saved = [k \in Kinds |-> 0]
  /\ pc = [k \in Kinds |-> "start"] /\ cursor = [k \in Kinds |-> 0]
  /\ todo = [k \in Kinds |-> {}] /\ tail = [k \in Kinds |-> 0]
  /\ out = [k \in Kinds |-> <<>>] /\ chan = <<>> /\ hand = <<>>
  /\ view = [e \in Elements |-> 0]
  /\ dropped = {} /\ skipped = {} /\ unloaded = {} /\ cut = {} /\ listed = [k \in Kinds |-> 0]
  /\ crashes = 0 /\ terminations = 0 /\ faults = 0

Fail(kind) ==
  /\ kind \in Faults /\ faults < MaxFaults
  /\ faults' = faults + 1 /\ UNCHANGED <<crashes, terminations>>

-----------------------------------------------------------------------------
(***************************************************************************)
(* The API server.                                                         *)
(***************************************************************************)

Commit ==
  /\ Len(log) < MaxLog
  /\ \E o \in Objects, op \in {"i", "u", "d"} :
       /\ Live(o) <=> op # "i"
       /\ log' = Append(log, [obj |-> o, op |-> op])
  /\ UNCHANGED <<horizon, saved, monitor, chan, hand, view, history, bounds>>

\* Old versions are compacted: a watch from one of them is answered with 410.
Compact ==
  /\ Fail("expire") /\ horizon' \in (horizon + 1) .. Len(log)
  /\ UNCHANGED <<log, saved, monitor, chan, hand, view, history>>

-----------------------------------------------------------------------------
(***************************************************************************)
(* A monitor task.                                                         *)
(***************************************************************************)

\* A watch from version 0 lists what exists and goes on from there.
StartList(k) ==
  /\ pc[k] = "start" /\ cursor[k] = 0
  /\ pc' = [pc EXCEPT ![k] = "watching"]
  /\ todo' = [todo EXCEPT ![k] = {LastEvent(o) : o \in {x \in Objects : KindOf[x] = k /\ Live(x)}}]
  /\ tail' = [tail EXCEPT ![k] = Len(log)]
  /\ listed' = [listed EXCEPT ![k] = Len(log)]
  /\ UNCHANGED <<source, saved, cursor, out, chan, hand, view, bounds>>
  /\ UNCHANGED <<dropped, skipped, unloaded, cut>>

StartWatch(k) ==
  /\ pc[k] = "start" /\ cursor[k] # 0 /\ cursor[k] >= horizon
  /\ pc' = [pc EXCEPT ![k] = "watching"]
  /\ tail' = [tail EXCEPT ![k] = cursor[k]]
  /\ UNCHANGED <<source, saved, cursor, todo, out, chan, hand, view, history, bounds>>

\* Mutant: an expired cursor is moved up to what the server still has.
ExpiredSkips(k) ==
  /\ pc[k] = "start" /\ cursor[k] # 0 /\ cursor[k] < horizon
  /\ cursor' = [cursor EXCEPT ![k] = horizon]
  /\ UNCHANGED <<source, saved, pc, todo, tail, out, chan, hand, view, history, bounds>>

\* Error event with code 410.
Expired(k) ==
  /\ pc[k] = "start" /\ cursor[k] # 0 /\ cursor[k] < horizon
  /\ cursor' = [cursor EXCEPT ![k] = 0]
  /\ UNCHANGED <<source, saved, pc, todo, tail, out, chan, hand, view, history, bounds>>

\* The watch cannot be started: the task sleeps and tries again.
WatchFails(k) ==
  /\ pc[k] = "start" /\ Fail("watch")
  /\ UNCHANGED <<source, saved, monitor, chan, hand, view, history>>

\* The watch ends, by an error or not.
WatchEnds(k) ==
  /\ pc[k] = "watching" /\ out[k] = <<>> /\ Fail("end")
  /\ pc' = [pc EXCEPT ![k] = "start"]
  /\ todo' = [todo EXCEPT ![k] = {}]
  /\ cut' = cut \cup {i \in todo[k] : i < cursor[k]}
  /\ UNCHANGED <<source, saved, cursor, tail, out, chan, hand, view>>
  /\ UNCHANGED <<dropped, skipped, unloaded, listed>>

NextVersion(k) == {i \in DOMAIN log : i > tail[k] /\ Kind(i) = k}

Change(i, p) == <<<<log[i].obj, p>>, i>>

\* The cursor moves to the event's version before the event is sent on.
Take(k, i) ==
  /\ cursor' = [cursor EXCEPT ![k] = i]
  /\ out' = [out EXCEPT ![k] = IF log[i].obj \in Owned THEN <<Change(i, "node"), Change(i, "rel")>>
                                                      ELSE <<Change(i, "node")>>]

ReadListed(k) ==
  /\ pc[k] = "watching" /\ out[k] = <<>>
  /\ \E i \in todo[k] : Take(k, i) /\ todo' = [todo EXCEPT ![k] = @ \ {i}]
  /\ UNCHANGED <<source, saved, pc, tail, chan, hand, view, history, bounds>>

ReadEvent(k) ==
  /\ pc[k] = "watching" /\ out[k] = <<>> /\ todo[k] = {} /\ NextVersion(k) # {}
  /\ LET i == Min(NextVersion(k)) IN Take(k, i) /\ tail' = [tail EXCEPT ![k] = i]
  /\ UNCHANGED <<source, saved, pc, todo, chan, hand, view, history, bounds>>

StoreCursor(k, v) == saved' = [saved EXCEPT ![k] = v] /\ unloaded' = unloaded \ {k}

\* Mutant: the cursor is stored while the event before it is still being sent.
BookmarkEarly(k) ==
  /\ pc[k] = "watching" /\ todo[k] = {}
  /\ NextVersion(k) = {} /\ log # <<>> /\ saved[k] # Len(log)
  /\ cursor' = [cursor EXCEPT ![k] = Len(log)]
  /\ tail' = [tail EXCEPT ![k] = Len(log)]
  /\ StoreCursor(k, Len(log)) /\ UNCHANGED bounds
  /\ UNCHANGED <<source, pc, todo, out, chan, hand, view, dropped, skipped, cut, listed>>

\* The server has served every event up to the bookmark's version.  The cursor is
\* stored; an error of the store is only logged.
Bookmark(k) ==
  /\ pc[k] = "watching" /\ out[k] = <<>> /\ todo[k] = {}
  /\ NextVersion(k) = {} /\ log # <<>> /\ saved[k] # Len(log)
  /\ cursor' = [cursor EXCEPT ![k] = Len(log)]
  /\ tail' = [tail EXCEPT ![k] = Len(log)]
  /\ \/ StoreCursor(k, Len(log)) /\ UNCHANGED bounds
     \/ Fail("put") /\ UNCHANGED <<saved, unloaded>>
  /\ UNCHANGED <<source, pc, todo, out, chan, hand, view, dropped, skipped, cut, listed>>

\* Mutant: an unbounded channel.
SendUnbounded(k) ==
  /\ out[k] # <<>>
  /\ chan' = Append(chan, Head(out[k]))
  /\ out' = [out EXCEPT ![k] = Tail(@)]
  /\ UNCHANGED <<source, saved, pc, cursor, todo, tail, hand, view, history, bounds>>

\* Mutant: try_send, whose error is only logged.
TrySend(k) ==
  /\ out[k] # <<>>
  /\ chan' = IF Len(chan) < Capacity THEN Append(chan, Head(out[k])) ELSE chan
  /\ out' = [out EXCEPT ![k] = Tail(@)]
  /\ UNCHANGED <<source, saved, pc, cursor, todo, tail, hand, view, history, bounds>>

Send(k) ==
  /\ out[k] # <<>> /\ Len(chan) < Capacity
  /\ chan' = Append(chan, Head(out[k]))
  /\ out' = [out EXCEPT ![k] = Tail(@)]
  /\ UNCHANGED <<source, saved, pc, cursor, todo, tail, hand, view, history, bounds>>

-----------------------------------------------------------------------------
(***************************************************************************)
(* The main loop of the SDK.                                               *)
(***************************************************************************)

NextChange ==
  /\ hand = <<>> /\ chan # <<>>
  /\ hand' = <<Head(chan)>> /\ chan' = Tail(chan)
  /\ UNCHANGED <<source, saved, monitor, view, history, bounds>>

Published == [view EXCEPT ![hand[1][1]] = hand[1][2]]

Publish ==
  /\ hand # <<>> /\ view' = Published /\ hand' = <<>>
  /\ UNCHANGED <<source, saved, monitor, chan, history, bounds>>

\* The monitors load their cursors; an error counts as none.
LoadCursors ==
  \/ cursor' = saved /\ unloaded' = {} /\ UNCHANGED faults
  \/ /\ "load" \in Faults /\ faults < MaxFaults /\ faults' = faults + 1
     /\ \E lost \in SUBSET Kinds :
          /\ cursor' = [k \in Kinds |-> IF k \in lost THEN 0 ELSE saved[k]]
          /\ unloaded' = lost

\* A restart that loads the durable cursor of m's kind does not read m's version again.
Behind(m) == LET k == KindOf[m[1][1]] IN m[2] <= saved[k] /\ saved[k] >= horizon

\* The process ends and is started again.  Behind the durable cursors is lost what was
\* on its way; for a kind that had not loaded its cursor also what it was to read and
\* publish again.
Restart ==
  /\ LoadCursors
  /\ pc' = [k \in Kinds |-> "start"] /\ todo' = [k \in Kinds |-> {}]
  /\ tail' = [k \in Kinds |-> 0] /\ out' = [k \in Kinds |-> <<>>]
  /\ chan' = <<>> /\ hand' = <<>>
  /\ dropped' = dropped \cup {m \in InFlight : Behind(m) /\ KindOf[m[1][1]] \notin unloaded}
  /\ skipped' = skipped \cup {m \in Messages : /\ Behind(m) /\ KindOf[m[1][1]] \in unloaded
                                               /\ view'[m[1]] # m[2]}
  /\ UNCHANGED <<source, saved, cut, listed>>

\* An error of publish panics; the message may have reached the topic.
PublishFails ==
  /\ hand # <<>> /\ "publish" \in Faults /\ crashes + terminations < MaxRestarts
  /\ view' \in {view, Published}
  /\ Restart /\ crashes' = crashes + 1 /\ UNCHANGED terminations

Crash ==
  /\ "crash" \in Faults /\ crashes + terminations < MaxRestarts
  /\ UNCHANGED view
  /\ Restart /\ crashes' = crashes + 1 /\ UNCHANGED terminations

\* SIGTERM, which the loop only sees between two messages.
Terminate ==
  /\ "terminate" \in Faults /\ hand = <<>> /\ crashes + terminations < MaxRestarts
  /\ UNCHANGED view
  /\ Restart /\ terminations' = terminations + 1 /\ UNCHANGED crashes

\* The deprovision handler deletes the cursors, errors ignored; the monitors go on.
DeleteCursors(ks) == saved' = [k \in Kinds |-> IF k \in ks THEN 0 ELSE saved[k]]

Deprovision ==
  /\ Fail("deprovision")
  /\ \E ks \in SUBSET Kinds : DeleteCursors(ks)
  /\ UNCHANGED <<source, monitor, chan, hand, view, history>>

-----------------------------------------------------------------------------
Monitor(k) ==
  StartList(k) \/ StartWatch(k) \/ Expired(k) \/ ReadListed(k) \/ ReadEvent(k) \/ Send(k)

Next ==
  \/ Commit \/ Compact \/ NextChange \/ Publish \/ PublishFails \/ Crash \/ Terminate
  \/ Deprovision
  \/ \E k \in Kinds : Monitor(k) \/ Bookmark(k) \/ WatchFails(k) \/ WatchEnds(k)

\* The tasks are scheduled by the Tokio runtime.  Nothing obliges the server to send
\* bookmarks.
Fairness ==
  /\ WF_vars(NextChange) /\ WF_vars(Publish)
  /\ \A k \in Kinds :
       /\ WF_vars(StartList(k)) /\ WF_vars(StartWatch(k)) /\ WF_vars(Expired(k))
       /\ WF_vars(ReadListed(k)) /\ WF_vars(ReadEvent(k)) /\ SF_vars(Send(k))

Spec == Init /\ [][Next]_vars /\ Fairness

-----------------------------------------------------------------------------
\* Every variable holds a value the code can give it.
TypeOK ==
  /\ log \in Seq(Event) /\ Len(log) <= MaxLog /\ horizon \in 0 .. MaxLog
  /\ saved \in [Kinds -> 0 .. MaxLog] /\ cursor \in [Kinds -> 0 .. MaxLog]
  /\ tail \in [Kinds -> 0 .. MaxLog] /\ listed \in [Kinds -> 0 .. MaxLog]
  /\ pc \in [Kinds -> {"start", "watching"}] /\ todo \in [Kinds -> SUBSET (1 .. MaxLog)]
  /\ out \in [Kinds -> Seq(Messages)] /\ chan \in Seq(Messages) /\ hand \in Seq(Messages)
  /\ Len(chan) <= Capacity /\ Len(hand) <= 1
  /\ view \in [Elements -> 0 .. MaxLog]
  /\ dropped \subseteq Messages /\ skipped \subseteq Messages
  /\ unloaded \subseteq Kinds /\ cut \subseteq 1 .. MaxLog
  /\ crashes \in 0 .. MaxRestarts /\ terminations \in 0 .. MaxRestarts
  /\ faults \in 0 .. MaxFaults

\* The monitor of k will still be given version i, or list the resources again.
Unread(k, i) ==
  \/ pc[k] = "start" /\ (cursor[k] = 0 \/ cursor[k] < horizon \/ i > cursor[k])
  \/ pc[k] = "watching" /\ (i \in todo[k] \/ i > tail[k])

\* The last version i of an element is never published, for a reason known: a restart
\* dropped it on its way or left it behind a durable cursor that had not been loaded, a
\* watch that ended left it unlisted, or it is a deletion the list after an expired or
\* missing cursor does not show.
Excused(e, i) ==
  \/ <<e, i>> \in dropped \/ <<e, i>> \in skipped \/ i \in cut
  \/ log[i].op = "d" /\ i <= listed[Kind(i)]

\* What was last published of an element is its last version, or that version is still
\* to be read or on its way, or lost for one of the reasons of Excused: the monitors,
\* the channel and the loop lose a change in no other way (spawn_monitor_task, start).
Accounted ==
  \A e \in Elements :
    LET i == LastEvent(e[1])
    IN  i = 0 \/ view[e] = i \/ Unread(KindOf[e[1]], i) \/ <<e, i>> \in InFlight
              \/ Excused(e, i)

\* A restart loses behind the durable cursor at most the message being published and
\* the content of the channel; an orderly termination only the latter: the cursor is
\* stored ahead of what is published, but no further than the channel holds.
LossIsBounded ==
  Cardinality(dropped) <= (Capacity + 1) * crashes + Capacity * terminations

\* In the end the last published version of every element is the source's, but for the
\* reasons of Excused.
Settles ==
  <>[](\A e \in Elements :
         LET i == LastEvent(e[1]) IN i = 0 \/ view[e] = i \/ Excused(e, i))
=============================================================================
