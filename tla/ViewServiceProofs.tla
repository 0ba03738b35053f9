------------------------- MODULE ViewServiceProofs -------------------------
(***************************************************************************)
(* Proofs about ViewService, for every set of keys, changes, policies and  *)
(* faults and every bound.                                                 *)
(***************************************************************************)
EXTENDS ViewService, TLAPS, SequenceTheorems, WellFoundedInduction

(***************************************************************************)
(* Inductive invariants.  What a row, the header and a reader rest on is   *)
(* stated for a log l, of which the view lacks the first s results and the *)
(* group has acknowledged the first p.                                     *)
(***************************************************************************)

Row(k, i, from, to) == [key |-> k, val |-> i, from |-> from, to |-> to]

\* No result of the positions S touches key k, or empties the view.
Untouched(l, k, S) == \A j \in S : k \notin Promise!Touched(l[j])
Unreset(l, S) == \A j \in S : ~Promise!IsReset(l[j])

\* Result i is what the view has for key k after n results.
Live(l, s, k, i, n) ==
  /\ i \in s + 1 .. n /\ Promise!Puts(l[i], k)
  /\ Unreset(l, i + 1 .. n) /\ Untouched(l, k, i + 1 .. n)

\* Result c is the first after i that touches key k.
Supersedes(l, k, i, c) ==
  /\ c \in DOMAIN l /\ i < c
  /\ k \in Promise!Touched(l[c]) /\ Untouched(l, k, i + 1 .. c - 1)

\* The query host: only changes have writes, the other events have the time of their
\* publication, and a result that touches a key of the result closes it.
TopicInv ==
  /\ \A i \in DOMAIN topic :
       /\ topic[i].ts <= now
       /\ topic[i].kind # "change" =>
            topic[i].writes = <<>> /\ \A j \in 1 .. i : topic[j].ts <= topic[i].ts
  /\ \A k \in Keys : \A i \in DOMAIN topic :
       Live(topic, 0, k, i, Len(topic)) => k \in results
  /\ \A k \in Keys : \A i, c \in DOMAIN topic :
       Promise!Puts(topic[i], k) /\ Supersedes(topic, k, i, c) /\ Unreset(topic, i + 1 .. c) =>
         \E w \in DOMAIN topic[c].writes : topic[c].writes[w] = [key |-> k, put |-> FALSE]

\* The worker: the event in hand, and the handler that waits for it.
WorkerInv ==
  /\ wpc = "write" => Event.kind = "change" /\ at <= Len(Event.writes)
  /\ wpc # "write" => at = 0
  /\ wpc = "drop" => Event.kind = "reset"
  /\ wpc = "state" => Event.kind = "status"
  /\ wpc = "ack" => Event.kind \in {"change", "reset", "status"}
  /\ actor = "dep_drop" => wpc = "none"
  /\ actor \in {"cfg_persist", "cfg_remind"} => config # NoPolicy
  /\ ~joined => /\ rows = {} /\ meta = NoMeta /\ reader.pc = "idle" /\ start = 0 /\ pos = 0
                /\ wpc \notin {"write", "drop", "state", "ack"}

\* A row was written by a result since the view was emptied; it is current or was
\* closed by the result that wrote it (delivered again) or the next that touches it.
RowOK(l, s, p, r) ==
  /\ r.val \in s + 1 .. p + 1 /\ r.val \in DOMAIN l
  /\ r.from = l[r.val].ts /\ r.key \in Promise!Touched(l[r.val])
  /\ Unreset(l, r.val .. p)
  /\ r.to = Open => r.val = p + 1 \/ Live(l, s, r.key, r.val, p)
  /\ r.to # Open =>
       \E c \in DOMAIN l :
         /\ c <= p + 1 /\ r.to = l[c].ts - 1 /\ r.key \in Promise!Touched(l[c])
         /\ c = r.val \/ (Promise!Puts(l[r.val], r.key) /\ Supersedes(l, r.key, r.val, c))

\* The row a result has put is there: current, or closed by the next result that
\* touches it, unless it was removed or that result wrote over it.
Found(l, p, R, h, k, i) ==
  \/ Row(k, i, l[i].ts, Open) \in R
  \/ \E c \in DOMAIN l :
       /\ c <= p + 1 /\ Supersedes(l, k, i, c)
       /\ Row(k, i, l[i].ts, l[c].ts - 1) \in R \/ l[c].ts <= h \/ Promise!Shifts(l[c])

FoundInv(l, s, p, R, h) ==
  \A k \in Keys : \A i \in s + 1 .. p :
    Promise!Puts(l[i], k) /\ Unreset(l, i + 1 .. p) /\ (p < Len(l) => ~Promise!IsReset(l[p + 1]))
      => Found(l, p, R, h, k, i)

\* The first a writes of result n have been carried out on the rows R: the last write to
\* a key decides, and no earlier result is current for a key they touch.
Done(n, ts, ws, a, R, j) ==
  /\ \A r \in R : r.key = ws[j].key /\ r.to = Open => r.val = n
  /\ (\A i \in j + 1 .. a : ws[i].key # ws[j].key) =>
       IF ws[j].put THEN Row(ws[j].key, n, ts, Open) \in R
                    ELSE \A r \in R : r.key = ws[j].key => r.to # Open

Written(l, n, a, R) == \A j \in 1 .. a : Done(n, l[n].ts, l[n].writes, a, R, j)

RowsInv ==
  /\ \A r \in rows : RowOK(topic, start, pos, r)
  /\ FoundInv(topic, start, pos, rows, since)
  /\ wpc = "write" => Written(topic, pos + 1, at, rows)
  /\ wpc = "ack" => /\ Written(topic, pos + 1, Len(Event.writes), rows)
                    /\ Event.kind = "change" => meta.seq = pos + 1
                    /\ Event.kind = "reset" => rows = {} /\ meta = NoMeta

\* A header was read or written for a result that is at most one ahead.
HeaderOK(l, p, seq, ts) ==
  /\ seq \in DOMAIN l /\ seq <= p + 1 /\ ts = l[seq].ts /\ l[seq].kind \in {"change", "status"}

HeaderInv ==
  /\ meta # NoMeta => /\ HeaderOK(topic, pos, meta.seq, meta.ts)
                      /\ \A j \in meta.seq + 1 .. pos : topic[j].kind \notin {"change", "reset"}
  /\ reader.pc = "rows" => HeaderOK(topic, pos, reader.seq, reader.ts) /\ reader.at <= reader.ts

IInv == TypeOK /\ TopicInv /\ WorkerInv /\ RowsInv /\ HeaderInv

(***************************************************************************)
(* Types.  TypeOK by groups of variables, so that a step need only show    *)
(* the groups it changes.                                                  *)
(***************************************************************************)

HostType ==
  /\ topic \in Seq(ChangeEvents(0 .. MaxTime))
  /\ bootstrap \in BOOLEAN /\ results \subseteq Keys /\ now \in 0 .. MaxTime

GroupType == joined \in BOOLEAN /\ start \in Nat /\ pos \in start .. Len(topic)

ActorType ==
  /\ actor \in {"inactive", "idle", "cfg_persist", "cfg_remind", "dep_wait", "dep_drop",
                "deact_wait"}
  /\ config \in Policies \cup {NoPolicy} /\ held \in BOOLEAN
  /\ pConfig \in Policies \cup {NoPolicy} /\ reminder \in BOOLEAN

WorkerType ==
  /\ wpc \in {"none", "init", "stream", "loop", "write", "drop", "state", "ack", "ending"}
  /\ wcfg \in Policies \cup {NoPolicy} /\ at \in Nat
  /\ wpc \in {"write", "drop", "state", "ack"} => pos < Len(topic)
  /\ reason \in {"Running", "Deactivated", "Error"}
  /\ cmds \in Seq(Policies \cup {"Shutdown"})

\* A set of rows over n results, with one current row per key.
RowsType(R, n) ==
  /\ R \subseteq ViewDocuments(n)
  /\ \A k \in Keys : \A r, q \in R :
       r.key = k /\ r.to = Open /\ q.key = k /\ q.to = Open => r = q

StoreType ==
  /\ policy \in Policies \cup {NoPolicy} /\ since \in 0 .. MaxTime
  /\ RowsType(rows, Len(topic))
  /\ meta \in [seq : 0 .. Len(topic), ts : 0 .. MaxTime]

ReaderType ==
  reader \in [pc : {"idle", "rows"}, seq : 0 .. Len(topic), ts : 0 .. MaxTime, at : 0 .. MaxTime]

BoundType == faults \in Nat /\ configures \in Nat /\ stops \in Nat

LEMMA TypeGroups ==
  TypeOK <=> /\ HostType /\ GroupType /\ ActorType /\ WorkerType /\ StoreType /\ ReaderType
             /\ BoundType
  <1>1. (\A k \in Keys : \A r, q \in Current(k) : r = q)
          <=> \A k \in Keys : \A r, q \in rows :
                r.key = k /\ r.to = Open /\ q.key = k /\ q.to = Open => r = q
    BY DEF Current
  <1> QED
    BY <1>1 DEF TypeOK, HostType, GroupType, ActorType, WorkerType, StoreType, RowsType,
                ReaderType, BoundType

LEMMA TypeGroupsNext ==
  ASSUME HostType', GroupType', ActorType', WorkerType', StoreType', ReaderType', BoundType'
  PROVE  TypeOK'
  <1>1. (\A k \in Keys : \A r, q \in Current(k) : r = q)'
    BY DEF Current, StoreType, RowsType
  <1> QED
    BY <1>1 DEF TypeOK, HostType, GroupType, ActorType, WorkerType, StoreType, RowsType,
                ReaderType, BoundType

LEMMA ConstantsType ==
  /\ Changes \subseteq Seq(Writes) /\ Kinds \subseteq EventKinds
  /\ NoPolicy \notin Policies /\ "Shutdown" \notin Policies
  /\ ExpireAfter \in Nat /\ MaxTime \in Nat /\ MaxEvents \in Nat /\ Open = MaxTime + 1
  BY ViewAssumption DEF NoPolicy, Open

LEMMA EventType ==
  ASSUME NEW e \in ChangeEvents(0 .. MaxTime)
  PROVE  /\ e.kind \in EventKinds /\ e.ts \in 0 .. MaxTime /\ e.writes \in Seq(Writes)
         /\ Len(e.writes) \in Nat /\ DOMAIN e.writes = 1 .. Len(e.writes)
         /\ \A j \in DOMAIN e.writes :
              e.writes[j].key \in Keys /\ e.writes[j].put \in BOOLEAN
              /\ e.writes[j] = [key |-> e.writes[j].key, put |-> e.writes[j].put]
  <1>1. e.kind \in EventKinds /\ e.ts \in 0 .. MaxTime /\ e.writes \in Seq(Writes)
    <2>1. <<>> \in Seq(Writes)
      OBVIOUS
    <2> QED BY ConstantsType, <2>1 DEF ChangeEvents
  <1>2. \A j \in DOMAIN e.writes : e.writes[j] \in Writes
    BY <1>1
  <1> QED BY <1>1, <1>2 DEF Writes

LEMMA TopicType ==
  ASSUME HostType
  PROVE  /\ Len(topic) \in Nat /\ DOMAIN topic = 1 .. Len(topic)
         /\ \A i \in DOMAIN topic : topic[i] \in ChangeEvents(0 .. MaxTime)
  BY DEF HostType

LEMMA InitTypes == Init => TypeOK
  <1> SUFFICES ASSUME Init PROVE TypeOK
    OBVIOUS
  <1>1. topic = <<>> /\ Len(topic) = 0 /\ topic \in Seq(ChangeEvents(0 .. MaxTime))
        /\ cmds \in Seq(Policies \cup {"Shutdown"})
    BY DEF Init
  <1>b. bootstrap \in BOOLEAN /\ joined \in BOOLEAN
    BY Zenon DEF Init
  <1>2. HostType
    BY <1>1, <1>b, ConstantsType DEF Init, HostType
  <1>2a. GroupType /\ BoundType
    BY <1>1, <1>b DEF Init, GroupType, BoundType
  <1>3. ActorType /\ WorkerType
    BY <1>1 DEF Init, ActorType, WorkerType
  <1>4. StoreType /\ ReaderType
    BY <1>1, ConstantsType DEF Init, StoreType, RowsType, ReaderType, NoMeta, Idle
  <1> QED BY <1>2, <1>2a, <1>3, <1>4, TypeGroups

\* A longer topic leaves the types of the others alone.
LEMMA Longer ==
  ASSUME GroupType, WorkerType, StoreType, ReaderType, Len(topic) \in Nat, Len(topic)' \in Nat,
         Len(topic) <= Len(topic)',
         UNCHANGED <<groupVars, workerVars, storeVars, reader>>
  PROVE  GroupType' /\ WorkerType' /\ StoreType' /\ ReaderType'
  <1>1. GroupType' /\ WorkerType'
    BY DEF GroupType, WorkerType, groupVars, workerVars
  <1>2. RowsType(rows, Len(topic)) => RowsType(rows, Len(topic)')
    BY DEF RowsType, ViewDocuments
  <1>3. StoreType'
    BY <1>2 DEF StoreType, storeVars
  <1>4. ReaderType'
    BY DEF ReaderType
  <1> QED BY <1>1, <1>3, <1>4

LEMMA FailType ==
  ASSUME BoundType, NEW f, Fail(f)
  PROVE  BoundType'
  BY DEF BoundType, Fail

LEMMA EmitType ==
  ASSUME TypeOK, NEW kind, NEW ts \in 0 .. MaxTime, NEW w \in Changes \cup {<<>>},
         Emit(kind, ts, w), bootstrap' \in BOOLEAN, results' \subseteq Keys,
         UNCHANGED <<groupVars, actorVars, durable, workerVars, storeVars, reader, bounds>>
  PROVE  TypeOK'
  <1>0. HostType /\ GroupType /\ ActorType /\ WorkerType /\ StoreType /\ ReaderType /\ BoundType
    BY TypeGroups
  <1>1. [kind |-> kind, ts |-> ts, writes |-> w] \in ChangeEvents(0 .. MaxTime)
    BY ConstantsType DEF Emit, ChangeEvents
  <1>2. HostType'
    BY <1>0, <1>1 DEF HostType, Emit
  <1>3. Len(topic) \in Nat /\ Len(topic)' = Len(topic) + 1
    BY <1>0, <1>1 DEF HostType, Emit
  <1>4. GroupType' /\ WorkerType' /\ StoreType' /\ ReaderType'
    BY <1>0, <1>3, Longer
  <1>5. ActorType' /\ BoundType'
    BY <1>0 DEF ActorType, BoundType, actorVars, durable, bounds
  <1> QED BY <1>2, <1>4, <1>5, TypeGroupsNext

LEMMA PublishSignalType ==
  ASSUME TypeOK, PublishSignal
  PROVE  TypeOK'
  <1>0. HostType
    BY TypeGroups
  <1>1. now \in 0 .. MaxTime /\ results \subseteq Keys /\ bootstrap \in BOOLEAN
    BY <1>0 DEF HostType
  <1>2. PICK kind : Emit(kind, now, <<>>)
    BY DEF PublishSignal
  <1>3. bootstrap' \in BOOLEAN /\ results' \subseteq Keys
    BY <1>1 DEF PublishSignal
  <1>4. UNCHANGED <<groupVars, actorVars, durable, workerVars, storeVars, reader, bounds>>
    BY DEF PublishSignal
  <1> QED BY <1>1, <1>2, <1>3, <1>4, EmitType

LEMMA PublishChangeType ==
  ASSUME TypeOK, PublishChange
  PROVE  TypeOK'
  <1>0. HostType
    BY TypeGroups
  <1>1. now \in 0 .. MaxTime /\ results \subseteq Keys /\ bootstrap \in BOOLEAN
    BY <1>0 DEF HostType
  <1>2. PICK c \in Changes :
          /\ results' = (results \ {c[j].key : j \in {i \in DOMAIN c : ~c[i].put}})
                          \cup {c[j].key : j \in {i \in DOMAIN c : c[i].put}}
          /\ \E ts \in IF bootstrap THEN {0} ELSE {now, now - 1} \cap Nat : Emit("change", ts, c)
          /\ UNCHANGED <<bootstrap, groupVars, actorVars, durable, workerVars, storeVars, reader,
                         bounds>>
    BY DEF PublishChange
  <1>3. PICK ts \in IF bootstrap THEN {0} ELSE {now, now - 1} \cap Nat : Emit("change", ts, c)
    BY <1>2
  <1>4. ts \in 0 .. MaxTime
    BY <1>1, <1>3, ConstantsType
  <1>5. \A j \in DOMAIN c : c[j].key \in Keys
    <2>1. c \in Seq(Writes)
      BY ConstantsType
    <2>2. \A j \in DOMAIN c : c[j] \in Writes
      BY <2>1
    <2> QED BY <2>2 DEF Writes
  <1>6. bootstrap' \in BOOLEAN /\ results' \subseteq Keys
    BY <1>1, <1>2, <1>5
  <1> QED BY <1>2, <1>3, <1>4, <1>6, EmitType

\* A step of the actor or the worker that leaves the topic, the group and the rows alone.
LEMMA QuietType ==
  ASSUME TypeOK, ActorType', WorkerType', BoundType', policy' \in Policies \cup {NoPolicy},
         UNCHANGED <<hostVars, groupVars, rows, meta, since, reader>>
  PROVE  TypeOK'
  <1>0. HostType /\ GroupType /\ StoreType /\ ReaderType
    BY TypeGroups
  <1>1. HostType' /\ GroupType'
    BY <1>0 DEF HostType, GroupType, hostVars, groupVars
  <1>2. StoreType' /\ ReaderType'
    BY <1>0 DEF StoreType, ReaderType, hostVars
  <1> QED BY <1>1, <1>2, TypeGroupsNext

LEMMA InitViewType ==
  ASSUME TypeOK, InitView
  PROVE  TypeOK'
  <1>0. HostType /\ GroupType /\ ActorType /\ WorkerType /\ StoreType /\ BoundType
    BY TypeGroups
  <1>1. ActorType'
    BY <1>0 DEF InitView, ActorType, actorVars, durable
  <1>2. BoundType'
    BY <1>0, FailType DEF InitView, BoundType, bounds
  <1>3. policy' \in Policies \cup {NoPolicy}
    BY <1>0 DEF InitView, SetRetentionPolicy, WorkerType
  <1>4. WorkerType'
    BY <1>0 DEF InitView, WorkerType, EndWith
  <1> QED BY <1>1, <1>2, <1>3, <1>4, QuietType DEF InitView

LEMMA OpenStreamType ==
  ASSUME TypeOK, OpenStream
  PROVE  TypeOK'
  <1>0. HostType /\ GroupType /\ ActorType /\ WorkerType /\ StoreType /\ ReaderType /\ BoundType
    BY TypeGroups
  <1>1. HostType' /\ ActorType'
    BY <1>0 DEF OpenStream, HostType, ActorType, hostVars, actorVars, durable
  <1>2. BoundType'
    BY <1>0, FailType DEF OpenStream, BoundType, bounds
  <1>3. StoreType' /\ ReaderType'
    BY <1>0 DEF OpenStream, StoreType, ReaderType, hostVars, storeVars
  <1>b. joined' \in BOOLEAN
    <2>1. joined' = TRUE \/ joined' = joined
      BY DEF OpenStream, groupVars
    <2> QED BY <1>0, <2>1, Zenon DEF GroupType
  <1>4. GroupType'
    BY <1>0, <1>b, TopicType DEF OpenStream, GroupType, hostVars, groupVars
  <1>5. WorkerType'
    BY <1>0 DEF OpenStream, WorkerType, EndWith, GotoLoop
  <1> QED BY <1>1, <1>2, <1>3, <1>4, <1>5, TypeGroupsNext

LEMMA HandleCommandType ==
  ASSUME TypeOK, HandleCommand
  PROVE  TypeOK'
  <1>0. HostType /\ GroupType /\ ActorType /\ WorkerType /\ StoreType /\ BoundType
    BY TypeGroups
  <1>1. ActorType' /\ BoundType'
    BY <1>0 DEF HandleCommand, ActorType, BoundType, actorVars, durable, bounds
  <1>2. cmds \in Seq(Policies \cup {"Shutdown"}) /\ cmds # <<>>
    BY <1>0 DEF HandleCommand, WorkerType
  <1>3. Head(cmds) \in Policies \cup {"Shutdown"} /\ Tail(cmds) \in Seq(Policies \cup {"Shutdown"})
    BY <1>2
  <1>4. policy' \in Policies \cup {NoPolicy}
    BY <1>0, <1>3 DEF HandleCommand, SetRetentionPolicy, StoreType
  <1>5. WorkerType'
    BY <1>0, <1>3 DEF HandleCommand, WorkerType
  <1> QED BY <1>1, <1>4, <1>5, QuietType DEF HandleCommand

LEMMA RecvType ==
  ASSUME TypeOK, Recv
  PROVE  TypeOK'
  <1>0. HostType /\ GroupType /\ ActorType /\ WorkerType /\ StoreType /\ BoundType
    BY TypeGroups
  <1>1. ActorType' /\ BoundType'
    BY <1>0 DEF Recv, ActorType, BoundType, actorVars, durable, bounds
  <1>2. policy' \in Policies \cup {NoPolicy}
    BY <1>0 DEF Recv, ForgetPolicy, StoreType
  <1>3. WorkerType'
    BY <1>0 DEF Recv, WorkerType, EndWith, hostVars, groupVars
  <1> QED BY <1>1, <1>2, <1>3, QuietType DEF Recv

LEMMA WorkerEndsType ==
  ASSUME TypeOK, WorkerEnds
  PROVE  TypeOK'
  <1>0. ActorType /\ WorkerType /\ StoreType /\ BoundType
    BY TypeGroups
  <1>1. ActorType' /\ BoundType'
    BY <1>0 DEF WorkerEnds, ActorType, BoundType, actorVars, durable, bounds
  <1>2. policy' \in Policies \cup {NoPolicy}
    BY <1>0 DEF WorkerEnds, StoreType, storeVars
  <1>3. WorkerType'
    BY <1>0 DEF WorkerEnds, WorkerType
  <1> QED BY <1>1, <1>2, <1>3, QuietType DEF WorkerEnds, storeVars

\* A step that changes only rows, header or the time they go back to.
LEMMA StoreStepType ==
  ASSUME TypeOK, WorkerType', BoundType', GroupType', StoreType',
         UNCHANGED <<hostVars, actor, config, held, durable, reader>> \/
         (/\ UNCHANGED <<hostVars, config, held, durable, reader>>
          /\ actor' \in {"idle", "dep_drop"})
  PROVE  TypeOK'
  <1>0. HostType /\ ActorType /\ ReaderType
    BY TypeGroups
  <1>1. HostType'
    BY <1>0 DEF HostType, hostVars
  <1>2. ActorType'
    BY <1>0 DEF ActorType, durable
  <1>3. ReaderType'
    BY <1>0 DEF ReaderType, hostVars
  <1> QED BY <1>1, <1>2, <1>3, TypeGroupsNext

LEMMA DropType ==
  ASSUME StoreType, HostType, DropCollection, Len(topic)' = Len(topic)
  PROVE  StoreType'
  <1>1. Len(topic) \in Nat
    BY TopicType
  <1> QED BY <1>1, ConstantsType DEF StoreType, DropCollection, RowsType, NoMeta

LEMMA WorkerDropType ==
  ASSUME TypeOK, WorkerDrop
  PROVE  TypeOK'
  <1>0. HostType /\ GroupType /\ WorkerType /\ StoreType /\ BoundType
    BY TypeGroups
  <1>1. BoundType'
    BY <1>0, FailType DEF WorkerDrop, BoundType, bounds
  <1>2. GroupType'
    BY <1>0 DEF WorkerDrop, GroupType, hostVars, groupVars
  <1>3. WorkerType'
    BY <1>0 DEF WorkerDrop, WorkerType, EndWith, hostVars, groupVars
  <1>4. StoreType'
    <2>1. UNCHANGED topic
      BY DEF WorkerDrop, hostVars
    <2>2. CASE DropCollection
      BY <1>0, <2>1, <2>2, DropType
    <2>3. CASE UNCHANGED storeVars
      BY <1>0, <2>1, <2>3 DEF StoreType, storeVars
    <2> QED BY <2>2, <2>3 DEF WorkerDrop
  <1> QED BY <1>1, <1>2, <1>3, <1>4, StoreStepType DEF WorkerDrop, actorVars

\* The event in hand.
LEMMA InHand ==
  ASSUME TypeOK, wpc \in {"write", "drop", "state", "ack"}
  PROVE  /\ pos \in Nat /\ pos + 1 \in DOMAIN topic /\ Event \in ChangeEvents(0 .. MaxTime)
         /\ Event = topic[pos + 1] /\ pos < Len(topic)
  <1>0. HostType /\ GroupType /\ WorkerType
    BY TypeGroups
  <1>1. pos \in Nat /\ pos + 1 \in DOMAIN topic /\ pos < Len(topic)
    BY <1>0, TopicType DEF GroupType, WorkerType
  <1> QED BY <1>0, <1>1, TopicType DEF Event

LEMMA HeaderType ==
  ASSUME TypeOK, wpc \in {"write", "drop", "state", "ack"}, SetHeader \/ UNCHANGED meta,
         UNCHANGED <<hostVars, policy, rows, since>>
  PROVE  StoreType'
  <1>0. HostType /\ StoreType
    BY TypeGroups
  <1>1. meta' \in [seq : 0 .. Len(topic), ts : 0 .. MaxTime]
    <2>1. CASE SetHeader
      <3>1. Event.ts \in 0 .. MaxTime
        BY InHand, EventType
      <3>2. pos + 1 \in 0 .. Len(topic)
        BY <1>0, InHand, TopicType
      <3> QED BY <2>1, <3>1, <3>2 DEF SetHeader
    <2>2. CASE UNCHANGED meta
      BY <1>0, <2>2 DEF StoreType
    <2> QED BY <2>1, <2>2
  <1> QED BY <1>0, <1>1 DEF StoreType, hostVars

LEMMA SetStateType ==
  ASSUME TypeOK, SetState
  PROVE  TypeOK'
  <1>0. HostType /\ GroupType /\ WorkerType /\ StoreType /\ BoundType
    BY TypeGroups
  <1>1. BoundType'
    BY <1>0, FailType DEF SetState, BoundType, bounds
  <1>2. GroupType'
    BY <1>0 DEF SetState, GroupType, hostVars, groupVars
  <1>3. WorkerType'
    BY <1>0 DEF SetState, WorkerType, hostVars, groupVars
  <1>4. StoreType'
    BY HeaderType DEF SetState
  <1> QED BY <1>1, <1>2, <1>3, <1>4, StoreStepType DEF SetState, actorVars

LEMMA WriteHeaderType ==
  ASSUME TypeOK, WriteHeader
  PROVE  TypeOK'
  <1>0. HostType /\ GroupType /\ WorkerType /\ StoreType /\ BoundType
    BY TypeGroups
  <1>1. BoundType'
    BY <1>0, FailType DEF WriteHeader, BoundType, bounds
  <1>2. GroupType'
    BY <1>0 DEF WriteHeader, GroupType, hostVars, groupVars
  <1>3. WorkerType'
    BY <1>0 DEF WriteHeader, WorkerType, EndWith, hostVars, groupVars
  <1>4. StoreType'
    BY HeaderType DEF WriteHeader
  <1> QED BY <1>1, <1>2, <1>3, <1>4, StoreStepType DEF WriteHeader, actorVars

LEMMA AckType ==
  ASSUME TypeOK, Ack
  PROVE  TypeOK'
  <1>0. HostType /\ GroupType /\ WorkerType /\ StoreType /\ BoundType
    BY TypeGroups
  <1>1. BoundType'
    BY <1>0, FailType DEF Ack, BoundType, bounds
  <1>2. GroupType'
    BY <1>0, InHand, TopicType DEF Ack, GroupType, hostVars
  <1>3. WorkerType'
    BY <1>0 DEF Ack, WorkerType, GotoLoop, hostVars
  <1>4. StoreType'
    BY <1>0 DEF Ack, StoreType, storeVars, hostVars
  <1> QED BY <1>1, <1>2, <1>3, <1>4, StoreStepType DEF Ack, actorVars

CurrentIn(R, k) == {r \in R : r.key = k /\ r.to = Open}
PutIn(R, k, v, ts) == (R \ CurrentIn(R, k)) \cup {Row(k, v, ts, Open)}
RemoveIn(R, k) == R \ CurrentIn(R, k)
CloseIn(R, k, ts) == RemoveIn(R, k) \cup {[r EXCEPT !.to = ts - 1] : r \in CurrentIn(R, k)}

LEMMA RowFields ==
  ASSUME NEW n \in Nat, NEW r \in ViewDocuments(n)
  PROVE  /\ r.key \in Keys /\ r.val \in 1 .. n /\ r.from \in 0 .. MaxTime /\ r.to \in -1 .. Open
         /\ r = Row(r.key, r.val, r.from, r.to)
         /\ \A to : [r EXCEPT !.to = to] = Row(r.key, r.val, r.from, to)
  BY ConstantsType DEF ViewDocuments, Row

LEMMA PutRowsType ==
  ASSUME NEW n \in Nat, NEW R, RowsType(R, n), NEW k \in Keys, NEW v \in 1 .. n,
         NEW ts \in 0 .. MaxTime
  PROVE  RowsType(PutIn(R, k, v, ts), n)
  <1> DEFINE new == Row(k, v, ts, Open)
  <1>1. new \in ViewDocuments(n) /\ new.key = k /\ new.to = Open
    BY ConstantsType DEF ViewDocuments, Row
  <1>2. \A r \in PutIn(R, k, v, ts) :
          (r \in R /\ ~(r.key = k /\ r.to = Open)) \/ r = new
    BY DEF PutIn, CurrentIn
  <1> HIDE DEF new
  <1>3. PutIn(R, k, v, ts) \subseteq ViewDocuments(n)
    BY <1>1, <1>2 DEF RowsType
  <1>4. ASSUME NEW kk \in Keys, NEW r \in PutIn(R, k, v, ts), NEW q \in PutIn(R, k, v, ts),
               r.key = kk, r.to = Open, q.key = kk, q.to = Open
        PROVE  r = q
    BY <1>1, <1>2, <1>4 DEF RowsType
  <1> QED BY <1>3, <1>4 DEF RowsType

LEMMA RemoveRowsType ==
  ASSUME NEW n \in Nat, NEW R, RowsType(R, n), NEW S \in SUBSET R
  PROVE  RowsType(S, n)
  BY DEF RowsType

LEMMA CloseRowsType ==
  ASSUME NEW n \in Nat, NEW R, RowsType(R, n), NEW k \in Keys, NEW ts \in 0 .. MaxTime
  PROVE  RowsType(CloseIn(R, k, ts), n)
  <1>0. \A r \in R : r \in ViewDocuments(n)
    BY DEF RowsType
  <1>1. \A r \in CurrentIn(R, k) :
          /\ [r EXCEPT !.to = ts - 1] = Row(r.key, r.val, r.from, ts - 1)
          /\ Row(r.key, r.val, r.from, ts - 1) \in ViewDocuments(n)
    BY <1>0, RowFields, ConstantsType DEF CurrentIn, ViewDocuments, Row
  <1>2. ASSUME NEW q \in CloseIn(R, k, ts)
        PROVE  /\ q \in ViewDocuments(n)
               /\ q.to = Open => q \in R
    <2>1. CASE q \in RemoveIn(R, k)
      BY <2>1, <1>0 DEF RemoveIn
    <2>2. CASE q \notin RemoveIn(R, k)
      <3>1. PICK r \in CurrentIn(R, k) : q = [r EXCEPT !.to = ts - 1]
        BY <1>2, <2>2 DEF CloseIn
      <3>2. q = Row(r.key, r.val, r.from, ts - 1) /\ q \in ViewDocuments(n)
        BY <1>1, <3>1
      <3>3. q.to = ts - 1 /\ q.to # Open
        BY <3>2, ConstantsType DEF Row
      <3> QED BY <3>2, <3>3
    <2> QED BY <2>1, <2>2
  <1>3. ASSUME NEW kk \in Keys, NEW r \in CloseIn(R, k, ts), NEW q \in CloseIn(R, k, ts),
               r.key = kk, r.to = Open, q.key = kk, q.to = Open
        PROVE  r = q
    BY <1>2, <1>3 DEF RowsType
  <1> QED BY <1>2, <1>3 DEF RowsType

\* The row operation of a step of record_change, on the rows as a value.
LEMMA RowStep ==
  ASSUME TypeOK, wpc = "write", at < Len(Event.writes),
         NEW w, w = Event.writes[at + 1], IF w.put THEN Put(w.key) ELSE Close(w.key)
  PROVE  /\ w \in Writes /\ w.key \in Keys /\ w.put \in BOOLEAN /\ at + 1 \in DOMAIN Event.writes
         /\ w.put => rows' = PutIn(rows, w.key, pos + 1, Event.ts) /\ since' = since
         /\ ~w.put /\ policy # "Latest" => rows' = CloseIn(rows, w.key, Event.ts) /\ since' = since
         /\ ~w.put /\ policy = "Latest" =>
              /\ rows' = RemoveIn(rows, w.key)
              /\ since' = since \/ since' = Event.ts
              /\ CurrentIn(rows, w.key) # {} => since' >= Event.ts
              /\ since' >= since
  <1>0. HostType /\ WorkerType /\ StoreType
    BY TypeGroups
  <1>1. Event \in ChangeEvents(0 .. MaxTime)
    BY InHand
  <1>2. at + 1 \in DOMAIN Event.writes
    BY <1>0, <1>1, EventType DEF WorkerType
  <1>3. w \in Writes /\ w.key \in Keys /\ w.put \in BOOLEAN
    <2>1. Event.writes \in Seq(Writes)
      BY <1>1, EventType
    <2>2. w \in Writes
      BY <1>2, <2>1
    <2> QED BY <2>2 DEF Writes
  <1>4. since \in Int /\ Event.ts \in Int
    BY <1>0, <1>1, EventType, ConstantsType DEF StoreType
  <1>5. w.put => rows' = PutIn(rows, w.key, pos + 1, Event.ts) /\ since' = since
    BY DEF Put, PutIn, CurrentIn, Current, Row
  <1>6. ~w.put => Close(w.key)
    OBVIOUS
  <1>7. Close(w.key) /\ policy # "Latest" =>
          rows' = CloseIn(rows, w.key, Event.ts) /\ since' = since
    BY DEF Close, CloseIn, RemoveIn, CurrentIn, Current
  <1>8. Close(w.key) /\ policy = "Latest" =>
          /\ rows' = RemoveIn(rows, w.key)
          /\ since' = since \/ since' = Event.ts
          /\ CurrentIn(rows, w.key) # {} => since' >= Event.ts
          /\ since' >= since
    BY <1>4 DEF Close, RemoveIn, CurrentIn, Current, Lose
  <1> QED BY <1>2, <1>3, <1>5, <1>6, <1>7, <1>8

LEMMA WriteRowType ==
  ASSUME TypeOK, WriteRow
  PROVE  TypeOK'
  <1>0. HostType /\ GroupType /\ WorkerType /\ StoreType /\ BoundType
    BY TypeGroups
  <1>1. BoundType'
    BY <1>0, FailType DEF WriteRow, BoundType, bounds
  <1>2. GroupType'
    BY <1>0 DEF WriteRow, GroupType, hostVars, groupVars
  <1>3. WorkerType'
    BY <1>0 DEF WriteRow, WorkerType, EndWith, hostVars, groupVars
  <1>4. UNCHANGED <<topic, policy, meta>> /\ wpc = "write" /\ at < Len(Event.writes)
    BY DEF WriteRow, hostVars
  <1>5. PICK w : /\ w = Event.writes[at + 1]
                 /\ (IF w.put THEN Put(w.key) ELSE Close(w.key)) \/ UNCHANGED <<rows, since>>
    BY DEF WriteRow
  <1>6. RowsType(rows', Len(topic)) /\ since' \in 0 .. MaxTime
    <2>1. CASE UNCHANGED <<rows, since>>
      BY <2>1, <1>0 DEF StoreType
    <2>2. CASE IF w.put THEN Put(w.key) ELSE Close(w.key)
      <3>1. /\ w.key \in Keys
            /\ w.put => rows' = PutIn(rows, w.key, pos + 1, Event.ts) /\ since' = since
            /\ ~w.put /\ policy # "Latest" =>
                 rows' = CloseIn(rows, w.key, Event.ts) /\ since' = since
            /\ ~w.put /\ policy = "Latest" =>
                 rows' = RemoveIn(rows, w.key) /\ (since' = since \/ since' = Event.ts)
        BY <1>4, <1>5, <2>2, RowStep
      <3>2. Event.ts \in 0 .. MaxTime /\ pos + 1 \in 1 .. Len(topic) /\ Len(topic) \in Nat
        BY <1>0, <1>4, InHand, EventType, TopicType
      <3>3. RowsType(rows, Len(topic)) /\ since \in 0 .. MaxTime
        BY <1>0 DEF StoreType
      <3>4. RemoveIn(rows, w.key) \in SUBSET rows
        BY DEF RemoveIn
      <3> QED BY <3>1, <3>2, <3>3, <3>4, PutRowsType, CloseRowsType, RemoveRowsType
    <2> QED BY <1>5, <2>1, <2>2
  <1>7. StoreType'
    BY <1>0, <1>4, <1>6 DEF StoreType
  <1> QED BY <1>1, <1>2, <1>3, <1>7, StoreStepType DEF WriteRow, actorVars

LEMMA InitWorkerType ==
  ASSUME WorkerType, NEW spec \in Policies \cup {NoPolicy}, spec # NoPolicy \/ wpc = "none",
         InitWorker(spec), UNCHANGED <<topic, pos>>
  PROVE  WorkerType' /\ held' = TRUE
  <1>1. CASE wpc = "none"
    <2>1. cmds' \in Seq(Policies \cup {"Shutdown"})
      BY <1>1 DEF InitWorker
    <2> QED BY <1>1, <2>1 DEF InitWorker, WorkerType
  <1>2. CASE wpc # "none"
    BY <1>2 DEF InitWorker, Reconfigure, WorkerType
  <1> QED BY <1>1, <1>2

LEMMA TakeWorkerType ==
  ASSUME WorkerType, BoundType, TakeWorker, UNCHANGED <<topic, pos>>
  PROVE  WorkerType' /\ BoundType' /\ held' = FALSE
  <1>1. cmds' \in Seq(Policies \cup {"Shutdown"})
    BY DEF TakeWorker, WorkerType
  <1> QED BY <1>1 DEF TakeWorker, WorkerType, BoundType

LEMMA ActivateType ==
  ASSUME TypeOK, Activate
  PROVE  TypeOK'
  <1>0. ActorType /\ WorkerType /\ StoreType /\ BoundType
    BY TypeGroups
  <1>1. UNCHANGED <<topic, pos, pConfig, reminder, policy, bounds>>
    BY DEF Activate, hostVars, groupVars, durable, storeVars
  <1>2. WorkerType' /\ (held' = TRUE \/ held' = held)
    <2>1. CASE pConfig = NoPolicy
      BY <1>0, <1>1, <2>1 DEF Activate, WorkerType, workerVars
    <2>2. CASE pConfig # NoPolicy
      BY <1>0, <1>1, <2>2, InitWorkerType DEF Activate, ActorType
    <2> QED BY <2>1, <2>2
  <1>3. held' \in BOOLEAN
    BY <1>0, <1>2, Zenon DEF ActorType
  <1>4. ActorType'
    BY <1>0, <1>1, <1>3 DEF Activate, ReadConfig, ActorType
  <1>5. BoundType' /\ policy' \in Policies \cup {NoPolicy}
    BY <1>0, <1>1 DEF BoundType, bounds, StoreType
  <1> QED BY <1>2, <1>4, <1>5, QuietType DEF Activate, storeVars

LEMMA OnReminderType ==
  ASSUME TypeOK, OnReminder
  PROVE  TypeOK'
  <1>0. ActorType /\ WorkerType /\ StoreType /\ BoundType
    BY TypeGroups
  <1>1. UNCHANGED <<topic, pos, pConfig, reminder, policy, bounds, actor, config>>
    BY DEF OnReminder, hostVars, groupVars, durable, storeVars
  <1>2. WorkerType' /\ held' = TRUE
    BY <1>0, <1>1, InitWorkerType DEF OnReminder, ActorType
  <1>3. held' \in BOOLEAN
    BY <1>2, Zenon
  <1>4. ActorType'
    BY <1>0, <1>1, <1>3 DEF ActorType
  <1>5. BoundType' /\ policy' \in Policies \cup {NoPolicy}
    BY <1>0, <1>1 DEF BoundType, bounds, StoreType
  <1> QED BY <1>2, <1>4, <1>5, QuietType DEF OnReminder, storeVars

LEMMA ConfigureType ==
  ASSUME TypeOK, Configure
  PROVE  TypeOK'
  <1>0. GroupType /\ ActorType /\ WorkerType /\ StoreType /\ BoundType
    BY TypeGroups
  <1>1. ActorType'
    BY <1>0 DEF Configure, ActorType, durable
  <1>2. WorkerType'
    BY <1>0 DEF Configure, WorkerType, workerVars, hostVars, groupVars
  <1>3. BoundType' /\ policy' \in Policies \cup {NoPolicy}
    BY <1>0 DEF Configure, BoundType, storeVars, StoreType
  <1> QED BY <1>1, <1>2, <1>3, QuietType DEF Configure, storeVars

LEMMA ConfigurePersistType ==
  ASSUME TypeOK, ConfigurePersist
  PROVE  TypeOK'
  <1>0. GroupType /\ ActorType /\ WorkerType /\ StoreType /\ BoundType
    BY TypeGroups
  <1>1. ActorType'
    BY <1>0 DEF ConfigurePersist, ActorType, WriteConfig
  <1>2. WorkerType'
    BY <1>0 DEF ConfigurePersist, WorkerType, workerVars, hostVars, groupVars
  <1>3. BoundType' /\ policy' \in Policies \cup {NoPolicy}
    BY <1>0, FailType DEF ConfigurePersist, BoundType, bounds, storeVars, StoreType
  <1> QED BY <1>1, <1>2, <1>3, QuietType DEF ConfigurePersist, storeVars

LEMMA ConfigureInitType ==
  ASSUME TypeOK, WorkerInv, ConfigureInit
  PROVE  TypeOK'
  <1>0. GroupType /\ ActorType /\ WorkerType /\ StoreType /\ BoundType
    BY TypeGroups
  <1>1. UNCHANGED <<topic, pos, pConfig, policy, config>> /\ actor' = "idle"
    BY DEF ConfigureInit, hostVars, groupVars, storeVars
  <1>2. config \in Policies
    BY <1>0 DEF ConfigureInit, WorkerInv, ActorType
  <1>3. /\ WorkerType' /\ (held' = TRUE \/ held' = held)
        /\ (reminder' = TRUE \/ reminder' = reminder)
    <2>1. CASE UNCHANGED <<reminder, held, workerVars>>
      BY <1>0, <1>1, <2>1 DEF WorkerType, workerVars
    <2>2. CASE RegisterReminder /\ InitWorker(config)
      BY <1>0, <1>1, <1>2, <2>2, ConstantsType, InitWorkerType DEF RegisterReminder
    <2> QED BY <2>1, <2>2 DEF ConfigureInit
  <1>4. held' \in BOOLEAN /\ reminder' \in BOOLEAN
    BY <1>0, <1>3, Zenon DEF ActorType
  <1>5. ActorType'
    BY <1>0, <1>1, <1>4 DEF ActorType
  <1>6. BoundType' /\ policy' \in Policies \cup {NoPolicy}
    BY <1>0, <1>1, FailType DEF ConfigureInit, BoundType, bounds, StoreType
  <1> QED BY <1>3, <1>5, <1>6, QuietType DEF ConfigureInit, storeVars

LEMMA DeprovisionType ==
  ASSUME TypeOK, Deprovision
  PROVE  TypeOK'
  <1>0. GroupType /\ ActorType /\ WorkerType /\ StoreType /\ BoundType
    BY TypeGroups
  <1>1. UNCHANGED <<topic, pos, pConfig, policy, config>>
    BY DEF Deprovision, hostVars, groupVars, storeVars
  <1>2. /\ WorkerType' /\ BoundType' /\ (held' = FALSE \/ held' = held)
        /\ (reminder' = FALSE \/ reminder' = reminder)
        /\ actor' \in {"dep_wait", actor}
    <2>1. CASE Fail("reminder") /\ UNCHANGED <<reminder, actor, held, workerVars>>
      BY <1>0, <1>1, <2>1, FailType DEF WorkerType, workerVars
    <2>2. CASE UnregisterReminder /\ actor' = "dep_wait" /\ TakeWorker
      BY <1>0, <1>1, <2>2, TakeWorkerType DEF UnregisterReminder
    <2> QED BY <2>1, <2>2 DEF Deprovision
  <1>3. held' \in BOOLEAN /\ reminder' \in BOOLEAN
    BY <1>0, <1>2, Zenon DEF ActorType
  <1>4. ActorType'
    BY <1>0, <1>1, <1>2, <1>3 DEF ActorType
  <1>5. policy' \in Policies \cup {NoPolicy}
    BY <1>0, <1>1 DEF StoreType
  <1> QED BY <1>2, <1>4, <1>5, QuietType DEF Deprovision, storeVars

LEMMA DeactivateType ==
  ASSUME TypeOK, Deactivate
  PROVE  TypeOK'
  <1>0. GroupType /\ ActorType /\ WorkerType /\ StoreType /\ BoundType
    BY TypeGroups
  <1>1. UNCHANGED <<topic, pos, pConfig, policy, config, reminder>> /\ actor' = "deact_wait"
    BY DEF Deactivate, hostVars, groupVars, storeVars, durable
  <1>2. WorkerType' /\ BoundType' /\ held' = FALSE
    BY <1>0, <1>1, TakeWorkerType DEF Deactivate
  <1>3. held' \in BOOLEAN
    BY <1>2, Zenon
  <1>4. ActorType'
    BY <1>0, <1>1, <1>3 DEF ActorType
  <1>5. policy' \in Policies \cup {NoPolicy}
    BY <1>0, <1>1 DEF StoreType
  <1> QED BY <1>2, <1>4, <1>5, QuietType DEF Deactivate, storeVars

LEMMA WaitsType ==
  ASSUME TypeOK, DeprovisionWait \/ DeactivateWait
  PROVE  TypeOK'
  <1>0. GroupType /\ ActorType /\ WorkerType /\ StoreType /\ BoundType
    BY TypeGroups
  <1>1. UNCHANGED <<workerVars, bounds, hostVars, groupVars>>
    BY DEF DeprovisionWait, DeactivateWait
  <1>2. ActorType'
    BY <1>0 DEF DeprovisionWait, DeactivateWait, ActorType, durable
  <1>3. WorkerType' /\ BoundType'
    BY <1>0, <1>1 DEF WorkerType, workerVars, BoundType, bounds, hostVars, groupVars
  <1>4. policy' \in Policies \cup {NoPolicy}
    BY <1>0 DEF DeprovisionWait, DeactivateWait, ForgetPolicy, StoreType, storeVars
  <1> QED BY <1>2, <1>3, <1>4, QuietType DEF DeprovisionWait, DeactivateWait, storeVars

LEMMA DeprovisionDropType ==
  ASSUME TypeOK, DeprovisionDrop
  PROVE  TypeOK'
  <1>0. HostType /\ GroupType /\ ActorType /\ WorkerType /\ StoreType /\ BoundType
    BY TypeGroups
  <1>1. UNCHANGED <<workerVars, hostVars, joined, pos>>
    BY DEF DeprovisionDrop
  <1>2. BoundType'
    BY <1>0, FailType DEF DeprovisionDrop, BoundType, bounds
  <1>3. GroupType'
    BY <1>0, <1>1, TopicType DEF DeprovisionDrop, GroupType, hostVars
  <1>4. WorkerType'
    BY <1>0, <1>1 DEF WorkerType, workerVars, hostVars
  <1>5. StoreType'
    <2>1. CASE DropCollection
      BY <1>0, <1>1, <2>1, DropType DEF hostVars
    <2>2. CASE UNCHANGED storeVars
      BY <1>0, <1>1, <2>2 DEF StoreType, storeVars, hostVars
    <2> QED BY <2>1, <2>2 DEF DeprovisionDrop
  <1> QED BY <1>2, <1>3, <1>4, <1>5, StoreStepType DEF DeprovisionDrop

LEMMA CollectGarbageType ==
  ASSUME TypeOK, CollectGarbage
  PROVE  TypeOK'
  <1>0. HostType /\ GroupType /\ ActorType /\ WorkerType /\ StoreType /\ BoundType
    BY TypeGroups
  <1>1. UNCHANGED <<workerVars, hostVars, groupVars, bounds, policy, meta>>
    BY DEF CollectGarbage
  <1>2. BoundType' /\ GroupType' /\ WorkerType'
    BY <1>0, <1>1 DEF BoundType, bounds, GroupType, WorkerType, workerVars, hostVars, groupVars
  <1>3. RowsType(rows', Len(topic))
    <2>1. rows' \in SUBSET rows
      BY DEF CollectGarbage
    <2> QED BY <1>0, <2>1, RemoveRowsType, TopicType DEF StoreType
  <1>4. since' \in 0 .. MaxTime
    <2>1. since \in 0 .. MaxTime /\ now \in 0 .. MaxTime /\ ExpireAfter \in Nat /\ MaxTime \in Nat
      BY <1>0, ConstantsType DEF StoreType, HostType
    <2>2. since' = since \/ (since < now - ExpireAfter /\ since' = now - ExpireAfter)
      BY DEF CollectGarbage, Lose
    <2> QED BY <2>1, <2>2
  <1>5. StoreType'
    BY <1>0, <1>1, <1>3, <1>4 DEF StoreType, hostVars
  <1> QED BY <1>2, <1>5, StoreStepType DEF CollectGarbage, actorVars

LEMMA ReadsType ==
  ASSUME TypeOK, ReadHeader \/ ReadRows
  PROVE  TypeOK'
  <1>0. HostType /\ GroupType /\ ActorType /\ WorkerType /\ StoreType /\ ReaderType /\ BoundType
    BY TypeGroups
  <1>1. UNCHANGED <<hostVars, groupVars, actorVars, durable, workerVars, storeVars, bounds>>
    BY DEF ReadHeader, ReadRows
  <1>2. HostType' /\ GroupType' /\ BoundType'
    BY <1>0, <1>1 DEF HostType, GroupType, BoundType, hostVars, groupVars, bounds
  <1>3. ActorType' /\ WorkerType' /\ StoreType'
    BY <1>0, <1>1 DEF ActorType, WorkerType, StoreType, hostVars, groupVars, actorVars, durable,
                      workerVars, storeVars
  <1>4. Len(topic) \in Nat /\ MaxTime \in Nat /\ topic' = topic
    BY <1>0, <1>1, TopicType, ConstantsType DEF hostVars
  <1>5. ReaderType'
    <2>1. CASE ReadRows
      BY <1>4, <2>1 DEF ReadRows, Idle, ReaderType
    <2>2. CASE ReadHeader
      <3>1. PICK t \in 0 .. now : reader' = [pc |-> "rows", seq |-> meta.seq, ts |-> meta.ts,
                                            at |-> IF meta.ts < t THEN meta.ts ELSE t]
        BY <2>2 DEF ReadHeader
      <3>2. meta.seq \in 0 .. Len(topic) /\ meta.ts \in 0 .. MaxTime /\ t \in 0 .. MaxTime
        BY <1>0, <1>4 DEF StoreType, HostType
      <3> QED BY <1>4, <3>1, <3>2 DEF ReaderType
    <2> QED BY <2>1, <2>2
  <1> QED BY <1>2, <1>3, <1>5, TypeGroupsNext

LEMMA CrashType ==
  ASSUME TypeOK, Crash
  PROVE  TypeOK'
  <1>0. HostType /\ GroupType /\ ActorType /\ WorkerType /\ StoreType /\ ReaderType /\ BoundType
    BY TypeGroups
  <1>1. UNCHANGED <<hostVars, groupVars, durable, rows, meta, since>>
    BY DEF Crash
  <1>2. HostType' /\ GroupType'
    BY <1>0, <1>1 DEF HostType, GroupType, hostVars, groupVars
  <1>3. BoundType'
    BY <1>0, FailType DEF Crash
  <1>4. held' \in BOOLEAN
    BY Zenon DEF Crash
  <1>5. ActorType'
    BY <1>0, <1>1, <1>4 DEF Crash, ActorType, durable
  <1>6. cmds' \in Seq(Policies \cup {"Shutdown"})
    BY DEF Crash
  <1>7. WorkerType'
    BY <1>0, <1>6 DEF Crash, WorkerType
  <1>8. StoreType'
    BY <1>0, <1>1 DEF Crash, StoreType, hostVars
  <1>9. ReaderType'
    BY <1>0, <1>1, TopicType, ConstantsType DEF Crash, Idle, ReaderType, hostVars
  <1> QED BY <1>2, <1>3, <1>5, <1>7, <1>8, <1>9, TypeGroupsNext

LEMMA TypeStep ==
  ASSUME TypeOK, WorkerInv, [Next]_vars
  PROVE  TypeOK'
  <1>1. CASE UNCHANGED vars
    BY <1>1 DEF vars, hostVars, groupVars, actorVars, durable, workerVars, storeVars, bounds,
                TypeOK, Current
  <1>2. CASE Next
    BY <1>2, PublishSignalType, PublishChangeType, InitViewType, OpenStreamType,
       HandleCommandType, RecvType, WorkerDropType, SetStateType, WriteRowType, WriteHeaderType,
       AckType, WorkerEndsType, ActivateType, OnReminderType, ConfigureType,
       ConfigurePersistType, ConfigureInitType, DeprovisionType, DeactivateType, WaitsType,
       DeprovisionDropType, CollectGarbageType, ReadsType, CrashType
    DEF Next, WorkerStep, HandlerStep
  <1> QED BY <1>1, <1>2

(***************************************************************************)
(* The worker and its event in hand.                                       *)
(***************************************************************************)

LEMMA InitWorker0 == Init => WorkerInv
  BY DEF Init, WorkerInv, Idle

\* A step that keeps the event in hand, or has none in hand afterwards.
LEMMA SameHand ==
  ASSUME WorkerInv, UNCHANGED <<topic, pos, start, joined, rows, meta>>,
         \/ wpc' = wpc /\ at' = at
         \/ wpc' \notin {"write", "drop", "state", "ack"} /\ at' = 0,
         actor' = "dep_drop" => wpc' = "none",
         actor' \in {"cfg_persist", "cfg_remind"} => config' # NoPolicy,
         ~joined => reader'.pc = "idle"
  PROVE  WorkerInv'
  BY DEF WorkerInv, Event

LEMMA EmitWorker ==
  ASSUME TypeOK, WorkerInv, NEW kind, NEW ts, NEW w, Emit(kind, ts, w),
         UNCHANGED <<groupVars, actorVars, durable, workerVars, storeVars, reader, bounds>>
  PROVE  WorkerInv'
  <1>0. HostType
    BY TypeGroups
  <1>1. wpc \in {"write", "drop", "state", "ack"} => topic'[pos + 1] = topic[pos + 1]
    BY <1>0, InHand, TopicType DEF Emit, HostType
  <1> QED BY <1>1 DEF WorkerInv, Event, groupVars, actorVars, workerVars, storeVars

LEMMA ActorWorker ==
  ASSUME TypeOK, WorkerInv,
         \/ Activate \/ OnReminder \/ Configure \/ ConfigurePersist \/ ConfigureInit
         \/ Deprovision \/ DeprovisionWait \/ Deactivate \/ DeactivateWait
  PROVE  WorkerInv'
  <1>0. UNCHANGED <<topic, pos, start, joined, rows, meta, reader>>
    BY DEF Activate, OnReminder, Configure, ConfigurePersist, ConfigureInit, Deprovision,
           DeprovisionWait, Deactivate, DeactivateWait, hostVars, groupVars, storeVars
  <1>1. \A spec : InitWorker(spec) => \/ wpc' = wpc /\ at' = at
                                      \/ wpc' = "init" /\ at' = 0
    BY DEF InitWorker, Reconfigure
  <1>2. TakeWorker => wpc' = wpc /\ at' = at
    BY DEF TakeWorker
  <1>3. \/ wpc' = wpc /\ at' = at
        \/ wpc' \notin {"write", "drop", "state", "ack"} /\ at' = 0
    BY <1>1, <1>2 DEF Activate, OnReminder, Configure, ConfigurePersist, ConfigureInit, Deprovision,
           DeprovisionWait, Deactivate, DeactivateWait, workerVars
  <1>4. actor' = "dep_drop" => wpc' = "none"
    BY DEF Activate, OnReminder, Configure, ConfigurePersist, ConfigureInit, Deprovision,
           DeprovisionWait, Deactivate, DeactivateWait, workerVars, WorkerInv
  <1>5. actor' \in {"cfg_persist", "cfg_remind"} => config' # NoPolicy
    BY ConstantsType
    DEF Activate, OnReminder, Configure, ConfigurePersist, ConfigureInit, Deprovision,
        DeprovisionWait, Deactivate, DeactivateWait, WorkerInv
  <1> QED BY <1>0, <1>3, <1>4, <1>5, SameHand DEF WorkerInv

LEMMA WorkerStepWorker ==
  ASSUME TypeOK, WorkerInv, WorkerStep
  PROVE  WorkerInv'
  <1>0. HostType /\ GroupType /\ WorkerType
    BY TypeGroups
  <1>1. UNCHANGED <<actor, config, reader, topic>> /\ wpc # "none"
    BY DEF WorkerStep, InitView, OpenStream, HandleCommand, Recv, WorkerDrop, SetState, WriteRow,
           WriteHeader, Ack, WorkerEnds, actorVars, hostVars
  <1>2. /\ actor' = "dep_drop" => wpc' = "none"
        /\ actor' \in {"cfg_persist", "cfg_remind"} => config' # NoPolicy
    BY <1>1 DEF WorkerInv
  <1>3. \A r : EndWith(r) => wpc' \notin {"write", "drop", "state", "ack"} /\ at' = 0
    BY DEF EndWith
  <1>4. GotoLoop => wpc' \notin {"write", "drop", "state", "ack"} /\ at' = 0
    BY DEF GotoLoop
  <1>5. CASE InitView \/ HandleCommand \/ WorkerEnds
    <2>1. UNCHANGED <<topic, pos, start, joined, rows, meta, reader>>
      BY <1>5 DEF InitView, HandleCommand, WorkerEnds, hostVars, groupVars, storeVars
    <2>2. \/ wpc' = wpc /\ at' = at
          \/ wpc' \notin {"write", "drop", "state", "ack"} /\ at' = 0
      BY <1>3, <1>5 DEF InitView, HandleCommand, WorkerEnds, WorkerInv
    <2> QED BY <1>2, <2>1, <2>2, SameHand DEF WorkerInv
  <1>6. CASE OpenStream
    <2>1. UNCHANGED <<rows, meta>> /\ wpc' \notin {"write", "drop", "state", "ack"} /\ at' = 0
      BY <1>3, <1>4, <1>6 DEF OpenStream, storeVars
    <2>2. joined' = TRUE \/ UNCHANGED <<joined, start, pos>>
      BY <1>6 DEF OpenStream, groupVars
    <2> QED BY <1>1, <1>2, <2>1, <2>2 DEF WorkerInv
  <1>7. CASE Recv
    <2>1. UNCHANGED <<topic, pos, joined>> /\ joined /\ at = 0
      BY <1>7 DEF Recv, hostVars, groupVars, WorkerInv
    <2>2. CASE \E r : EndWith(r)
      BY <1>1, <1>2, <1>3, <2>1, <2>2 DEF WorkerInv
    <2>3. CASE ~ \E r : EndWith(r)
      <3>1. pos + 1 \in DOMAIN topic
        BY <1>0, <1>7, TopicType DEF Recv, GroupType
      <3>2. Len(Event.writes) \in Nat /\ Event' = Event
        BY <1>0, <2>1, <3>1, TopicType, EventType DEF Event
      <3> QED BY <1>2, <1>7, <2>1, <2>3, <3>2 DEF WorkerInv, Recv
    <2> QED BY <2>2, <2>3
  <1>8. CASE WorkerDrop \/ SetState \/ WriteRow \/ WriteHeader
    <2>1. UNCHANGED <<topic, pos, joined>> /\ joined
      BY <1>8 DEF WorkerDrop, SetState, WriteRow, WriteHeader, hostVars, groupVars, WorkerInv
    <2>2. Event' = Event
      BY <2>1 DEF Event
    <2>3. CASE \E r : EndWith(r)
      BY <1>1, <1>2, <1>3, <2>1, <2>3 DEF WorkerInv
    <2>4. CASE ~ \E r : EndWith(r)
      <3>1. Event \in ChangeEvents(0 .. MaxTime) /\ at \in Nat
        BY <1>0, <1>8, InHand DEF WorkerDrop, SetState, WriteRow, WriteHeader, WorkerType
      <3>2. Len(Event.writes) \in Nat
        BY <3>1, EventType
      <3> QED BY <1>2, <1>8, <2>1, <2>2, <2>4, <3>1, <3>2
          DEF WorkerInv, WorkerDrop, SetState, WriteRow, WriteHeader
    <2> QED BY <2>3, <2>4
  <1>9. CASE Ack
    BY <1>1, <1>2, <1>4, <1>9 DEF Ack, WorkerInv
  <1> QED BY <1>5, <1>6, <1>7, <1>8, <1>9 DEF WorkerStep

LEMMA OtherWorker ==
  ASSUME TypeOK, WorkerInv,
         DeprovisionDrop \/ CollectGarbage \/ ReadHeader \/ ReadRows \/ Crash
  PROVE  WorkerInv'
  <1>1. CASE DeprovisionDrop
    BY <1>1 DEF DeprovisionDrop, DropCollection, WorkerInv, Event, hostVars, workerVars, storeVars
  <1>2. CASE CollectGarbage
    BY <1>2 DEF CollectGarbage, WorkerInv, Event, hostVars, groupVars, actorVars, workerVars
  <1>3. CASE ReadHeader \/ ReadRows
    <2>1. ~joined => reader'.pc = "idle"
      BY <1>3 DEF ReadHeader, ReadRows, WorkerInv, Idle
    <2> QED BY <1>3, <2>1, SameHand
        DEF ReadHeader, ReadRows, WorkerInv, hostVars, groupVars, actorVars, workerVars, storeVars
  <1>4. CASE Crash
    BY <1>4, SameHand DEF Crash, Idle, hostVars, groupVars
  <1> QED BY <1>1, <1>2, <1>3, <1>4

LEMMA WorkerInvStep ==
  ASSUME TypeOK, WorkerInv, [Next]_vars
  PROVE  WorkerInv'
  <1>1. CASE UNCHANGED vars
    BY <1>1 DEF vars, hostVars, groupVars, actorVars, durable, workerVars, storeVars, bounds,
                WorkerInv, Event
  <1>2. CASE PublishSignal
    BY <1>2, EmitWorker DEF PublishSignal
  <1>3. CASE PublishChange
    BY <1>3, EmitWorker DEF PublishChange
  <1>4. CASE WorkerStep
    BY <1>4, WorkerStepWorker
  <1>5. CASE HandlerStep
    BY <1>5, ActorWorker, OtherWorker DEF HandlerStep
  <1>6. CASE \/ Activate \/ OnReminder \/ Configure \/ Deprovision \/ Deactivate
             \/ CollectGarbage \/ ReadHeader \/ ReadRows \/ Crash
    BY <1>6, ActorWorker, OtherWorker
  <1> QED BY <1>1, <1>2, <1>3, <1>4, <1>5, <1>6 DEF Next

\* The type invariant.  It is not inductive by itself: a reconfiguration in progress
\* has a policy to give to the worker (WorkerInv).
THEOREM TypeCorrect == Spec => []TypeOK
  <1>1. Init => TypeOK /\ WorkerInv
    BY InitTypes, InitWorker0
  <1>2. TypeOK /\ WorkerInv /\ [Next]_vars => (TypeOK /\ WorkerInv)'
    BY TypeStep, WorkerInvStep
  <1> QED BY <1>1, <1>2, PTL DEF Spec

(***************************************************************************)
(* The topic.                                                              *)
(***************************************************************************)

\* What the first n results make of a key does not depend on later ones.
LEMMA LiveAgrees ==
  ASSUME NEW l, NEW m, NEW s \in Nat, NEW n \in Nat, \A i \in 1 .. n : m[i] = l[i], NEW k, NEW i
  PROVE  Live(m, s, k, i, n) <=> Live(l, s, k, i, n)
  <1>1. i \in s + 1 .. n => m[i] = l[i]
    OBVIOUS
  <1>2. i \in s + 1 .. n => \A j \in i + 1 .. n : m[j] = l[j]
    OBVIOUS
  <1> QED BY <1>1, <1>2 DEF Live, Unreset, Untouched

LEMMA LiveShrinks ==
  ASSUME NEW l, NEW s \in Nat, NEW n \in Nat, NEW m \in Nat, n <= m, NEW k, NEW i,
         i \in s + 1 .. n
  PROVE  Live(l, s, k, i, m) <=>
           Live(l, s, k, i, n) /\ Unreset(l, n + 1 .. m) /\ Untouched(l, k, n + 1 .. m)
  <1>1. i + 1 .. m = (i + 1 .. n) \cup (n + 1 .. m)
    OBVIOUS
  <1>2. i \in s + 1 .. m
    OBVIOUS
  <1> QED BY <1>1, <1>2 DEF Live, Unreset, Untouched

LEMMA TopicInit == Init => TopicInv
  BY DEF Init, TopicInv

\* How an event that is published changes the result.
Publishes(e) ==
  /\ \A k \in results : ~Promise!IsReset(e) /\ k \notin Promise!Touched(e) => k \in results'
  /\ \A k \in Keys : Promise!Puts(e, k) => k \in results'
  /\ \A k \in results : k \in Promise!Touched(e) /\ ~Promise!IsReset(e) =>
       \E j \in DOMAIN e.writes : e.writes[j] = [key |-> k, put |-> FALSE]

LEMMA EmitTopic ==
  ASSUME TypeOK, TopicInv, NEW kind, NEW ts \in 0 .. MaxTime, NEW w, Emit(kind, ts, w), ts <= now,
         kind # "change" => w = <<>> /\ ts = now,
         Publishes([kind |-> kind, ts |-> ts, writes |-> w])
  PROVE  TopicInv'
  <1> PICK e : e = [kind |-> kind, ts |-> ts, writes |-> w]
    OBVIOUS
  <1>p. Publishes(e)
    OBVIOUS
  <1>0. HostType
    BY TypeGroups
  <1> DEFINE n == Len(topic)
  <1>1. n \in Nat /\ DOMAIN topic = 1 .. n /\ now \in Int /\ \A i \in 1 .. n : topic[i].ts \in Int
    BY <1>0, TopicType, EventType, ConstantsType DEF HostType
  <1>2. /\ Len(topic') = n + 1 /\ DOMAIN topic' = 1 .. n + 1 /\ topic'[n + 1] = e
        /\ \A i \in 1 .. n : topic'[i] = topic[i]
    BY <1>0, <1>1 DEF Emit, HostType
  <1>3. now' \in Int /\ now' >= now
    BY <1>1, ConstantsType DEF Emit
  <1> HIDE DEF n
  <1>4. e.kind = kind /\ e.ts = ts /\ e.writes = w /\ ts \in Int
    BY ConstantsType
  <1>5. ASSUME NEW i \in DOMAIN topic'
        PROVE  /\ topic'[i].ts <= now'
               /\ topic'[i].kind # "change" =>
                    topic'[i].writes = <<>> /\ \A j \in 1 .. i : topic'[j].ts <= topic'[i].ts
    <2>1. CASE i \in 1 .. n
      <3>1. topic[i].ts <= now /\ (topic[i].kind # "change" =>
              topic[i].writes = <<>> /\ \A j \in 1 .. i : topic[j].ts <= topic[i].ts)
        BY <1>1, <2>1 DEF TopicInv
      <3>2. \A j \in 1 .. i : j \in 1 .. n
        BY <1>1, <2>1
      <3> QED BY <1>1, <1>2, <1>3, <2>1, <3>1, <3>2
    <2>2. CASE i = n + 1
      <3>1. \A j \in 1 .. n : topic'[j].ts <= now
        BY <1>1, <1>2 DEF TopicInv
      <3>2. \A j \in 1 .. i : j \in 1 .. n \/ j = i
        BY <1>1, <2>2
      <3> QED BY <1>2, <1>3, <1>1, <1>4, <2>2, <3>1, <3>2
    <2> QED BY <1>1, <1>2, <1>5, <2>1, <2>2
  <1>6. \A k \in Keys : \A i \in 1 .. n : Live(topic, 0, k, i, n) => k \in results
    BY <1>1 DEF TopicInv, n
  <1>7. ASSUME NEW k \in Keys, NEW i \in 1 .. n
        PROVE  Live(topic', 0, k, i, n) <=> Live(topic, 0, k, i, n)
    BY <1>1, <1>2, LiveAgrees
  <1>8. ASSUME NEW k \in Keys, NEW i \in DOMAIN topic', Live(topic', 0, k, i, n + 1)
        PROVE  k \in results'
    <2>1. CASE i = n + 1
      BY <1>2, <1>8, <1>p, <2>1 DEF Live, Publishes
    <2>2. CASE i \in 1 .. n
      <3>1. Live(topic', 0, k, i, n) /\ ~Promise!IsReset(topic'[n + 1])
            /\ k \notin Promise!Touched(topic'[n + 1])
        <4>1. n + 1 \in n + 1 .. n + 1 /\ i \in 0 + 1 .. n /\ n <= n + 1 /\ n + 1 \in Nat
          BY <1>1, <2>2
        <4>2. Live(topic', 0, k, i, n) /\ Unreset(topic', n + 1 .. n + 1)
              /\ Untouched(topic', k, n + 1 .. n + 1)
          BY <1>1, <1>8, <4>1, LiveShrinks
        <4> QED BY <4>1, <4>2 DEF Unreset, Untouched
      <3>2. k \in results
        BY <1>6, <1>7, <2>2, <3>1
      <3> QED BY <1>2, <1>p, <3>1, <3>2 DEF Publishes
    <2> QED BY <1>1, <1>2, <1>8, <2>1, <2>2
  <1>9. ASSUME NEW k \in Keys, NEW i \in DOMAIN topic', NEW c \in DOMAIN topic',
               Promise!Puts(topic'[i], k), Supersedes(topic', k, i, c), Unreset(topic', i + 1 .. c)
        PROVE  \E j \in DOMAIN topic'[c].writes : topic'[c].writes[j] = [key |-> k, put |-> FALSE]
    <2>0. i \in 1 .. n /\ i < c
      BY <1>1, <1>2, <1>9 DEF Supersedes
    <2>1. CASE c \in 1 .. n
      <3>1. \A j \in i + 1 .. c : topic'[j] = topic[j]
        BY <1>1, <1>2, <2>0, <2>1
      <3>2. topic'[i] = topic[i] /\ topic'[c] = topic[c]
        BY <1>2, <2>0, <2>1
      <3>3. Supersedes(topic, k, i, c) /\ Unreset(topic, i + 1 .. c)
        <4>1. \A j \in i + 1 .. c - 1 : j \in i + 1 .. c
          BY <1>1, <2>0, <2>1
        <4>2. Supersedes(topic, k, i, c)
          BY <1>1, <1>9, <2>1, <3>1, <3>2, <4>1 DEF Supersedes, Untouched
        <4>3. Unreset(topic, i + 1 .. c)
          BY <1>9, <3>1 DEF Unreset
        <4> QED BY <4>2, <4>3
      <3> QED BY <1>1, <1>9, <2>0, <2>1, <3>2, <3>3 DEF TopicInv
    <2>2. CASE c = n + 1
      <3>1. \A j \in i + 1 .. n : j \in i + 1 .. c - 1 /\ j \in i + 1 .. c
        BY <1>1, <2>2
      <3>2. Live(topic', 0, k, i, n)
        BY <1>9, <2>0, <3>1 DEF Live, Supersedes, Unreset, Untouched
      <3>3. k \in results
        BY <1>6, <1>7, <2>0, <3>2
      <3>4. k \in Promise!Touched(topic'[c]) /\ ~Promise!IsReset(topic'[c])
        BY <1>1, <1>9, <2>0, <2>2 DEF Supersedes, Unreset
      <3>5. topic'[c] = e
        BY <1>2, <2>2
      <3>6. \E j \in DOMAIN e.writes : e.writes[j] = [key |-> k, put |-> FALSE]
        BY <1>p, <3>3, <3>4, <3>5, Zenon DEF Publishes
      <3>7. topic'[c].writes = e.writes
        BY <3>5, Zenon
      <3> QED BY <3>6, <3>7, Zenon
    <2>3. c \in 1 .. n \/ c = n + 1
      BY <1>1, <1>2, <1>9
    <2> QED BY <2>1, <2>2, <2>3, Zenon
  <1> QED BY <1>2, <1>5, <1>8, <1>9 DEF TopicInv

LEMMA TopicStep ==
  ASSUME TypeOK, TopicInv, [Next]_vars
  PROVE  TopicInv'
  <1>0. HostType
    BY TypeGroups
  <1>1. now \in 0 .. MaxTime /\ now \in Int /\ results \subseteq Keys
    BY <1>0, ConstantsType DEF HostType
  <1>2. CASE PublishSignal
    <2>1. PICK kind \in {"reset", "status", "bad"} : 
            /\ Emit(kind, now, <<>>)
            /\ kind = "reset" \/ UNCHANGED results
      BY <1>2 DEF PublishSignal
    <2> DEFINE e == [kind |-> kind, ts |-> now, writes |-> <<>>]
    <2>2. Promise!Touched(e) = {} /\ (Promise!IsReset(e) <=> kind = "reset")
      BY DEF Promise!Touched, Promise!IsReset
    <2>3. \A k \in Keys : ~Promise!Puts(e, k)
      BY DEF Promise!Puts
    <2> HIDE DEF e
    <2>4. e = [kind |-> kind, ts |-> now, writes |-> <<>>]
      BY DEF e
    <2>5. Publishes(e)
      BY <1>1, <2>1, <2>2, <2>3 DEF Publishes
    <2> QED BY <1>1, <2>1, <2>4, <2>5, EmitTopic
  <1>3. CASE PublishChange
    <2>1. PICK c \in Changes :
            /\ {c[j].key : j \in {i \in DOMAIN c : ~c[i].put}} \subseteq results
            /\ ({c[j].key : j \in {i \in DOMAIN c : c[i].put}}
                  \ {c[j].key : j \in {i \in DOMAIN c : ~c[i].put}}) \cap results = {}
            /\ results' = (results \ {c[j].key : j \in {i \in DOMAIN c : ~c[i].put}})
                            \cup {c[j].key : j \in {i \in DOMAIN c : c[i].put}}
            /\ \E ts \in IF bootstrap THEN {0} ELSE {now, now - 1} \cap Nat : Emit("change", ts, c)
      BY <1>3 DEF PublishChange
    <2>2. PICK ts \in IF bootstrap THEN {0} ELSE {now, now - 1} \cap Nat : Emit("change", ts, c)
      BY <2>1
    <2>3. ts \in 0 .. MaxTime /\ ts <= now
      BY <1>1, <2>2, ConstantsType
    <2> DEFINE e == [kind |-> "change", ts |-> ts, writes |-> c]
    <2>4. e.writes = c /\ ~Promise!IsReset(e)
      BY DEF Promise!IsReset
    <2>5. e = [kind |-> "change", ts |-> ts, writes |-> c]
      OBVIOUS
    <2> HIDE DEF e
    <2>6. \A j \in DOMAIN c : c[j].put \in BOOLEAN /\ c[j] = [key |-> c[j].key, put |-> c[j].put]
      <3>1. c \in Seq(Writes)
        BY ConstantsType
      <3>2. \A j \in DOMAIN c : c[j] \in Writes
        BY <3>1
      <3> QED BY <3>2 DEF Writes
    <2>7. \A k \in results : k \notin Promise!Touched(e) => k \in results'
      BY <2>1, <2>4 DEF Promise!Touched
    <2>8. \A k \in Keys : Promise!Puts(e, k) => k \in results'
      BY <2>1, <2>4 DEF Promise!Puts
    <2>9. ASSUME NEW k \in results, k \in Promise!Touched(e)
          PROVE  \E j \in DOMAIN e.writes : e.writes[j] = [key |-> k, put |-> FALSE]
      <3>1. PICK i \in DOMAIN c : c[i].key = k
        BY <2>4, <2>9 DEF Promise!Touched
      <3>2. \E j \in DOMAIN c : c[j].key = k /\ ~c[j].put
        BY <2>1, <2>9, <3>1
      <3> QED BY <2>4, <2>6, <3>2
    <2>10. Publishes(e)
      BY <2>7, <2>8, <2>9, Zenon DEF Publishes
    <2> QED BY <2>2, <2>3, <2>5, <2>10, EmitTopic
  <1>4. CASE UNCHANGED hostVars
    BY <1>4 DEF hostVars, TopicInv
  <1>5. PublishSignal \/ PublishChange \/ UNCHANGED hostVars
    BY DEF Next, vars, WorkerStep, HandlerStep, InitView, OpenStream, HandleCommand, Recv,
           WorkerDrop, SetState, WriteRow, WriteHeader, Ack, WorkerEnds, Activate, OnReminder,
           Configure, ConfigurePersist, ConfigureInit, Deprovision, DeprovisionWait,
           DeprovisionDrop, Deactivate, DeactivateWait, CollectGarbage, ReadHeader, ReadRows, Crash
  <1> QED BY <1>2, <1>3, <1>4, <1>5

(***************************************************************************)
(* Rows.  First what a longer log and the end of an event change, then the *)
(* row operations, all on values.                                          *)
(***************************************************************************)

\* A nonempty set of numbers with a bound has a greatest element.
LEMMA GreatestExists ==
  ASSUME NEW n \in Nat, NEW S \in SUBSET (1 .. n), S # {}
  PROVE  \E x \in S : \A y \in S : y <= x
  <1> DEFINE T == {n - i : i \in S}
  <1>1. T \in SUBSET Nat /\ T # {}
    <2>1. \A i \in S : n - i \in Nat
      OBVIOUS
    <2> QED BY <2>1
  <1>2. PICK x \in T : \A y \in T : ~ (<<y, x>> \in OpToRel(<, Nat))
    <2> HIDE DEF T
    <2> QED BY <1>1, NatLessThanWellFounded, WFMin
  <1>3. PICK i \in S : x = n - i
    OBVIOUS
  <1>4. ASSUME NEW j \in S PROVE j <= i
    <2>1. n - j \in T /\ n - j \in Nat /\ x \in Nat
      BY <1>1, <1>3
    <2>2. n - j < x => <<n - j, x>> \in OpToRel(<, Nat)
      BY <2>1 DEF OpToRel
    <2>3. ~(n - j < x)
      BY <1>2, <2>1, <2>2, Zenon
    <2> QED BY <1>3, <2>1, <2>3
  <1> QED BY <1>4

\* A key that a result touches has a last write in it.
LEMMA LastWrite ==
  ASSUME NEW e \in ChangeEvents(0 .. MaxTime), NEW k, k \in Promise!Touched(e)
  PROVE  \E j \in DOMAIN e.writes :
           e.writes[j].key = k /\ \A i \in j + 1 .. Len(e.writes) : e.writes[i].key # k
  <1> DEFINE S == {j \in DOMAIN e.writes : e.writes[j].key = k}
             n == Len(e.writes)
  <1>1. n \in Nat /\ DOMAIN e.writes = 1 .. n
    BY EventType
  <1>2. S \in SUBSET (1 .. n) /\ S # {}
    BY <1>1 DEF Promise!Touched
  <1>3. PICK x \in S : \A y \in S : y <= x
    BY <1>1, <1>2, GreatestExists
  <1>4. ASSUME NEW i \in x + 1 .. n PROVE e.writes[i].key # k
    <2>1. i \in DOMAIN e.writes /\ ~(i <= x)
      BY <1>1, <1>3
    <2> QED BY <1>3, <2>1
  <1> QED BY <1>3, <1>4

LEMMA PutsTouches ==
  ASSUME NEW e, NEW k, Promise!Puts(e, k)
  PROVE  k \in Promise!Touched(e)
  BY DEF Promise!Puts, Promise!Touched

\* The log m is the log l or a longer one.
Grows(l, m) ==
  /\ Len(l) \in Nat /\ Len(m) \in Nat /\ Len(l) <= Len(m)
  /\ DOMAIN l = 1 .. Len(l) /\ DOMAIN m = 1 .. Len(m)
  /\ \A i \in 1 .. Len(l) : m[i] = l[i]

LEMMA SupersedesGrows ==
  ASSUME NEW l, NEW m, Grows(l, m), NEW k, NEW i \in Nat, NEW c \in DOMAIN l
  PROVE  Supersedes(m, k, i, c) <=> Supersedes(l, k, i, c)
  <1>1. c \in DOMAIN m /\ m[c] = l[c]
    BY DEF Grows
  <1>2. \A j \in i + 1 .. c - 1 : m[j] = l[j]
    BY DEF Grows
  <1> QED BY <1>1, <1>2 DEF Supersedes, Untouched

LEMMA RowGrows ==
  ASSUME NEW l, NEW m, Grows(l, m), NEW s \in Nat, NEW p \in s .. Len(l), NEW r, RowOK(l, s, p, r)
  PROVE  RowOK(m, s, p, r)
  <1>0. p \in Nat /\ Len(l) \in Nat /\ DOMAIN l = 1 .. Len(l)
    BY DEF Grows
  <1>1. /\ r.val \in s + 1 .. p + 1 /\ r.val \in DOMAIN l /\ r.val \in Nat
        /\ r.from = l[r.val].ts /\ r.key \in Promise!Touched(l[r.val])
        /\ Unreset(l, r.val .. p)
        /\ r.to = Open => r.val = p + 1 \/ Live(l, s, r.key, r.val, p)
    BY <1>0 DEF RowOK
  <1>2. r.val \in DOMAIN m /\ m[r.val] = l[r.val]
    BY <1>1 DEF Grows
  <1>3. \A i \in 1 .. p : m[i] = l[i]
    BY <1>0 DEF Grows
  <1>4. Unreset(m, r.val .. p)
    BY <1>0, <1>1, <1>3 DEF Unreset
  <1>5. Live(l, s, r.key, r.val, p) => Live(m, s, r.key, r.val, p)
    BY <1>0, <1>3, LiveAgrees
  <1>6. ASSUME r.to # Open
        PROVE  \E c \in DOMAIN m :
                 /\ c <= p + 1 /\ r.to = m[c].ts - 1 /\ r.key \in Promise!Touched(m[c])
                 /\ c = r.val \/ (Promise!Puts(m[r.val], r.key) /\ Supersedes(m, r.key, r.val, c))
    <2>1. PICK c \in DOMAIN l :
            /\ c <= p + 1 /\ r.to = l[c].ts - 1 /\ r.key \in Promise!Touched(l[c])
            /\ c = r.val \/ (Promise!Puts(l[r.val], r.key) /\ Supersedes(l, r.key, r.val, c))
      BY <1>6 DEF RowOK
    <2>2. c \in DOMAIN m /\ m[c] = l[c]
      BY DEF Grows
    <2>3. Supersedes(m, r.key, r.val, c) <=> Supersedes(l, r.key, r.val, c)
      BY <1>1, SupersedesGrows
    <2> QED BY <1>2, <2>1, <2>2, <2>3
  <1> QED BY <1>1, <1>2, <1>4, <1>5, <1>6 DEF RowOK

LEMMA FoundGrows ==
  ASSUME NEW l, NEW m, Grows(l, m), NEW s \in Nat, NEW p \in s .. Len(l), NEW R, NEW h,
         FoundInv(l, s, p, R, h)
  PROVE  FoundInv(m, s, p, R, h)
  <1>0. p \in Nat /\ Len(l) \in Nat /\ DOMAIN l = 1 .. Len(l)
    BY DEF Grows
  <1> SUFFICES ASSUME NEW k \in Keys, NEW i \in s + 1 .. p, Promise!Puts(m[i], k),
                      Unreset(m, i + 1 .. p), p < Len(m) => ~Promise!IsReset(m[p + 1])
               PROVE  Found(m, p, R, h, k, i)
    BY DEF FoundInv
  <1>1. i \in Nat /\ i \in DOMAIN l /\ m[i] = l[i] /\ \A j \in i + 1 .. p : m[j] = l[j]
    BY <1>0 DEF Grows
  <1>2. p < Len(l) => ~Promise!IsReset(l[p + 1])
    BY <1>0 DEF Grows
  <1>3. Found(l, p, R, h, k, i)
    BY <1>1, <1>2 DEF FoundInv, Unreset
  <1>4. CASE Row(k, i, l[i].ts, Open) \in R
    BY <1>1, <1>4 DEF Found
  <1>5. CASE \E c \in DOMAIN l :
               /\ c <= p + 1 /\ Supersedes(l, k, i, c)
               /\ Row(k, i, l[i].ts, l[c].ts - 1) \in R \/ l[c].ts <= h \/ Promise!Shifts(l[c])
    <2>1. PICK c \in DOMAIN l :
               /\ c <= p + 1 /\ Supersedes(l, k, i, c)
               /\ Row(k, i, l[i].ts, l[c].ts - 1) \in R \/ l[c].ts <= h \/ Promise!Shifts(l[c])
      BY <1>5
    <2>2. c \in DOMAIN m /\ m[c] = l[c]
      BY DEF Grows
    <2>3. Supersedes(m, k, i, c)
      BY <1>1, <2>1, SupersedesGrows
    <2> QED BY <1>1, <2>1, <2>2, <2>3 DEF Found
  <1> QED BY <1>3, <1>4, <1>5 DEF Found

\* A log of which result p + 1 is in hand.
Hand(l, s, p) ==
  /\ Len(l) \in Nat /\ DOMAIN l = 1 .. Len(l) /\ s \in Nat /\ p \in s .. Len(l) /\ p < Len(l)
  /\ \A i \in DOMAIN l : l[i] \in ChangeEvents(0 .. MaxTime)

LEMMA HandType ==
  ASSUME NEW l, NEW s, NEW p, Hand(l, s, p)
  PROVE  /\ p \in Nat /\ p + 1 \in DOMAIN l /\ p + 1 \in Nat /\ p + 1 <= Len(l)
         /\ l[p + 1] \in ChangeEvents(0 .. MaxTime)
         /\ l[p + 1].ts \in Int /\ l[p + 1].ts \in 0 .. MaxTime
         /\ \A i \in DOMAIN l : l[i].ts \in 0 .. MaxTime
  <1>1. p \in Nat /\ p + 1 \in DOMAIN l /\ p + 1 \in Nat /\ p + 1 <= Len(l)
    BY DEF Hand
  <1>2. \A i \in DOMAIN l : l[i].ts \in 0 .. MaxTime
    BY EventType DEF Hand
  <1> QED BY <1>1, <1>2, ConstantsType DEF Hand

\* What every write of a result has left of a key it touches.
LEMMA WrittenAll ==
  ASSUME NEW l, NEW s, NEW p, Hand(l, s, p), NEW R,
         Written(l, p + 1, Len(l[p + 1].writes), R), NEW k, k \in Promise!Touched(l[p + 1])
  PROVE  /\ \A r \in R : r.key = k /\ r.to = Open => r.val = p + 1
         /\ Promise!Puts(l[p + 1], k) => Row(k, p + 1, l[p + 1].ts, Open) \in R
         /\ ~Promise!Puts(l[p + 1], k) => \A r \in R : r.key = k => r.to # Open
  <1> DEFINE e == l[p + 1]
             n == Len(l[p + 1].writes)
  <1>1. e \in ChangeEvents(0 .. MaxTime)
    BY HandType
  <1>2. n \in Nat /\ DOMAIN e.writes = 1 .. n
    BY <1>1, EventType
  <1>3. PICK j \in DOMAIN e.writes :
          e.writes[j].key = k /\ \A i \in j + 1 .. n : e.writes[i].key # k
    BY <1>1, LastWrite
  <1>4. /\ \A r \in R : r.key = k /\ r.to = Open => r.val = p + 1
        /\ IF e.writes[j].put THEN Row(k, p + 1, e.ts, Open) \in R
                              ELSE \A r \in R : r.key = k => r.to # Open
    BY <1>2, <1>3 DEF Written, Done
  <1>5. Promise!Puts(e, k) <=> e.writes[j].put
    <2>1. ASSUME NEW i \in DOMAIN e.writes, e.writes[i].key = k, e.writes[i].put,
                 \A x \in i + 1 .. Len(e.writes) : e.writes[x].key # k
          PROVE  i = j
      <3>1. ~(i \in j + 1 .. n) /\ ~(j \in i + 1 .. n)
        BY <1>3, <2>1
      <3> QED BY <1>2, <1>3, <3>1
    <2>2. Promise!Puts(e, k) => e.writes[j].put
      BY <2>1 DEF Promise!Puts
    <2>3. e.writes[j].put => Promise!Puts(e, k)
      BY <1>3 DEF Promise!Puts
    <2> QED BY <2>2, <2>3
  <1> QED BY <1>4, <1>5

LEMMA LiveNext ==
  ASSUME NEW l, NEW s, NEW p, Hand(l, s, p), NEW k, NEW i \in s + 1 .. p
  PROVE  Live(l, s, k, i, p + 1) <=>
           /\ Live(l, s, k, i, p) /\ ~Promise!IsReset(l[p + 1])
           /\ k \notin Promise!Touched(l[p + 1])
  <1>1. p \in Nat /\ p + 1 \in Nat /\ p <= p + 1 /\ s \in Nat /\ p + 1 .. p + 1 = {p + 1}
    BY HandType DEF Hand
  <1>2. Live(l, s, k, i, p + 1) <=>
          Live(l, s, k, i, p) /\ Unreset(l, p + 1 .. p + 1) /\ Untouched(l, k, p + 1 .. p + 1)
    BY <1>1, LiveShrinks
  <1> QED BY <1>1, <1>2 DEF Unreset, Untouched

LEMMA LiveNow ==
  ASSUME NEW l, NEW s, NEW p, Hand(l, s, p), NEW k
  PROVE  Live(l, s, k, p + 1, p + 1) <=> Promise!Puts(l[p + 1], k)
  <1>1. p + 1 \in s + 1 .. p + 1 /\ p + 1 + 1 .. p + 1 = {}
    BY HandType DEF Hand
  <1> QED BY <1>1 DEF Live, Unreset, Untouched

\* The rows once the event in hand is acknowledged.
LEMMA AckRows ==
  ASSUME NEW l, NEW s, NEW p, Hand(l, s, p), NEW R, NEW r \in R, RowOK(l, s, p, r),
         Written(l, p + 1, Len(l[p + 1].writes), R), ~Promise!IsReset(l[p + 1])
  PROVE  /\ RowOK(l, s, p + 1, r)
         /\ r.to = Open => Live(l, s, r.key, r.val, p + 1)
  <1>0. p \in Nat /\ s \in Nat /\ s <= p
    BY HandType DEF Hand
  <1>1. /\ r.val \in s + 1 .. p + 1 /\ r.val \in DOMAIN l
        /\ r.from = l[r.val].ts /\ r.key \in Promise!Touched(l[r.val])
        /\ Unreset(l, r.val .. p)
        /\ r.to = Open => r.val = p + 1 \/ Live(l, s, r.key, r.val, p)
    BY DEF RowOK
  <1>2. Unreset(l, r.val .. p + 1)
    <2>1. \A j \in r.val .. p + 1 : j \in r.val .. p \/ j = p + 1
      BY <1>0, <1>1
    <2> QED BY <1>1, <2>1 DEF Unreset
  <1>3. ASSUME r.to = Open
        PROVE  Live(l, s, r.key, r.val, p + 1)
    <2>1. CASE r.val = p + 1
      <3>1. r.key \in Promise!Touched(l[p + 1])
        BY <1>1, <2>1
      <3>2. Promise!Puts(l[p + 1], r.key)
        BY <1>3, <3>1, WrittenAll
      <3>3. Live(l, s, r.key, p + 1, p + 1)
        BY <3>2, LiveNow
      <3> QED BY <2>1, <3>3
    <2>2. CASE r.val # p + 1
      <3>1. r.key \notin Promise!Touched(l[p + 1])
        BY <1>3, <2>2, WrittenAll
      <3>2. r.val \in s + 1 .. p
        BY <1>0, <1>1, <2>2
      <3> QED BY <1>1, <1>3, <2>2, <3>1, <3>2, LiveNext
    <2> QED BY <2>1, <2>2
  <1>4. ASSUME r.to # Open
        PROVE  \E c \in DOMAIN l :
                 /\ c <= p + 1 + 1 /\ r.to = l[c].ts - 1 /\ r.key \in Promise!Touched(l[c])
                 /\ c = r.val \/ (Promise!Puts(l[r.val], r.key) /\ Supersedes(l, r.key, r.val, c))
    <2>1. PICK c \in DOMAIN l :
            /\ c <= p + 1 /\ r.to = l[c].ts - 1 /\ r.key \in Promise!Touched(l[c])
            /\ c = r.val \/ (Promise!Puts(l[r.val], r.key) /\ Supersedes(l, r.key, r.val, c))
      BY <1>4 DEF RowOK
    <2>2. c <= p + 1 + 1
      BY <1>0, <2>1 DEF Hand
    <2> QED BY <2>1, <2>2
  <1>5. r.val \in s + 1 .. p + 1 + 1
    BY <1>0, <1>1
  <1> QED BY <1>1, <1>2, <1>3, <1>4, <1>5 DEF RowOK

LEMMA AckFound ==
  ASSUME NEW l, NEW s, NEW p, Hand(l, s, p), NEW R, NEW h, FoundInv(l, s, p, R, h),
         Written(l, p + 1, Len(l[p + 1].writes), R)
  PROVE  FoundInv(l, s, p + 1, R, h)
  <1>0. p \in Nat /\ s \in Nat /\ s <= p /\ Len(l) \in Nat /\ DOMAIN l = 1 .. Len(l) /\ p < Len(l)
    BY HandType DEF Hand
  <1> SUFFICES ASSUME NEW k \in Keys, NEW i \in s + 1 .. p + 1, Promise!Puts(l[i], k),
                      Unreset(l, i + 1 .. p + 1)
               PROVE  Found(l, p + 1, R, h, k, i)
    BY DEF FoundInv
  <1>1. CASE i = p + 1
    BY <1>1, PutsTouches, WrittenAll DEF Found
  <1>2. CASE i # p + 1
    <2>1. i \in s + 1 .. p /\ p + 1 \in i + 1 .. p + 1 /\ \A j \in i + 1 .. p : j \in i + 1 .. p + 1
      BY <1>0, <1>2
    <2>2. Unreset(l, i + 1 .. p) /\ ~Promise!IsReset(l[p + 1])
      BY <2>1 DEF Unreset
    <2>3. Found(l, p, R, h, k, i)
      BY <2>1, <2>2 DEF FoundInv
    <2>4. \A c \in DOMAIN l : c <= p + 1 => c <= p + 1 + 1
      BY <1>0
    <2> QED BY <2>3, <2>4 DEF Found
  <1> QED BY <1>1, <1>2

\* Results close the keys they touch (a part of TopicInv).
Closes(l) ==
  \A k \in Keys : \A i, c \in DOMAIN l :
    Promise!Puts(l[i], k) /\ Supersedes(l, k, i, c) /\ Unreset(l, i + 1 .. c) =>
      \E w \in DOMAIN l[c].writes : l[c].writes[w] = [key |-> k, put |-> FALSE]

\* The state of record_change before its write number a + 1.
Writing(l, s, p, R, h, a) ==
  /\ Hand(l, s, p) /\ ~Promise!IsReset(l[p + 1]) /\ a \in Nat /\ a < Len(l[p + 1].writes)
  /\ RowsType(R, Len(l)) /\ \A r \in R : RowOK(l, s, p, r)
  /\ FoundInv(l, s, p, R, h) /\ Written(l, p + 1, a, R)

LEMMA WritingType ==
  ASSUME NEW l, NEW s, NEW p, NEW R, NEW h, NEW a, Writing(l, s, p, R, h, a)
  PROVE  /\ a + 1 \in DOMAIN l[p + 1].writes
         /\ l[p + 1].writes[a + 1].key \in Keys
         /\ l[p + 1].writes[a + 1].key \in Promise!Touched(l[p + 1])
         /\ \A r \in R : r \in ViewDocuments(Len(l))
         /\ Len(l) \in Nat /\ p \in Nat /\ p + 1 \in DOMAIN l /\ l[p + 1].ts \in 0 .. MaxTime
  <1>1. l[p + 1] \in ChangeEvents(0 .. MaxTime)
    BY HandType DEF Writing
  <1>2. a + 1 \in DOMAIN l[p + 1].writes
    BY <1>1, EventType DEF Writing
  <1>3. l[p + 1].writes[a + 1].key \in Keys
    BY <1>1, <1>2, EventType
  <1>4. l[p + 1].writes[a + 1].key \in Promise!Touched(l[p + 1])
    BY <1>2 DEF Promise!Touched
  <1>5. Len(l) \in Nat /\ p \in Nat /\ p + 1 \in DOMAIN l /\ l[p + 1].ts \in 0 .. MaxTime
    BY HandType DEF Writing, Hand
  <1> QED BY <1>2, <1>3, <1>4, <1>5 DEF Writing, RowsType

\* A current row of an earlier result, of a key that the result in hand touches.
LEMMA CurrentRow ==
  ASSUME NEW l, NEW s, NEW p, Hand(l, s, p), NEW r, RowOK(l, s, p, r), r.to = Open,
         r.val # p + 1, r.key \in Promise!Touched(l[p + 1])
  PROVE  /\ Promise!Puts(l[r.val], r.key) /\ Supersedes(l, r.key, r.val, p + 1)
         /\ r.val \in DOMAIN l /\ Unreset(l, r.val + 1 .. p)
  <1>1. r.val \in s + 1 .. p + 1 /\ r.val \in DOMAIN l /\ Live(l, s, r.key, r.val, p)
    BY DEF RowOK
  <1>2. p \in Nat /\ s \in Nat /\ p + 1 \in DOMAIN l
    BY HandType DEF Hand
  <1>3. r.val < p + 1 /\ p + 1 - 1 = p
    BY <1>1, <1>2
  <1> QED BY <1>1, <1>2, <1>3 DEF Live, Supersedes

LEMMA PutRowOK ==
  ASSUME NEW l, NEW s, NEW p, NEW R, NEW h, NEW a, Writing(l, s, p, R, h, a),
         NEW k, k = l[p + 1].writes[a + 1].key, NEW r \in PutIn(R, k, p + 1, l[p + 1].ts)
  PROVE  RowOK(l, s, p, r)
  <1>1. CASE r \in R
    BY <1>1 DEF Writing
  <1>2. CASE r = Row(k, p + 1, l[p + 1].ts, Open)
    <2>1. r.key = k /\ r.val = p + 1 /\ r.from = l[p + 1].ts /\ r.to = Open
      BY <1>2 DEF Row
    <2>2. p + 1 \in s + 1 .. p + 1 /\ p + 1 \in DOMAIN l /\ p + 1 .. p = {}
      BY HandType DEF Writing, Hand
    <2>3. k \in Promise!Touched(l[p + 1])
      BY WritingType
    <2> QED BY <2>1, <2>2, <2>3 DEF RowOK, Unreset
  <1> QED BY <1>1, <1>2 DEF PutIn

LEMMA PutFound ==
  ASSUME NEW l, NEW s, NEW p, NEW R, NEW h, NEW a, Writing(l, s, p, R, h, a), Closes(l),
         NEW k, k = l[p + 1].writes[a + 1].key, l[p + 1].writes[a + 1].put
  PROVE  FoundInv(l, s, p, PutIn(R, k, p + 1, l[p + 1].ts), h)
  <1> DEFINE Q == PutIn(R, k, p + 1, l[p + 1].ts)
  <1>0. /\ p \in Nat /\ p + 1 \in DOMAIN l /\ k \in Keys /\ k \in Promise!Touched(l[p + 1])
        /\ Hand(l, s, p) /\ a \in Nat /\ a + 1 \in DOMAIN l[p + 1].writes
        /\ l[p + 1] \in ChangeEvents(0 .. MaxTime)
    BY WritingType, HandType DEF Writing
  <1> SUFFICES ASSUME NEW kk \in Keys, NEW i \in s + 1 .. p, Promise!Puts(l[i], kk),
                      Unreset(l, i + 1 .. p), p < Len(l) => ~Promise!IsReset(l[p + 1])
               PROVE  Found(l, p, Q, h, kk, i)
    BY DEF FoundInv
  <1>1. Found(l, p, R, h, kk, i)
    BY DEF FoundInv, Writing
  <1>2. \A r \in R : r.key # k \/ r.to # Open => r \in Q
    BY DEF PutIn, CurrentIn
  <1> HIDE DEF Q
  <1>3. CASE Row(kk, i, l[i].ts, Open) \in R
    <2> DEFINE r == Row(kk, i, l[i].ts, Open)
    <2>1. r.key = kk /\ r.val = i /\ r.to = Open
      BY DEF Row
    <2>2. CASE kk # k
      BY <1>2, <1>3, <2>1, <2>2 DEF Found
    <2>3. CASE kk = k
      <3>1. i # p + 1 /\ RowOK(l, s, p, r)
        BY <1>0, <1>3 DEF Writing, Hand
      <3> HIDE DEF r
      <3>2. Supersedes(l, k, i, p + 1) /\ i \in DOMAIN l
        BY <1>0, <2>1, <2>3, <3>1, CurrentRow
      <3>3. Unreset(l, i + 1 .. p + 1)
        <4>1. \A j \in i + 1 .. p + 1 : j \in i + 1 .. p \/ j = p + 1
          BY <1>0 DEF Hand
        <4> QED BY <4>1 DEF Unreset, Writing
      <3>4. PICK w \in DOMAIN l[p + 1].writes : l[p + 1].writes[w] = [key |-> k, put |-> FALSE]
        BY <1>0, <2>3, <3>2, <3>3 DEF Closes
      <3>5. l[p + 1].writes[w].key = k /\ ~l[p + 1].writes[w].put
        BY <3>4
      <3>6. w \in Nat /\ w >= 1
        BY <1>0, EventType
      <3>7. ~(w \in 1 .. a)
        <4>1. ASSUME w \in 1 .. a PROVE FALSE
          <5>1. r \in R /\ Written(l, p + 1, a, R)
            BY <1>3 DEF r, Writing
          <5>2. r.val = p + 1
            BY <2>1, <2>3, <3>5, <4>1, <5>1 DEF Written, Done
          <5> QED BY <2>1, <3>1, <5>2
        <4> QED BY <4>1
      <3>8. a + 1 < w
        BY <1>0, <3>5, <3>6, <3>7
      <3>9. Promise!Shifts(l[p + 1])
        BY <1>0, <3>5, <3>8 DEF Promise!Shifts
      <3> QED BY <1>0, <2>3, <3>2, <3>9 DEF Found, Hand
    <2> QED BY <2>2, <2>3
  <1>4. CASE \E c \in DOMAIN l :
               /\ c <= p + 1 /\ Supersedes(l, kk, i, c)
               /\ Row(kk, i, l[i].ts, l[c].ts - 1) \in R \/ l[c].ts <= h \/ Promise!Shifts(l[c])
    <2>1. PICK c \in DOMAIN l :
               /\ c <= p + 1 /\ Supersedes(l, kk, i, c)
               /\ Row(kk, i, l[i].ts, l[c].ts - 1) \in R \/ l[c].ts <= h \/ Promise!Shifts(l[c])
      BY <1>4
    <2>2. l[c].ts \in 0 .. MaxTime
      BY <1>0, HandType
    <2>3. Row(kk, i, l[i].ts, l[c].ts - 1).to # Open
      BY <2>2, ConstantsType DEF Row
    <2> QED BY <1>2, <2>1, <2>3 DEF Found
  <1> QED BY <1>1, <1>3, <1>4 DEF Found

LEMMA PutWritten ==
  ASSUME NEW l, NEW s, NEW p, NEW R, NEW h, NEW a, Writing(l, s, p, R, h, a),
         NEW k, k = l[p + 1].writes[a + 1].key, l[p + 1].writes[a + 1].put
  PROVE  Written(l, p + 1, a + 1, PutIn(R, k, p + 1, l[p + 1].ts))
  <1> DEFINE Q == PutIn(R, k, p + 1, l[p + 1].ts)
             new == Row(k, p + 1, l[p + 1].ts, Open)
             ws == l[p + 1].writes
  <1>0. a \in Nat /\ Written(l, p + 1, a, R)
    BY DEF Writing
  <1>1. new \in Q /\ new.key = k /\ new.val = p + 1 /\ new.to = Open
    BY DEF PutIn, Row
  <1>2. \A r \in Q : r = new \/ (r \in R /\ ~(r.key = k /\ r.to = Open))
    BY DEF PutIn, CurrentIn
  <1>3. \A r \in R : r.key # k => r \in Q
    BY DEF PutIn, CurrentIn
  <1> HIDE DEF Q
  <1> SUFFICES ASSUME NEW j \in 1 .. a + 1
               PROVE  Done(p + 1, l[p + 1].ts, ws, a + 1, Q, j)
    BY DEF Written, Q
  <1>4. CASE ws[j].key = k
    <2>1. \A r \in Q : r.key = ws[j].key /\ r.to = Open => r.val = p + 1
      BY <1>1, <1>2, <1>4
    <2>2. CASE j = a + 1
      BY <1>1, <2>1, <2>2 DEF Done
    <2>3. CASE j # a + 1
      <3>1. a + 1 \in j + 1 .. a + 1
        BY <1>0, <2>3
      <3> QED BY <1>4, <2>1, <3>1 DEF Done
    <2> QED BY <2>2, <2>3
  <1>5. CASE ws[j].key # k
    <2>1. j \in 1 .. a
      BY <1>0, <1>5
    <2>2. /\ \A r \in R : r.key = ws[j].key /\ r.to = Open => r.val = p + 1
          /\ (\A i \in j + 1 .. a : ws[i].key # ws[j].key) =>
                IF ws[j].put THEN Row(ws[j].key, p + 1, l[p + 1].ts, Open) \in R
                             ELSE \A r \in R : r.key = ws[j].key => r.to # Open
      BY <1>0, <2>1 DEF Written, Done
    <2>3. \A i \in j + 1 .. a : i \in j + 1 .. a + 1
      BY <1>0
    <2>4. \A r \in Q : r.key = ws[j].key => r \in R
      BY <1>1, <1>2, <1>5
    <2>5. Row(ws[j].key, p + 1, l[p + 1].ts, Open).key = ws[j].key
      BY DEF Row
    <2> QED BY <1>3, <1>5, <2>2, <2>3, <2>4, <2>5 DEF Done
  <1> QED BY <1>4, <1>5

\* Closing the current row of key k: Q has every other row, and no current one of k.
ClosesIn(R, Q, k) ==
  /\ \A r \in R : r.key # k \/ r.to # Open => r \in Q
  /\ \A r \in Q : r.to = Open => r \in R /\ r.key # k

LEMMA CloseWritten ==
  ASSUME NEW l, NEW s, NEW p, NEW R, NEW h, NEW a, Writing(l, s, p, R, h, a),
         NEW k, k = l[p + 1].writes[a + 1].key, ~l[p + 1].writes[a + 1].put,
         NEW Q, ClosesIn(R, Q, k)
  PROVE  Written(l, p + 1, a + 1, Q)
  <1> DEFINE ws == l[p + 1].writes
  <1>0. a \in Nat /\ Written(l, p + 1, a, R)
    BY DEF Writing
  <1> SUFFICES ASSUME NEW j \in 1 .. a + 1
               PROVE  Done(p + 1, l[p + 1].ts, ws, a + 1, Q, j)
    BY DEF Written
  <1>4. CASE ws[j].key = k
    <2>1. \A r \in Q : r.key = ws[j].key => r.to # Open
      BY <1>4 DEF ClosesIn
    <2>2. CASE j = a + 1
      BY <2>1, <2>2 DEF Done
    <2>3. CASE j # a + 1
      <3>1. a + 1 \in j + 1 .. a + 1
        BY <1>0, <2>3
      <3> QED BY <1>4, <2>1, <3>1 DEF Done
    <2> QED BY <2>2, <2>3
  <1>5. CASE ws[j].key # k
    <2>1. j \in 1 .. a
      BY <1>0, <1>5
    <2>2. Done(p + 1, l[p + 1].ts, ws, a, R, j)
      BY <1>0, <2>1 DEF Written
    <2>3. \A i \in j + 1 .. a : i \in j + 1 .. a + 1
      BY <1>0
    <2>5. Row(ws[j].key, p + 1, l[p + 1].ts, Open).key = ws[j].key
      BY DEF Row
    <2> QED BY <1>5, <2>2, <2>3, <2>5 DEF Done, ClosesIn
  <1> QED BY <1>4, <1>5

\* Closing and removing, as far as CloseWritten and CloseFound need them.
LEMMA CloseInIs ==
  ASSUME NEW n \in Nat, NEW R, RowsType(R, n), NEW k \in Keys, NEW ts \in 0 .. MaxTime
  PROVE  /\ ClosesIn(R, CloseIn(R, k, ts), k) /\ ClosesIn(R, RemoveIn(R, k), k)
         /\ \A r \in CurrentIn(R, k) : Row(k, r.val, r.from, ts - 1) \in CloseIn(R, k, ts)
         /\ \A q \in CloseIn(R, k, ts) :
              \/ q \in R
              \/ \E r \in R : r.key = k /\ r.to = Open /\ q = Row(k, r.val, r.from, ts - 1)
  <1>0. \A r \in R : r \in ViewDocuments(n)
    BY DEF RowsType
  <1>1. \A r \in CurrentIn(R, k) :
          /\ r \in R /\ r.key = k /\ r.to = Open
          /\ [r EXCEPT !.to = ts - 1] = Row(k, r.val, r.from, ts - 1)
    BY <1>0, RowFields DEF CurrentIn
  <1>2. \A q \in CloseIn(R, k, ts) :
              \/ q \in R /\ ~(q.key = k /\ q.to = Open)
              \/ \E r \in R : r.key = k /\ r.to = Open /\ q = Row(k, r.val, r.from, ts - 1)
    BY <1>1 DEF CloseIn, RemoveIn, CurrentIn
  <1>3. \A r \in CurrentIn(R, k) : Row(k, r.val, r.from, ts - 1) \in CloseIn(R, k, ts)
    BY <1>1 DEF CloseIn
  <1>4. ClosesIn(R, RemoveIn(R, k), k)
    BY DEF ClosesIn, RemoveIn, CurrentIn
  <1>5. \A v, from : Row(k, v, from, ts - 1).to # Open
    BY ConstantsType DEF Row
  <1>6. ClosesIn(R, CloseIn(R, k, ts), k)
    <2>1. \A r \in R : r.key # k \/ r.to # Open => r \in CloseIn(R, k, ts)
      BY DEF CloseIn, RemoveIn, CurrentIn
    <2>2. \A r \in CloseIn(R, k, ts) : r.to = Open => r \in R /\ r.key # k
      BY <1>2, <1>5
    <2> QED BY <2>1, <2>2 DEF ClosesIn
  <1> QED BY <1>2, <1>3, <1>4, <1>6

LEMMA CloseRowOK ==
  ASSUME NEW l, NEW s, NEW p, NEW R, NEW h, NEW a, Writing(l, s, p, R, h, a),
         NEW k, k = l[p + 1].writes[a + 1].key, NEW q \in CloseIn(R, k, l[p + 1].ts)
  PROVE  RowOK(l, s, p, q)
  <1>0. /\ Hand(l, s, p) /\ k \in Keys /\ k \in Promise!Touched(l[p + 1]) /\ Len(l) \in Nat
        /\ RowsType(R, Len(l)) /\ l[p + 1].ts \in 0 .. MaxTime /\ p \in Nat /\ p + 1 \in DOMAIN l
    BY WritingType DEF Writing
  <1>1. CASE q \in R
    BY <1>1 DEF Writing
  <1>2. ASSUME NEW r \in R, r.key = k, r.to = Open, q = Row(k, r.val, r.from, l[p + 1].ts - 1)
        PROVE  RowOK(l, s, p, q)
    <2>1. RowOK(l, s, p, r)
      BY DEF Writing
    <2>2. /\ r.val \in s + 1 .. p + 1 /\ r.val \in DOMAIN l
          /\ r.from = l[r.val].ts /\ r.key \in Promise!Touched(l[r.val])
          /\ Unreset(l, r.val .. p)
      BY <2>1 DEF RowOK
    <2>3. q.key = k /\ q.val = r.val /\ q.from = r.from /\ q.to = l[p + 1].ts - 1 /\ q.to # Open
      BY <1>0, <1>2, ConstantsType DEF Row
    <2>4. p + 1 = r.val \/ (Promise!Puts(l[r.val], k) /\ Supersedes(l, k, r.val, p + 1))
      BY <1>0, <1>2, <2>1, CurrentRow
    <2>5. p + 1 <= p + 1
      BY <1>0
    <2>6. \E c \in DOMAIN l :
            /\ c <= p + 1 /\ q.to = l[c].ts - 1 /\ q.key \in Promise!Touched(l[c])
            /\ c = q.val \/ (Promise!Puts(l[q.val], q.key) /\ Supersedes(l, q.key, q.val, c))
      BY <1>0, <2>3, <2>4, <2>5
    <2> QED BY <1>2, <2>2, <2>3, <2>6 DEF RowOK
  <1>3. q \in R \/ \E r \in R : r.key = k /\ r.to = Open /\ q = Row(k, r.val, r.from, l[p + 1].ts - 1)
    BY <1>0, CloseInIs
  <1> QED BY <1>1, <1>2, <1>3

LEMMA CloseFound ==
  ASSUME NEW l, NEW s, NEW p, NEW R, NEW h, NEW a, Writing(l, s, p, R, h, a),
         NEW k, k = l[p + 1].writes[a + 1].key, NEW Q, ClosesIn(R, Q, k),
         h \in Int, NEW hh \in Int, h <= hh,
         \A r \in CurrentIn(R, k) : Row(k, r.val, r.from, l[p + 1].ts - 1) \in Q \/ l[p + 1].ts <= hh
  PROVE  FoundInv(l, s, p, Q, hh)
  <1>0. /\ p \in Nat /\ p + 1 \in DOMAIN l /\ k \in Keys /\ k \in Promise!Touched(l[p + 1])
        /\ Hand(l, s, p)
    BY WritingType DEF Writing
  <1> SUFFICES ASSUME NEW kk \in Keys, NEW i \in s + 1 .. p, Promise!Puts(l[i], kk),
                      Unreset(l, i + 1 .. p), p < Len(l) => ~Promise!IsReset(l[p + 1])
               PROVE  Found(l, p, Q, hh, kk, i)
    BY DEF FoundInv
  <1>1. Found(l, p, R, h, kk, i)
    BY DEF FoundInv, Writing
  <1>3. CASE Row(kk, i, l[i].ts, Open) \in R
    <2>1. PICK r \in R : r = Row(kk, i, l[i].ts, Open)
      BY <1>3
    <2>2. r.key = kk /\ r.val = i /\ r.to = Open /\ r.from = l[i].ts
      BY <2>1 DEF Row
    <2>3. CASE kk # k
      BY <2>1, <2>2, <2>3 DEF Found, ClosesIn
    <2>4. CASE kk = k
      <3>1. i # p + 1 /\ RowOK(l, s, p, r)
        BY <1>0 DEF Writing, Hand
      <3>2. Supersedes(l, k, i, p + 1)
        BY <1>0, <2>2, <2>4, <3>1, CurrentRow
      <3>3. r \in CurrentIn(R, k)
        BY <2>2, <2>4 DEF CurrentIn
      <3>4. Row(k, i, l[i].ts, l[p + 1].ts - 1) \in Q \/ l[p + 1].ts <= hh
        BY <2>2, <3>3
      <3>5. p + 1 <= p + 1
        BY <1>0
      <3> QED BY <1>0, <2>4, <3>2, <3>4, <3>5 DEF Found
    <2> QED BY <2>3, <2>4
  <1>4. CASE \E c \in DOMAIN l :
               /\ c <= p + 1 /\ Supersedes(l, kk, i, c)
               /\ Row(kk, i, l[i].ts, l[c].ts - 1) \in R \/ l[c].ts <= h \/ Promise!Shifts(l[c])
    <2>1. PICK c \in DOMAIN l :
               /\ c <= p + 1 /\ Supersedes(l, kk, i, c)
               /\ Row(kk, i, l[i].ts, l[c].ts - 1) \in R \/ l[c].ts <= h \/ Promise!Shifts(l[c])
      BY <1>4
    <2>2. l[c].ts \in 0 .. MaxTime /\ l[c].ts \in Int
      BY <1>0, HandType, ConstantsType
    <2>3. Row(kk, i, l[i].ts, l[c].ts - 1).to # Open
      BY <2>2, ConstantsType DEF Row
    <2>4. l[c].ts <= h => l[c].ts <= hh
      BY <2>2
    <2> QED BY <2>1, <2>3, <2>4 DEF Found, ClosesIn
  <1> QED BY <1>1, <1>3, <1>4 DEF Found

(***************************************************************************)
(* The rows, the header and the reader, step by step.                      *)
(***************************************************************************)

StoreInv == RowsInv /\ HeaderInv

LEMMA HandIs ==
  ASSUME TypeOK, wpc \in {"write", "drop", "state", "ack"}
  PROVE  Hand(topic, start, pos) /\ Event = topic[pos + 1]
  <1>1. HostType /\ GroupType
    BY TypeGroups
  <1> QED BY <1>1, TopicType, InHand DEF Hand, GroupType

LEMMA StoreInit == Init => StoreInv
  <1> SUFFICES ASSUME Init PROVE StoreInv
    OBVIOUS
  <1>1. FoundInv(topic, start, pos, rows, since)
    BY DEF Init, FoundInv
  <1> QED BY <1>1 DEF Init, StoreInv, RowsInv, HeaderInv, Idle

\* A step that leaves the store alone, and keeps its event in hand or has none to write.
LEMMA SameStore ==
  ASSUME StoreInv, UNCHANGED <<topic, start, pos, rows, since, meta>>,
         \/ wpc' = wpc /\ at' = at
         \/ wpc' \notin {"write", "ack"},
         reader' = reader \/ reader'.pc # "rows"
  PROVE  StoreInv'
  <1>1. RowsInv'
    BY DEF StoreInv, RowsInv, Event
  <1>2. HeaderInv'
    BY DEF StoreInv, HeaderInv
  <1> QED BY <1>1, <1>2 DEF StoreInv

LEMMA EmitStore ==
  ASSUME TypeOK, StoreInv, NEW kind, NEW ts, NEW w, Emit(kind, ts, w),
         UNCHANGED <<groupVars, actorVars, durable, workerVars, storeVars, reader, bounds>>
  PROVE  StoreInv'
  <1>0. HostType /\ GroupType
    BY TypeGroups
  <1>1. UNCHANGED <<start, pos, wpc, at, rows, since, meta, reader>>
    BY DEF groupVars, workerVars, storeVars
  <1>2. Grows(topic, topic')
    BY <1>0, TopicType DEF Emit, Grows, HostType
  <1>3. start \in Nat /\ pos \in start .. Len(topic)
    BY <1>0 DEF GroupType
  <1>4. \A r \in rows : RowOK(topic', start, pos, r)
    BY <1>2, <1>3, RowGrows DEF StoreInv, RowsInv
  <1>5. FoundInv(topic', start, pos, rows, since)
    BY <1>2, <1>3, FoundGrows DEF StoreInv, RowsInv
  <1>6. wpc \in {"write", "ack"} => topic'[pos + 1] = topic[pos + 1] /\ Event' = Event
    BY <1>1, <1>2, InHand DEF Grows, Event
  <1>7. RowsInv'
    BY <1>1, <1>4, <1>5, <1>6 DEF StoreInv, RowsInv, Written
  <1>8. \A seq, hts : HeaderOK(topic, pos, seq, hts) => HeaderOK(topic', pos, seq, hts)
    BY <1>2 DEF HeaderOK, Grows
  <1>9. \A j \in 1 .. pos : topic'[j] = topic[j]
    BY <1>2, <1>3 DEF Grows
  <1>10. HeaderInv'
    <2>1. ASSUME meta # NoMeta
          PROVE  \A j \in meta.seq + 1 .. pos : topic'[j].kind \notin {"change", "reset"}
      <3>1. meta.seq \in Nat
        BY <1>2, <2>1 DEF StoreInv, HeaderInv, HeaderOK, Grows
      <3> QED BY <1>3, <1>9, <2>1, <3>1 DEF StoreInv, HeaderInv
    <2> QED BY <1>1, <1>8, <2>1 DEF StoreInv, HeaderInv
  <1> QED BY <1>7, <1>10 DEF StoreInv

LEMMA ActorStore ==
  ASSUME TypeOK, WorkerInv, StoreInv,
         \/ Activate \/ OnReminder \/ Configure \/ ConfigurePersist \/ ConfigureInit
         \/ Deprovision \/ DeprovisionWait \/ Deactivate \/ DeactivateWait
         \/ InitView \/ HandleCommand \/ WorkerEnds \/ ReadRows \/ Crash
  PROVE  StoreInv'
  <1>0. UNCHANGED <<topic, start, pos, rows, since, meta>>
    BY DEF Activate, OnReminder, Configure, ConfigurePersist, ConfigureInit, Deprovision,
           DeprovisionWait, Deactivate, DeactivateWait, InitView, HandleCommand, WorkerEnds,
           ReadRows, Crash, hostVars, groupVars, storeVars
  <1>1. reader' = reader \/ reader'.pc # "rows"
    BY DEF Activate, OnReminder, Configure, ConfigurePersist, ConfigureInit, Deprovision,
           DeprovisionWait, Deactivate, DeactivateWait, InitView, HandleCommand, WorkerEnds,
           ReadRows, Crash, Idle
  <1>2. \A spec : InitWorker(spec) => \/ wpc' = wpc /\ at' = at
                                      \/ wpc' \notin {"write", "ack"}
    BY DEF InitWorker, Reconfigure
  <1>3. TakeWorker => wpc' = wpc /\ at' = at
    BY DEF TakeWorker
  <1>4. \A x : EndWith(x) => wpc' \notin {"write", "ack"}
    BY DEF EndWith
  <1>5. \/ wpc' = wpc /\ at' = at
        \/ wpc' \notin {"write", "ack"}
    BY <1>2, <1>3, <1>4
    DEF Activate, OnReminder, Configure, ConfigurePersist, ConfigureInit, Deprovision,
        DeprovisionWait, Deactivate, DeactivateWait, InitView, HandleCommand, WorkerEnds,
        ReadRows, Crash, workerVars
  <1> QED BY <1>0, <1>1, <1>5, SameStore

LEMMA OpenStreamStore ==
  ASSUME TypeOK, WorkerInv, StoreInv, OpenStream
  PROVE  StoreInv'
  <1>0. HostType /\ GroupType
    BY TypeGroups
  <1>1. UNCHANGED <<topic, rows, since, meta, reader>> /\ wpc' \notin {"write", "ack"}
    BY DEF OpenStream, hostVars, storeVars, EndWith, GotoLoop
  <1>2. CASE UNCHANGED <<start, pos>>
    BY <1>1, <1>2, SameStore
  <1>3. CASE ~joined /\ start' = Len(topic) /\ pos' = Len(topic)
    <2>1. rows = {} /\ meta = NoMeta /\ reader.pc = "idle"
      BY <1>3 DEF WorkerInv
    <2>2. FoundInv(topic, Len(topic), Len(topic), {}, since)
      BY <1>0, TopicType DEF FoundInv
    <2>3. RowsInv'
      BY <1>1, <1>3, <2>1, <2>2 DEF RowsInv
    <2>4. HeaderInv'
      BY <1>1, <2>1 DEF HeaderInv
    <2> QED BY <2>3, <2>4 DEF StoreInv
  <1> QED BY <1>2, <1>3 DEF OpenStream, groupVars

LEMMA RecvStore ==
  ASSUME TypeOK, WorkerInv, StoreInv, Recv
  PROVE  StoreInv'
  <1>1. UNCHANGED <<topic, start, pos, rows, since, meta, reader>>
    BY DEF Recv, hostVars, groupVars, storeVars
  <1>2. \A x : EndWith(x) => wpc' \notin {"write", "ack"}
    BY DEF EndWith
  <1>3. CASE wpc' \notin {"write", "ack"}
    BY <1>1, <1>3, SameStore
  <1>4. CASE wpc' \in {"write", "ack"}
    <2>1. wpc' = "write" /\ at' = 0
      BY <1>2, <1>4 DEF Recv, WorkerInv
    <2>2. Written(topic, pos + 1, 0, rows)
      BY DEF Written
    <2>3. RowsInv'
      BY <1>1, <2>1, <2>2 DEF StoreInv, RowsInv
    <2>4. HeaderInv'
      BY <1>1 DEF StoreInv, HeaderInv
    <2> QED BY <2>3, <2>4 DEF StoreInv
  <1> QED BY <1>3, <1>4

LEMMA WorkerDropStore ==
  ASSUME TypeOK, TopicInv, WorkerInv, StoreInv, WorkerDrop
  PROVE  StoreInv'
  <1>1. UNCHANGED <<topic, start, pos, reader>> /\ wpc = "drop"
    BY DEF WorkerDrop, hostVars, groupVars
  <1>2. Event = topic[pos + 1] /\ pos + 1 \in DOMAIN topic /\ Event.kind = "reset" /\ pos < Len(topic)
        /\ Event' = Event
    BY <1>1, InHand DEF WorkerInv, Event
  <1>3. CASE EndWith("Error") /\ UNCHANGED storeVars
    BY <1>1, <1>3, SameStore DEF EndWith, storeVars
  <1>4. CASE DropCollection /\ wpc' = "ack"
    <2>1. rows' = {} /\ meta' = NoMeta
      BY <1>4 DEF DropCollection
    <2>2. FoundInv(topic, start, pos, {}, since')
      BY <1>2 DEF FoundInv, Promise!IsReset
    <2>3. Event.writes = <<>> /\ Len(Event.writes) = 0
      BY <1>2 DEF TopicInv
    <2>4. Written(topic, pos + 1, 0, {})
      BY DEF Written
    <2>5. RowsInv'
      BY <1>1, <1>2, <1>4, <2>1, <2>2, <2>3, <2>4 DEF RowsInv
    <2>6. HeaderInv'
      BY <1>1, <2>1 DEF StoreInv, HeaderInv
    <2> QED BY <2>5, <2>6 DEF StoreInv
  <1> QED BY <1>3, <1>4 DEF WorkerDrop

LEMMA DeprovisionDropStore ==
  ASSUME TypeOK, WorkerInv, StoreInv, DeprovisionDrop
  PROVE  StoreInv'
  <1>0. GroupType
    BY TypeGroups
  <1>1. UNCHANGED <<topic, pos, wpc, at, reader>> /\ wpc = "none"
    BY DEF DeprovisionDrop, hostVars, workerVars, WorkerInv
  <1>2. CASE UNCHANGED <<storeVars, start>>
    BY <1>1, <1>2, SameStore DEF storeVars
  <1>3. CASE DropCollection /\ start' = pos
    <2>1. rows' = {} /\ meta' = NoMeta
      BY <1>3 DEF DropCollection
    <2>2. FoundInv(topic, pos, pos, {}, since')
      BY <1>0 DEF FoundInv, GroupType
    <2>3. RowsInv'
      BY <1>1, <1>3, <2>1, <2>2 DEF RowsInv
    <2>4. HeaderInv'
      BY <1>1, <2>1 DEF StoreInv, HeaderInv
    <2> QED BY <2>3, <2>4 DEF StoreInv
  <1> QED BY <1>2, <1>3 DEF DeprovisionDrop

LEMMA ReadHeaderStore ==
  ASSUME TypeOK, StoreInv, ReadHeader
  PROVE  StoreInv'
  <1>0. HostType /\ StoreType
    BY TypeGroups
  <1>1. UNCHANGED <<topic, start, pos, rows, since, meta, wpc, at>> /\ meta # NoMeta
    BY DEF ReadHeader, hostVars, groupVars, workerVars, storeVars
  <1>2. PICK t \in 0 .. now : reader' = [pc |-> "rows", seq |-> meta.seq, ts |-> meta.ts,
                                         at |-> IF meta.ts < t THEN meta.ts ELSE t]
    BY DEF ReadHeader
  <1>3. meta.ts \in Int /\ t \in Int
    BY <1>0, ConstantsType DEF StoreType, HostType
  <1>4. reader'.seq = meta.seq /\ reader'.ts = meta.ts /\ reader'.at <= meta.ts
    BY <1>2, <1>3
  <1>5. RowsInv'
    BY <1>1 DEF StoreInv, RowsInv, Event
  <1>6. HeaderInv'
    BY <1>1, <1>4 DEF StoreInv, HeaderInv
  <1> QED BY <1>5, <1>6 DEF StoreInv

LEMMA SetHeaderStore ==
  ASSUME TypeOK, HeaderInv, wpc \in {"write", "state"}, Event.kind \in {"change", "status"},
         SetHeader, UNCHANGED <<topic, pos, reader>>
  PROVE  /\ meta'.seq = pos + 1 /\ meta' # NoMeta /\ HeaderOK(topic, pos, meta'.seq, meta'.ts)
         /\ HeaderInv'
  <1>0. pos \in Nat /\ pos + 1 \in DOMAIN topic /\ Event = topic[pos + 1]
    BY InHand
  <1>1. meta'.seq = pos + 1 /\ meta'.ts = Event.ts /\ meta'.seq # 0
    BY <1>0 DEF SetHeader
  <1>2. meta' # NoMeta
    BY <1>1 DEF NoMeta
  <1>3. HeaderOK(topic, pos, meta'.seq, meta'.ts)
    BY <1>0, <1>1 DEF HeaderOK
  <1>4. \A j \in meta'.seq + 1 .. pos : FALSE
    BY <1>0, <1>1
  <1> QED BY <1>1, <1>2, <1>3, <1>4 DEF HeaderInv

LEMMA SetStateStore ==
  ASSUME TypeOK, TopicInv, WorkerInv, StoreInv, SetState
  PROVE  StoreInv'
  <1>1. UNCHANGED <<topic, start, pos, rows, since, reader>> /\ wpc = "state" /\ wpc' = "ack"
    BY DEF SetState, hostVars, groupVars
  <1>2. /\ Event = topic[pos + 1] /\ pos + 1 \in DOMAIN topic /\ Event.kind = "status"
        /\ Event' = Event
    BY <1>1, InHand DEF WorkerInv, Event
  <1>3. HeaderInv'
    <2>1. CASE SetHeader
      BY <1>1, <1>2, <2>1, SetHeaderStore DEF StoreInv
    <2>2. CASE UNCHANGED meta
      BY <1>1, <2>2 DEF StoreInv, HeaderInv
    <2> QED BY <2>1, <2>2 DEF SetState
  <1>4. Len(Event.writes) = 0
    BY <1>2 DEF TopicInv
  <1>5. Written(topic, pos + 1, 0, rows)
    BY DEF Written
  <1>6. RowsInv'
    BY <1>1, <1>2, <1>4, <1>5 DEF StoreInv, RowsInv
  <1> QED BY <1>3, <1>6 DEF StoreInv

LEMMA WriteHeaderStore ==
  ASSUME TypeOK, WorkerInv, StoreInv, WriteHeader
  PROVE  StoreInv'
  <1>1. UNCHANGED <<topic, start, pos, rows, since, reader>> /\ wpc = "write"
        /\ at = Len(Event.writes)
    BY DEF WriteHeader, hostVars, groupVars
  <1>2. Event = topic[pos + 1] /\ Event.kind = "change" /\ Event' = Event
    BY <1>1, InHand DEF WorkerInv, Event
  <1>3. CASE EndWith("Error") /\ UNCHANGED meta
    BY <1>1, <1>3, SameStore DEF EndWith
  <1>4. CASE SetHeader /\ wpc' = "ack"
    <2>1. HeaderInv' /\ meta'.seq = pos + 1
      BY <1>1, <1>2, <1>4, SetHeaderStore DEF StoreInv
    <2>2. RowsInv'
      BY <1>1, <1>2, <1>4, <2>1 DEF StoreInv, RowsInv
    <2> QED BY <2>1, <2>2 DEF StoreInv
  <1> QED BY <1>3, <1>4 DEF WriteHeader

LEMMA AckStore ==
  ASSUME TypeOK, TopicInv, WorkerInv, StoreInv, Ack
  PROVE  StoreInv'
  <1>1. UNCHANGED <<topic, start, rows, since, meta, reader>> /\ wpc = "ack" /\ wpc' = "loop"
    BY DEF Ack, hostVars, storeVars, GotoLoop
  <1>2. /\ Hand(topic, start, pos) /\ Event = topic[pos + 1] /\ pos \in Nat
        /\ Event.kind \in {"change", "reset", "status"}
        /\ Written(topic, pos + 1, Len(Event.writes), rows)
        /\ Event.kind = "change" => meta.seq = pos + 1
        /\ Event.kind = "reset" => rows = {} /\ meta = NoMeta
    BY <1>1, HandIs, InHand DEF WorkerInv, StoreInv, RowsInv
  <1>3. CASE pos' = pos
    BY <1>1, <1>3, SameStore
  <1>4. CASE pos' = pos + 1
    <2>1. \A r \in rows : RowOK(topic, start, pos + 1, r)
      BY <1>2, AckRows DEF StoreInv, RowsInv, Promise!IsReset
    <2>2. FoundInv(topic, start, pos + 1, rows, since)
      BY <1>2, AckFound DEF StoreInv, RowsInv
    <2>3. RowsInv'
      BY <1>1, <1>4, <2>1, <2>2 DEF RowsInv
    <2>4. \A seq, ts : HeaderOK(topic, pos, seq, ts) => HeaderOK(topic, pos + 1, seq, ts)
      <3>1. \A seq \in DOMAIN topic : seq <= pos + 1 => seq <= pos + 1 + 1
        BY <1>2 DEF Hand
      <3> QED BY <3>1 DEF HeaderOK
    <2>5. ASSUME meta # NoMeta
          PROVE  \A j \in meta.seq + 1 .. pos + 1 : topic[j].kind \notin {"change", "reset"}
      <3>1. meta.seq \in Nat /\ \A j \in meta.seq + 1 .. pos : topic[j].kind \notin {"change", "reset"}
        BY <1>2, <2>5 DEF StoreInv, HeaderInv, HeaderOK, Hand
      <3>2. SUFFICES ASSUME NEW j \in meta.seq + 1 .. pos + 1, j = pos + 1
                     PROVE  topic[j].kind \notin {"change", "reset"}
        BY <1>2, <3>1
      <3> QED BY <1>2, <2>5, <3>1, <3>2
    <2>6. HeaderInv'
      BY <1>1, <1>4, <2>4, <2>5 DEF StoreInv, HeaderInv
    <2> QED BY <2>3, <2>6 DEF StoreInv
  <1> QED BY <1>3, <1>4 DEF Ack

\* Before a row operation.
LEMMA WritingIs ==
  ASSUME TypeOK, TopicInv, WorkerInv, StoreInv, wpc = "write", at < Len(Event.writes)
  PROVE  /\ Writing(topic, start, pos, rows, since, at) /\ Closes(topic)
         /\ Event = topic[pos + 1] /\ since \in Int
  <1>0. StoreType /\ WorkerType
    BY TypeGroups
  <1>1. Hand(topic, start, pos) /\ Event = topic[pos + 1] /\ Event.kind = "change"
    BY HandIs DEF WorkerInv
  <1>2. Closes(topic)
    BY DEF TopicInv, Closes
  <1>3. ~Promise!IsReset(topic[pos + 1])
    BY <1>1 DEF Promise!IsReset
  <1>4. RowsType(rows, Len(topic)) /\ at \in Nat /\ since \in Int
    BY <1>0, ConstantsType DEF StoreType, WorkerType
  <1> QED BY <1>1, <1>2, <1>3, <1>4 DEF Writing, StoreInv, RowsInv

LEMMA WriteRowStore ==
  ASSUME TypeOK, TopicInv, WorkerInv, StoreInv, WriteRow
  PROVE  StoreInv'
  <1>1. UNCHANGED <<topic, start, pos, meta, reader>> /\ wpc = "write" /\ at < Len(Event.writes)
    BY DEF WriteRow, hostVars, groupVars
  <1>2. /\ Writing(topic, start, pos, rows, since, at) /\ Closes(topic)
        /\ Event = topic[pos + 1] /\ since \in Int
    BY <1>1, WritingIs
  <1>3. PICK w : /\ w = Event.writes[at + 1]
                 /\ \/ /\ IF w.put THEN Put(w.key) ELSE Close(w.key)
                       /\ at' = at + 1 /\ UNCHANGED wpc
                    \/ EndWith("Error") /\ UNCHANGED <<rows, since>>
    BY DEF WriteRow
  <1>4. CASE EndWith("Error") /\ UNCHANGED <<rows, since>>
    BY <1>1, <1>4, SameStore DEF EndWith
  <1>5. CASE /\ IF w.put THEN Put(w.key) ELSE Close(w.key)
             /\ at' = at + 1 /\ UNCHANGED wpc
    <2>1. /\ w.key \in Keys
          /\ w.put => rows' = PutIn(rows, w.key, pos + 1, Event.ts) /\ since' = since
          /\ ~w.put /\ policy # "Latest" =>
               rows' = CloseIn(rows, w.key, Event.ts) /\ since' = since
          /\ ~w.put /\ policy = "Latest" =>
               /\ rows' = RemoveIn(rows, w.key)
               /\ since' = since \/ since' = Event.ts
               /\ CurrentIn(rows, w.key) # {} => since' >= Event.ts
               /\ since' >= since
      BY <1>1, <1>3, <1>5, RowStep
    <2>2. w.key = topic[pos + 1].writes[at + 1].key /\ (w.put <=> topic[pos + 1].writes[at + 1].put)
      BY <1>2, <1>3
    <2>3. /\ RowsType(rows, Len(topic)) /\ Len(topic) \in Nat /\ Event.ts \in 0 .. MaxTime
          /\ Event.ts \in Int
      BY <1>2, WritingType, ConstantsType DEF Writing
    <2>4. /\ \A r \in rows' : RowOK(topic, start, pos, r)
          /\ FoundInv(topic, start, pos, rows', since')
          /\ Written(topic, pos + 1, at + 1, rows')
      <3>1. CASE w.put
        <4>1. rows' = PutIn(rows, w.key, pos + 1, topic[pos + 1].ts) /\ since' = since
          BY <1>2, <2>1, <3>1
        <4>2. \A r \in PutIn(rows, w.key, pos + 1, topic[pos + 1].ts) : RowOK(topic, start, pos, r)
          BY <1>2, <2>2, PutRowOK
        <4>3. FoundInv(topic, start, pos, PutIn(rows, w.key, pos + 1, topic[pos + 1].ts), since)
          BY <1>2, <2>2, <3>1, PutFound
        <4>4. Written(topic, pos + 1, at + 1, PutIn(rows, w.key, pos + 1, topic[pos + 1].ts))
          BY <1>2, <2>2, <3>1, PutWritten
        <4> QED BY <4>1, <4>2, <4>3, <4>4
      <3>2. CASE ~w.put /\ policy # "Latest"
        <4>1. rows' = CloseIn(rows, w.key, topic[pos + 1].ts) /\ since' = since
          BY <1>2, <2>1, <3>2
        <4>2. \A r \in CloseIn(rows, w.key, topic[pos + 1].ts) : RowOK(topic, start, pos, r)
          BY <1>2, <2>2, CloseRowOK
        <4>3. /\ ClosesIn(rows, rows', w.key)
              /\ \A r \in CurrentIn(rows, w.key) :
                   Row(w.key, r.val, r.from, topic[pos + 1].ts - 1) \in rows'
          BY <1>2, <2>1, <2>3, <4>1, CloseInIs
        <4>4. FoundInv(topic, start, pos, rows', since)
          <5>1. since <= since
            BY <1>2
          <5> QED BY <1>2, <2>2, <4>3, <5>1, CloseFound
        <4>5. Written(topic, pos + 1, at + 1, rows')
          BY <1>2, <2>2, <3>2, <4>3, CloseWritten
        <4> QED BY <4>1, <4>2, <4>4, <4>5
      <3>3. CASE ~w.put /\ policy = "Latest"
        <4>1. /\ rows' = RemoveIn(rows, w.key) /\ since' \in Int /\ since <= since'
              /\ CurrentIn(rows, w.key) # {} => topic[pos + 1].ts <= since'
          BY <1>2, <2>1, <2>3, <3>3
        <4>2. \A r \in rows' : RowOK(topic, start, pos, r)
          BY <4>1 DEF StoreInv, RowsInv, RemoveIn
        <4>3. ClosesIn(rows, rows', w.key)
          BY <1>2, <2>1, <2>3, <4>1, CloseInIs
        <4>4. \A r \in CurrentIn(rows, w.key) :
                Row(w.key, r.val, r.from, topic[pos + 1].ts - 1) \in rows' \/ topic[pos + 1].ts <= since'
          BY <4>1
        <4>5. FoundInv(topic, start, pos, rows', since')
          BY <1>2, <2>2, <4>1, <4>3, <4>4, CloseFound
        <4>6. Written(topic, pos + 1, at + 1, rows')
          BY <1>2, <2>2, <3>3, <4>3, CloseWritten
        <4> QED BY <4>2, <4>5, <4>6
      <3> QED BY <3>1, <3>2, <3>3
    <2>5. RowsInv'
      BY <1>1, <1>5, <2>4 DEF RowsInv
    <2>6. HeaderInv'
      BY <1>1 DEF StoreInv, HeaderInv
    <2> QED BY <2>5, <2>6 DEF StoreInv
  <1> QED BY <1>3, <1>4, <1>5

LEMMA CollectGarbageStore ==
  ASSUME TypeOK, WorkerInv, StoreInv, CollectGarbage
  PROVE  StoreInv'
  <1>0. HostType /\ GroupType /\ StoreType
    BY TypeGroups
  <1> DEFINE t == now - ExpireAfter
  <1>1. UNCHANGED <<topic, start, pos, meta, reader, wpc, at>> /\ Event' = Event
    BY DEF CollectGarbage, hostVars, groupVars, workerVars, Event
  <1>2. /\ t \in Int /\ t <= MaxTime /\ MaxTime \in Nat /\ Open = MaxTime + 1 /\ Open >= t
        /\ since \in Int
    BY <1>0, ConstantsType DEF HostType, StoreType
  <1>3. since' \in Int /\ since <= since' /\ t <= since'
    BY <1>2 DEF CollectGarbage, Lose
  <1>4. rows' = {r \in rows : r.to >= t}
    BY DEF CollectGarbage
  <1> HIDE DEF t
  <1>5. \A r \in rows : r.to = Open => r \in rows'
    BY <1>2, <1>4
  <1>6. FoundInv(topic, start, pos, rows', since')
    <2> SUFFICES ASSUME NEW k \in Keys, NEW i \in start + 1 .. pos,
                        Found(topic, pos, rows, since, k, i)
                 PROVE  Found(topic, pos, rows', since', k, i)
      BY DEF FoundInv, StoreInv, RowsInv
    <2>1. CASE Row(k, i, topic[i].ts, Open) \in rows
      <3>1. Row(k, i, topic[i].ts, Open).to = Open
        BY DEF Row
      <3> QED BY <1>5, <2>1, <3>1 DEF Found
    <2>2. CASE \E c \in DOMAIN topic :
                 /\ c <= pos + 1 /\ Supersedes(topic, k, i, c)
                 /\ \/ Row(k, i, topic[i].ts, topic[c].ts - 1) \in rows
                    \/ topic[c].ts <= since \/ Promise!Shifts(topic[c])
      <3>1. PICK c \in DOMAIN topic :
                 /\ c <= pos + 1 /\ Supersedes(topic, k, i, c)
                 /\ \/ Row(k, i, topic[i].ts, topic[c].ts - 1) \in rows
                    \/ topic[c].ts <= since \/ Promise!Shifts(topic[c])
        BY <2>2
      <3>2. topic[c].ts \in Int
        BY <1>0, TopicType, EventType, ConstantsType
      <3>3. topic[c].ts <= since => topic[c].ts <= since'
        BY <1>2, <1>3, <3>2
      <3>4. Row(k, i, topic[i].ts, topic[c].ts - 1).to = topic[c].ts - 1
        BY DEF Row
      <3>5. Row(k, i, topic[i].ts, topic[c].ts - 1) \in rows =>
              Row(k, i, topic[i].ts, topic[c].ts - 1) \in rows' \/ topic[c].ts <= since'
        BY <1>2, <1>3, <1>4, <3>2, <3>4
      <3> QED BY <3>1, <3>3, <3>5 DEF Found
    <2> QED BY <2>1, <2>2 DEF Found
  <1>7. ASSUME NEW n, NEW a, Written(topic, n, a, rows)
        PROVE  Written(topic, n, a, rows')
    <2>1. \A k, v, ts : Row(k, v, ts, Open).to = Open
      BY DEF Row
    <2>2. rows' \subseteq rows
      BY <1>4
    <2> QED BY <1>5, <1>7, <2>1, <2>2 DEF Written, Done
  <1>8. RowsInv'
    <2>1. \A r \in rows' : RowOK(topic, start, pos, r)
      BY <1>4 DEF StoreInv, RowsInv
    <2>2. rows = {} => rows' = {}
      BY <1>4
    <2> QED BY <1>1, <1>6, <1>7, <2>1, <2>2 DEF StoreInv, RowsInv
  <1>9. HeaderInv'
    BY <1>1 DEF StoreInv, HeaderInv
  <1> QED BY <1>8, <1>9 DEF StoreInv

LEMMA StoreStep ==
  ASSUME TypeOK, TopicInv, WorkerInv, StoreInv, [Next]_vars
  PROVE  StoreInv'
  <1>1. CASE UNCHANGED vars
    BY <1>1, SameStore DEF vars, hostVars, groupVars, workerVars, storeVars
  <1>2. CASE PublishSignal
    BY <1>2, EmitStore DEF PublishSignal
  <1>3. CASE PublishChange
    BY <1>3, EmitStore DEF PublishChange
  <1>4. CASE WorkerStep
    BY <1>4, ActorStore, OpenStreamStore, RecvStore, WorkerDropStore, SetStateStore,
       WriteRowStore, WriteHeaderStore, AckStore DEF WorkerStep
  <1>5. CASE HandlerStep
    BY <1>5, ActorStore, DeprovisionDropStore DEF HandlerStep
  <1>6. CASE \/ Activate \/ OnReminder \/ Configure \/ Deprovision \/ Deactivate
             \/ CollectGarbage \/ ReadHeader \/ ReadRows \/ Crash
    BY <1>6, ActorStore, CollectGarbageStore, ReadHeaderStore
  <1> QED BY <1>1, <1>2, <1>3, <1>4, <1>5, <1>6 DEF Next

LEMMA Inductive == Spec => []IInv
  <1>1. Init => IInv
    BY InitTypes, InitWorker0, TopicInit, StoreInit DEF IInv, StoreInv
  <1>2. IInv /\ [Next]_vars => IInv'
    BY TypeStep, WorkerInvStep, TopicStep, StoreStep DEF IInv, StoreInv
  <1> QED BY <1>1, <1>2, PTL DEF Spec

(***************************************************************************)
(* What a reader finds.                                                    *)
(***************************************************************************)

\* A log of which the view lacks the first s results and has recorded p, with rows R.
Recorded(l, s, p, R, h) ==
  /\ Len(l) \in Nat /\ DOMAIN l = 1 .. Len(l) /\ s \in Nat /\ p \in s .. Len(l)
  /\ \A i \in DOMAIN l : l[i].ts \in Int /\ (l[i].kind # "change" => l[i].writes = <<>>)
  /\ \A r \in R : RowOK(l, s, p, r)
  /\ FoundInv(l, s, p, R, h)

\* The rows R have the value v for key k at time t.
Shows(R, t, k, v) == \E r \in R : r.key = k /\ r.val = v /\ r.from <= t /\ t <= r.to

LEMMA TouchedIsChange ==
  ASSUME NEW l, NEW s, NEW p, NEW R, NEW h, Recorded(l, s, p, R, h), NEW i \in DOMAIN l, NEW k,
         k \in Promise!Touched(l[i])
  PROVE  l[i].kind = "change" /\ ~Promise!IsReset(l[i])
  BY DEF Recorded, Promise!Touched, Promise!IsReset

\* Times are in order between two changes with no reset between them.
LEMMA TimesInOrder ==
  ASSUME NEW l, NEW c \in DOMAIN l, NEW n \in DOMAIN l, DOMAIN l \subseteq Int,
         \A i \in DOMAIN l : l[i].ts \in Int, Promise!InOrder(l), c <= n,
         l[c].kind = "change", l[n].kind = "change", Unreset(l, c .. n)
  PROVE  l[c].ts <= l[n].ts
  <1>1. CASE c = n
    BY <1>1
  <1>2. CASE c # n
    <2>1. c < n
      BY <1>2
    <2>2. ~(l[n].ts < l[c].ts)
      BY <2>1 DEF Promise!InOrder, Unreset
    <2> QED BY <2>2
  <1> QED BY <1>1, <1>2

\* The rows at the time of a header show, for a key that no later result touches, the
\* key as of the result of the header.
LEMMA FreshRead ==
  ASSUME NEW l, NEW s, NEW p, NEW R, NEW h, Recorded(l, s, p, R, h),
         NEW n \in DOMAIN l, n <= p, NEW k \in Keys, l[n].ts <= Open, Open \in Int,
         Unreset(l, n + 1 .. Len(l)), Untouched(l, k, n + 1 .. Len(l)),
         \A c \in 1 .. n : l[c].kind = "change" /\ Unreset(l, c .. n) => l[c].ts <= l[n].ts,
         NEW v
  PROVE  Shows(R, l[n].ts, k, v) <=> Live(l, s, k, v, n)
  <1>0. /\ Len(l) \in Nat /\ DOMAIN l = 1 .. Len(l) /\ s \in Nat /\ p \in Nat /\ s <= p
        /\ p <= Len(l) /\ n \in Nat /\ n >= 1 /\ \A i \in DOMAIN l : l[i].ts \in Int
    BY DEF Recorded
  <1>1. ASSUME Shows(R, l[n].ts, k, v)
        PROVE  Live(l, s, k, v, n)
    <2>1. PICK r \in R : r.key = k /\ r.val = v /\ r.from <= l[n].ts /\ l[n].ts <= r.to
      BY <1>1 DEF Shows
    <2>2. RowOK(l, s, p, r)
      BY DEF Recorded
    <2>3. /\ v \in s + 1 .. p + 1 /\ v \in DOMAIN l /\ k \in Promise!Touched(l[v])
          /\ Unreset(l, v .. p) /\ (r.to = Open => v = p + 1 \/ Live(l, s, k, v, p))
      BY <2>1, <2>2 DEF RowOK
    <2>4. \A c \in DOMAIN l : k \in Promise!Touched(l[c]) => c <= n
      <3> SUFFICES ASSUME NEW c \in DOMAIN l, ~(c <= n) PROVE k \notin Promise!Touched(l[c])
        OBVIOUS
      <3>1. c \in n + 1 .. Len(l)
        BY <1>0
      <3> QED BY <3>1 DEF Untouched
    <2>5. v <= n /\ v \in s + 1 .. n
      BY <1>0, <2>3, <2>4
    <2>6. CASE r.to = Open
      <3>1. Live(l, s, k, v, p)
        BY <1>0, <2>3, <2>5, <2>6
      <3> QED BY <1>0, <2>5, <3>1, LiveShrinks
    <2>7. CASE r.to # Open
      <3>1. PICK c \in DOMAIN l :
              /\ r.to = l[c].ts - 1 /\ k \in Promise!Touched(l[c])
              /\ c = v \/ Supersedes(l, k, v, c)
        BY <2>1, <2>2, <2>7 DEF RowOK
      <3>2. v <= c /\ c <= n
        BY <1>0, <2>3, <2>4, <3>1 DEF Supersedes
      <3>3. Unreset(l, c .. n)
        BY <1>0, <2>3, <3>2 DEF Unreset
      <3>4. l[c].kind = "change"
        BY <3>1, TouchedIsChange
      <3>5. c \in 1 .. n
        BY <1>0, <3>2
      <3>6. l[c].ts <= l[n].ts
        BY <3>3, <3>4, <3>5
      <3> QED BY <1>0, <2>1, <3>1, <3>6
    <2> QED BY <2>6, <2>7
  <1>2. ASSUME Live(l, s, k, v, n)
        PROVE  Shows(R, l[n].ts, k, v)
    <2>1. /\ v \in s + 1 .. n /\ Promise!Puts(l[v], k) /\ Unreset(l, v + 1 .. n)
          /\ Untouched(l, k, v + 1 .. n) /\ v \in DOMAIN l /\ v \in 1 .. n
      BY <1>0, <1>2 DEF Live
    <2>2. Unreset(l, v + 1 .. Len(l)) /\ Untouched(l, k, v + 1 .. Len(l))
      <3>1. \A j \in v + 1 .. Len(l) : j \in v + 1 .. n \/ j \in n + 1 .. Len(l)
        BY <1>0, <2>1
      <3> QED BY <2>1, <3>1 DEF Unreset, Untouched
    <2>3. Unreset(l, v + 1 .. p) /\ v \in s + 1 .. p /\ (p < Len(l) => ~Promise!IsReset(l[p + 1]))
      BY <1>0, <2>1, <2>2 DEF Unreset
    <2>4. Found(l, p, R, h, k, v)
      BY <2>1, <2>3 DEF Recorded, FoundInv
    <2>5. \A c \in DOMAIN l : ~Supersedes(l, k, v, c)
      <3> SUFFICES ASSUME NEW c \in DOMAIN l, v < c PROVE k \notin Promise!Touched(l[c])
        BY DEF Supersedes
      <3>1. c \in v + 1 .. Len(l)
        BY <1>0, <2>1
      <3> QED BY <2>2, <3>1 DEF Untouched
    <2>6. Row(k, v, l[v].ts, Open) \in R
      BY <2>4, <2>5 DEF Found
    <2>7. l[v].kind = "change" /\ ~Promise!IsReset(l[v])
      BY <2>1, PutsTouches, TouchedIsChange
    <2>8. Unreset(l, v .. n)
      <3>1. \A j \in v .. n : j = v \/ j \in v + 1 .. n
        BY <1>0, <2>1
      <3> QED BY <2>1, <2>7, <3>1 DEF Unreset
    <2>9. l[v].ts <= l[n].ts
      BY <2>1, <2>7, <2>8
    <2> QED BY <2>6, <2>9 DEF Shows, Row
  <1> QED BY <1>1, <1>2

\* Rows of which none that was valid at time t is removed show the result n of that
\* time, the last of the log that is not later or empties the view.
LEMMA HistoryRead ==
  ASSUME NEW l, NEW s, NEW p, NEW R, NEW h, Recorded(l, s, p, R, h), Promise!InOrder(l),
         \A i \in DOMAIN l : ~Promise!Shifts(l[i]),
         NEW t \in Int, h \in Int, h <= t, t <= Open, Open \in Int, NEW n \in 0 .. p,
         n = 0 \/ Promise!IsReset(l[n]) \/ (l[n].kind = "change" /\ l[n].ts <= t),
         Unreset(l, n + 1 .. Len(l)),
         \A i \in n + 1 .. Len(l) : l[i].kind = "change" => t < l[i].ts,
         NEW k \in Keys, NEW v
  PROVE  Shows(R, t, k, v) <=> Live(l, s, k, v, n)
  <1>0. /\ Len(l) \in Nat /\ DOMAIN l = 1 .. Len(l) /\ s \in Nat /\ p \in Nat /\ s <= p
        /\ p <= Len(l) /\ n \in Nat /\ n <= p /\ \A i \in DOMAIN l : l[i].ts \in Int
    BY DEF Recorded
  <1>a. \A c \in DOMAIN l : l[c].kind = "change" /\ l[c].ts <= t => c <= n
    <2> SUFFICES ASSUME NEW c \in DOMAIN l, l[c].kind = "change", l[c].ts <= t, ~(c <= n) PROVE FALSE
      OBVIOUS
    <2>1. c \in n + 1 .. Len(l)
      BY <1>0
    <2>2. t < l[c].ts
      BY <2>1
    <2> QED BY <1>0, <2>2
  <1>b. ASSUME NEW c \in DOMAIN l, l[c].kind = "change", c <= n, Unreset(l, c .. n)
        PROVE  l[c].ts <= t
    <2>1. n \in c .. n /\ n \in DOMAIN l /\ n # 0
      BY <1>0, <1>b
    <2>2. l[n].kind = "change" /\ l[n].ts <= t
      BY <1>b, <2>1 DEF Unreset
    <2>3. l[c].ts <= l[n].ts
      <3>1. DOMAIN l \subseteq Int
        BY <1>0
      <3> QED BY <1>0, <1>b, <2>1, <2>2, <3>1, TimesInOrder
    <2> QED BY <1>0, <2>1, <2>2, <2>3
  <1>1. ASSUME Shows(R, t, k, v)
        PROVE  Live(l, s, k, v, n)
    <2>1. PICK r \in R : r.key = k /\ r.val = v /\ r.from <= t /\ t <= r.to
      BY <1>1 DEF Shows
    <2>2. RowOK(l, s, p, r)
      BY DEF Recorded
    <2>3. /\ v \in s + 1 .. p + 1 /\ v \in DOMAIN l /\ k \in Promise!Touched(l[v])
          /\ r.from = l[v].ts
          /\ Unreset(l, v .. p) /\ (r.to = Open => v = p + 1 \/ Live(l, s, k, v, p))
      BY <2>1, <2>2 DEF RowOK
    <2>4. v <= n /\ v \in s + 1 .. n
      BY <1>0, <1>a, <2>1, <2>3, TouchedIsChange
    <2>5. CASE r.to = Open
      <3>1. Live(l, s, k, v, p)
        BY <1>0, <2>3, <2>4, <2>5
      <3> QED BY <1>0, <2>4, <3>1, LiveShrinks
    <2>6. CASE r.to # Open
      <3>1. PICK c \in DOMAIN l :
              /\ r.to = l[c].ts - 1 /\ k \in Promise!Touched(l[c])
              /\ c = v \/ (Promise!Puts(l[v], k) /\ Supersedes(l, k, v, c))
        BY <2>1, <2>2, <2>6 DEF RowOK
      <3>2. ~(l[c].ts <= t) /\ c # v
        BY <1>0, <2>1, <2>3, <3>1
      <3>3. Promise!Puts(l[v], k) /\ Supersedes(l, k, v, c) /\ v < c
        BY <3>1, <3>2 DEF Supersedes
      <3>4. ~(c <= n)
        <4> SUFFICES ASSUME c <= n PROVE FALSE
          OBVIOUS
        <4>1. Unreset(l, c .. n)
          BY <1>0, <2>3, <3>3 DEF Unreset
        <4>2. l[c].kind = "change"
          BY <3>1, TouchedIsChange
        <4> QED BY <1>b, <3>2, <4>1, <4>2
      <3>5. \A j \in v + 1 .. n : j \in v + 1 .. c - 1 /\ j \in v .. p
        BY <1>0, <2>3, <3>4
      <3> QED BY <2>3, <2>4, <3>3, <3>5 DEF Live, Supersedes, Untouched, Unreset
    <2> QED BY <2>5, <2>6
  <1>2. ASSUME Live(l, s, k, v, n)
        PROVE  Shows(R, t, k, v)
    <2>1. /\ v \in s + 1 .. n /\ Promise!Puts(l[v], k) /\ Unreset(l, v + 1 .. n)
          /\ Untouched(l, k, v + 1 .. n) /\ v \in DOMAIN l /\ v <= n
      BY <1>0, <1>2 DEF Live
    <2>2. Unreset(l, v + 1 .. Len(l))
      <3>1. \A j \in v + 1 .. Len(l) : j \in v + 1 .. n \/ j \in n + 1 .. Len(l)
        BY <1>0, <2>1
      <3> QED BY <2>1, <3>1 DEF Unreset
    <2>3. Unreset(l, v + 1 .. p) /\ v \in s + 1 .. p /\ (p < Len(l) => ~Promise!IsReset(l[p + 1]))
      BY <1>0, <2>1, <2>2 DEF Unreset
    <2>4. Found(l, p, R, h, k, v)
      BY <2>1, <2>3 DEF Recorded, FoundInv
    <2>5. l[v].kind = "change" /\ ~Promise!IsReset(l[v])
      BY <2>1, PutsTouches, TouchedIsChange
    <2>6. Unreset(l, v .. n)
      <3>1. \A j \in v .. n : j = v \/ j \in v + 1 .. n
        BY <1>0, <2>1
      <3> QED BY <2>1, <2>5, <3>1 DEF Unreset
    <2>7. l[v].ts <= t
      BY <1>b, <2>1, <2>5, <2>6
    <2>8. CASE Row(k, v, l[v].ts, Open) \in R
      BY <2>7, <2>8 DEF Shows, Row
    <2>9. ASSUME NEW c \in DOMAIN l, Supersedes(l, k, v, c),
                 Row(k, v, l[v].ts, l[c].ts - 1) \in R \/ l[c].ts <= h \/ Promise!Shifts(l[c])
          PROVE  Shows(R, t, k, v)
      <3>1. v < c /\ k \in Promise!Touched(l[c])
        BY <2>9 DEF Supersedes
      <3>2. c \in n + 1 .. Len(l)
        <4>1. ~(c \in v + 1 .. n)
          BY <2>1, <3>1 DEF Untouched
        <4> QED BY <1>0, <2>1, <3>1, <4>1
      <3>3. t < l[c].ts
        BY <3>1, <3>2, TouchedIsChange
      <3>4. Row(k, v, l[v].ts, l[c].ts - 1) \in R /\ t <= l[c].ts - 1
        BY <1>0, <2>9, <3>3
      <3> QED BY <2>7, <3>4 DEF Shows, Row
    <2> QED BY <2>4, <2>8, <2>9 DEF Found
  <1> QED BY <1>1, <1>2

\* The pairs of ResultView, in terms of Live, and the rows a reader finds.
LEMMA AfterIsLive ==
  ASSUME start \in Nat, NEW n \in Nat, NEW k, NEW v
  PROVE  <<k, v>> \in Promise!After(n) <=> k \in Keys /\ Live(topic, start, k, v, n)
  BY DEF Promise!After, Live, Unreset, Untouched

LEMMA VisibleShows ==
  ASSUME NEW t, NEW k, NEW v
  PROVE  <<k, v>> \in Visible(t) <=> Shows(rows, t, k, v)
  BY DEF Visible, Shows

LEMMA SamePairs ==
  ASSUME NEW A, NEW B, \A x \in A : x = <<x[1], x[2]>> /\ x[1] \in Keys,
         \A x \in B : x = <<x[1], x[2]>> /\ x[1] \in Keys,
         \A k \in Keys : \A v : <<k, v>> \in A <=> <<k, v>> \in B
  PROVE  A = B
  <1>1. A \subseteq B
    <2> SUFFICES ASSUME NEW x \in A PROVE x \in B
      OBVIOUS
    <2>1. x = <<x[1], x[2]>> /\ x[1] \in Keys
      OBVIOUS
    <2>2. <<x[1], x[2]>> \in B
      BY <2>1, Zenon
    <2> QED BY <2>1, <2>2, Zenon
  <1>2. B \subseteq A
    <2> SUFFICES ASSUME NEW x \in B PROVE x \in A
      OBVIOUS
    <2>1. x = <<x[1], x[2]>> /\ x[1] \in Keys
      OBVIOUS
    <2>2. <<x[1], x[2]>> \in A
      BY <2>1, Zenon
    <2> QED BY <2>1, <2>2, Zenon
  <1> QED BY <1>1, <1>2

LEMMA PairsOf ==
  ASSUME TypeOK, NEW t, NEW n \in Nat
  PROVE  /\ \A x \in Visible(t) : x = <<x[1], x[2]>> /\ x[1] \in Keys
         /\ \A x \in Promise!After(n) : x = <<x[1], x[2]>> /\ x[1] \in Keys
  <1>1. rows \subseteq ViewDocuments(Len(topic))
    BY DEF TypeOK
  <1>2. \A r \in rows : r.key \in Keys
    BY <1>1 DEF ViewDocuments
  <1> QED BY <1>2 DEF Visible, Promise!After

\* The rows are those of the results acknowledged, and of the one in hand once it is
\* written.
LEMMA RecordedIs ==
  ASSUME IInv
  PROVE  /\ Recorded(topic, start, pos, rows, since)
         /\ wpc = "ack" /\ ~Promise!IsReset(topic[pos + 1]) =>
              Recorded(topic, start, pos + 1, rows, since)
  <1>0. HostType /\ GroupType
    BY TypeGroups DEF IInv
  <1>1. /\ Len(topic) \in Nat /\ DOMAIN topic = 1 .. Len(topic) /\ start \in Nat
        /\ pos \in start .. Len(topic)
        /\ \A i \in DOMAIN topic :
             topic[i].ts \in Int /\ (topic[i].kind # "change" => topic[i].writes = <<>>)
    BY <1>0, TopicType, EventType, ConstantsType DEF GroupType, IInv, TopicInv
  <1>2. Recorded(topic, start, pos, rows, since)
    BY <1>1 DEF Recorded, IInv, RowsInv
  <1>3. ASSUME wpc = "ack", ~Promise!IsReset(topic[pos + 1])
        PROVE  Recorded(topic, start, pos + 1, rows, since)
    <2>1. Hand(topic, start, pos) /\ Event = topic[pos + 1]
      BY <1>3, HandIs DEF IInv
    <2>2. /\ \A r \in rows : RowOK(topic, start, pos, r)
          /\ FoundInv(topic, start, pos, rows, since)
          /\ Written(topic, pos + 1, Len(topic[pos + 1].writes), rows)
      BY <1>3, <2>1 DEF IInv, RowsInv
    <2>3. \A r \in rows : RowOK(topic, start, pos + 1, r)
      BY <1>3, <2>1, <2>2, AckRows
    <2>4. FoundInv(topic, start, pos + 1, rows, since)
      BY <2>1, <2>2, AckFound
    <2>5. pos + 1 \in start .. Len(topic)
      BY <2>1, HandType DEF Hand
    <2> QED BY <1>1, <2>3, <2>4, <2>5 DEF Recorded
  <1> QED BY <1>2, <1>3

\* A change is not later than a header that follows it with no reset between.
LEMMA HeaderTime ==
  ASSUME IInv, Promise!InOrder(topic), NEW n \in DOMAIN topic,
         topic[n].kind \in {"change", "status"}, NEW c \in 1 .. n,
         topic[c].kind = "change", Unreset(topic, c .. n)
  PROVE  topic[c].ts <= topic[n].ts
  <1>0. Recorded(topic, start, pos, rows, since)
    BY RecordedIs
  <1>1. /\ Len(topic) \in Nat /\ DOMAIN topic = 1 .. Len(topic) /\ DOMAIN topic \subseteq Int
        /\ \A i \in DOMAIN topic : topic[i].ts \in Int
    BY <1>0 DEF Recorded
  <1>2. c \in DOMAIN topic /\ c <= n
    BY <1>1
  <1>3. CASE topic[n].kind = "change"
    BY <1>1, <1>2, <1>3, TimesInOrder
  <1>4. CASE topic[n].kind = "status"
    BY <1>4 DEF IInv, TopicInv
  <1> QED BY <1>3, <1>4

LEMMA FreshFromInv ==
  ASSUME IInv
  PROVE  ReadsAreFresh
  <1> SUFFICES ASSUME reader.pc = "rows", reader.at = reader.ts, Steady(reader.seq),
                      reader.seq <= pos \/ wpc = "ack", NEW k \in Keys,
                      \A i \in reader.seq + 1 .. Len(topic) : k \notin Promise!Touched(topic[i])
               PROVE  Of(k, Visible(reader.at)) = Of(k, Promise!After(reader.seq))
    BY DEF ReadsAreFresh
  <1> DEFINE n == reader.seq
  <1>1. /\ n \in DOMAIN topic /\ n <= pos + 1 /\ reader.ts = topic[n].ts
        /\ topic[n].kind \in {"change", "status"}
    BY DEF IInv, HeaderInv, HeaderOK
  <1>2. Recorded(topic, start, pos, rows, since)
    BY RecordedIs
  <1>3. /\ Len(topic) \in Nat /\ DOMAIN topic = 1 .. Len(topic) /\ pos \in Nat /\ n \in Nat
        /\ start \in Nat /\ topic[n].ts <= Open /\ Open \in Int
    <2>1. HostType
      BY TypeGroups DEF IInv
    <2>2. topic[n].ts \in 0 .. MaxTime
      BY <1>1, <2>1, TopicType, EventType
    <2> QED BY <1>1, <1>2, <2>2, ConstantsType DEF Recorded
  <1>4. Promise!InOrder(topic) /\ Unreset(topic, n + 1 .. Len(topic))
        /\ Untouched(topic, k, n + 1 .. Len(topic))
    BY DEF Steady, Unreset, Untouched
  <1>5. \A c \in 1 .. n :
          topic[c].kind = "change" /\ Unreset(topic, c .. n) => topic[c].ts <= topic[n].ts
    BY <1>1, <1>4, HeaderTime
  <1>6. \E p \in {pos, pos + 1} : Recorded(topic, start, p, rows, since) /\ n <= p
    <2>1. CASE n <= pos
      BY <1>2, <2>1
    <2>2. CASE ~(n <= pos)
      <3>1. n = pos + 1 /\ wpc = "ack"
        BY <1>1, <1>3, <2>2
      <3>2. ~Promise!IsReset(topic[pos + 1])
        BY <1>1, <3>1 DEF Promise!IsReset
      <3> QED BY <1>1, <3>1, <3>2, RecordedIs
    <2> QED BY <2>1, <2>2
  <1> HIDE DEF n
  <1>7. PICK p : Recorded(topic, start, p, rows, since) /\ n <= p
    BY <1>6
  <1>8. \A v : Shows(rows, topic[n].ts, k, v) <=> Live(topic, start, k, v, n)
    BY <1>1, <1>3, <1>4, <1>5, <1>7, FreshRead
  <1>9. \A v : <<k, v>> \in Visible(topic[n].ts) <=> <<k, v>> \in Promise!After(n)
    BY <1>3, <1>8, AfterIsLive, VisibleShows
  <1>10. /\ \A x \in Visible(topic[n].ts) : x = <<x[1], x[2]>>
         /\ \A x \in Promise!After(n) : x = <<x[1], x[2]>>
    BY <1>3, PairsOf DEF IInv
  <1>11. Of(k, Visible(topic[n].ts)) = Of(k, Promise!After(n))
    BY <1>9, <1>10 DEF Of
  <1> QED BY <1>1, <1>11 DEF n

\* A reader of the view as it is now finds, for each key, the result of the header it
\* has read, or a later result that will be delivered touches that key.
THEOREM ReadsStayFresh == Spec => []ReadsAreFresh
  BY Inductive, FreshFromInv, PTL

LEMMA HistoryFromInv ==
  ASSUME IInv
  PROVE  HistoryIsExact
  <1> DEFINE t == reader.at
             m == reader.seq
  <1> SUFFICES ASSUME reader.pc = "rows", t < reader.ts, since <= t, Steady(m),
                      \A i \in DOMAIN topic : ~Promise!Shifts(topic[i]),
                      \A i \in m + 1 .. Len(topic) : t < topic[i].ts,
                      NEW n \in 0 .. m, LastAt(n, t)
               PROVE  Visible(t) = Promise!After(n)
    BY DEF HistoryIsExact
  <1>1. /\ m \in DOMAIN topic /\ m <= pos + 1 /\ reader.ts = topic[m].ts
        /\ topic[m].kind \in {"change", "status"}
    BY DEF IInv, HeaderInv, HeaderOK
  <1>2. Recorded(topic, start, pos, rows, since)
    BY RecordedIs
  <1>3. /\ Len(topic) \in Nat /\ DOMAIN topic = 1 .. Len(topic) /\ pos \in Nat /\ m \in Nat
        /\ start \in Nat /\ t \in Int /\ t <= Open /\ Open \in Int /\ since \in Int
        /\ topic[m].ts \in Int
    <2>1. StoreType /\ ReaderType
      BY TypeGroups DEF IInv
    <2>2. t \in 0 .. MaxTime
      BY <2>1 DEF ReaderType
    <2> QED BY <1>1, <1>2, <2>1, <2>2, ConstantsType DEF Recorded, StoreType
  <1>4. /\ n = 0 \/ Promise!IsReset(topic[n]) \/ (topic[n].kind = "change" /\ topic[n].ts <= t)
        /\ \A i \in n + 1 .. m : /\ ~Promise!IsReset(topic[i])
                                 /\ ~(topic[i].kind = "change" /\ topic[i].ts <= t)
    BY DEF LastAt
  <1>5. n # m
    BY <1>1, <1>3, <1>4 DEF Promise!IsReset
  <1>6. n \in 0 .. pos /\ n \in Nat
    BY <1>1, <1>3, <1>5
  <1>7. \A i \in n + 1 .. Len(topic) : i \in n + 1 .. m \/ i \in m + 1 .. Len(topic)
    BY <1>3, <1>6
  <1>8. Promise!InOrder(topic) /\ Unreset(topic, n + 1 .. Len(topic))
    BY <1>4, <1>7 DEF Steady, Unreset
  <1>9. \A i \in n + 1 .. Len(topic) : topic[i].kind = "change" => t < topic[i].ts
    <2>1. \A i \in n + 1 .. Len(topic) : topic[i].ts \in Int
      BY <1>2, <1>3, <1>6 DEF Recorded
    <2> QED BY <1>3, <1>4, <1>7, <2>1
  <1> HIDE DEF t, m
  <1>10. \A k \in Keys : \A v : Shows(rows, t, k, v) <=> Live(topic, start, k, v, n)
    BY <1>2, <1>3, <1>4, <1>6, <1>8, <1>9, HistoryRead
  <1>11. \A k \in Keys : \A v : <<k, v>> \in Visible(t) <=> <<k, v>> \in Promise!After(n)
    BY <1>3, <1>6, <1>10, AfterIsLive, VisibleShows
  <1>12. /\ \A x \in Visible(t) : x = <<x[1], x[2]>> /\ x[1] \in Keys
         /\ \A x \in Promise!After(n) : x = <<x[1], x[2]>> /\ x[1] \in Keys
    BY <1>6, PairsOf DEF IInv
  <1> QED BY <1>11, <1>12, SamePairs

\* A read of a past time finds the result of that time, as long as no row of it was
\* removed and no result has put a key before closing it.
THEOREM HistoryStaysExact == Spec => []HistoryIsExact
  BY Inductive, HistoryFromInv, PTL

(***************************************************************************)
(* The view implements ResultView.  First the steps of ResultView in terms *)
(* of the variables of the view, then what each step of the view is.       *)
(***************************************************************************)

\* The rows R at the time of the header m.
Pairs(R, t) == {<<r.key, r.val>> : r \in {q \in R : q.from <= t /\ t <= q.to}}
ContentsOf(m, R) == IF m = NoMeta THEN {} ELSE Pairs(R, m.ts)

LEMMA IsOutside ==
  ASSUME HostType, topic' = topic \/ \E e : topic' = Append(topic, e),
         start' = start \/ (start' = Len(topic) /\ meta = NoMeta), UNCHANGED <<rows, meta>>
  PROVE  Promise!Next
  <1>1. \/ topic' = topic
        \/ \E e \in {topic'[Len(topic')]} : topic' = Append(topic, e)
    <2>1. ASSUME NEW e, topic' = Append(topic, e)
          PROVE  topic'[Len(topic')] = e
      BY <2>1 DEF HostType
    <2> QED BY <2>1
  <1>2. Promise!Outside
    BY <1>1 DEF Promise!Outside, Visible
  <1> QED BY <1>2 DEF Promise!Next

LEMMA IsComplete ==
  ASSUME meta'.seq >= meta.seq, meta'.seq \in start + 1 .. Len(topic),
         ContentsOf(meta', rows') = Promise!After(meta'.seq), UNCHANGED <<topic, start, policy>>
  PROVE  Promise!Next
  BY DEF Promise!Next, Promise!Complete, ContentsOf, Pairs, Visible

LEMMA IsRewrite ==
  ASSUME meta.seq > 0, NEW n \in meta.seq .. Len(topic), policy = "All" => topic[n].ts <= meta.ts,
         \A k \in Keys \ Promise!Touched(topic[n]) :
            {x \in ContentsOf(meta, rows') : x[1] = k} = {x \in ContentsOf(meta, rows) : x[1] = k},
         UNCHANGED <<topic, start, meta, policy>>
  PROVE  Promise!Next
  BY DEF Promise!Next, Promise!Rewrite, ContentsOf, Pairs, Visible

LEMMA IsReset ==
  ASSUME meta' = NoMeta, start' \in start .. Len(topic), UNCHANGED <<topic, policy>>
  PROVE  Promise!Next
  BY DEF Promise!Next, Promise!Reset, NoMeta, Visible

LEMMA IsStutter ==
  ASSUME ContentsOf(meta, rows') = ContentsOf(meta, rows), UNCHANGED <<topic, start, meta, policy>>
  PROVE  UNCHANGED Promise!vars
  BY DEF Promise!vars, ContentsOf, Pairs, Visible

LEMMA PairsShow ==
  ASSUME NEW R, NEW t
  PROVE  /\ \A k, v : <<k, v>> \in Pairs(R, t) <=> Shows(R, t, k, v)
         /\ \A x \in Pairs(R, t) : x = <<x[1], x[2]>>
  BY DEF Pairs, Shows

\* Rows R of which all that they show of the keys S, others Q show as well.
LEMMA ShowsMore ==
  ASSUME NEW R, NEW Q, NEW t, NEW S,
         \A k \in S : \A v : Shows(R, t, k, v) => Shows(Q, t, k, v)
  PROVE  \A x \in Pairs(R, t) : x[1] \in S => x \in Pairs(Q, t)
  <1> SUFFICES ASSUME NEW x \in Pairs(R, t), x[1] \in S PROVE x \in Pairs(Q, t)
    OBVIOUS
  <1>1. x = <<x[1], x[2]>>
    BY PairsShow
  <1>2. Shows(R, t, x[1], x[2])
    BY <1>1, PairsShow, Zenon
  <1>3. <<x[1], x[2]>> \in Pairs(Q, t)
    BY <1>2, PairsShow, Zenon
  <1> QED BY <1>1, <1>3, Zenon

\* Rows that show the same of a key, or of every key.
LEMMA SameOf ==
  ASSUME NEW R, NEW Q, NEW m, NEW k, \A v : Shows(R, m.ts, k, v) <=> Shows(Q, m.ts, k, v)
  PROVE  {x \in ContentsOf(m, R) : x[1] = k} = {x \in ContentsOf(m, Q) : x[1] = k}
  <1>0. \A kk \in {k} : \A v : Shows(R, m.ts, kk, v) <=> Shows(Q, m.ts, kk, v)
    OBVIOUS
  <1>1. \A x \in Pairs(R, m.ts) : x[1] \in {k} => x \in Pairs(Q, m.ts)
    BY <1>0, ShowsMore
  <1>2. \A x \in Pairs(Q, m.ts) : x[1] \in {k} => x \in Pairs(R, m.ts)
    BY <1>0, ShowsMore
  <1> QED BY <1>1, <1>2 DEF ContentsOf

LEMMA SameContents ==
  ASSUME NEW n, NEW R, R \subseteq ViewDocuments(n), NEW Q, Q \subseteq ViewDocuments(n), NEW m,
         \A k \in Keys : \A v : Shows(R, m.ts, k, v) <=> Shows(Q, m.ts, k, v)
  PROVE  ContentsOf(m, R) = ContentsOf(m, Q)
  <1>1. \A x \in Pairs(R, m.ts) : x[1] \in Keys => x \in Pairs(Q, m.ts)
    BY ShowsMore
  <1>2. \A x \in Pairs(Q, m.ts) : x[1] \in Keys => x \in Pairs(R, m.ts)
    BY ShowsMore
  <1>3. \A x \in Pairs(R, m.ts) \cup Pairs(Q, m.ts) : x[1] \in Keys
    BY DEF Pairs, ViewDocuments
  <1> QED BY <1>1, <1>2, <1>3 DEF ContentsOf

\* The rows once every write of the result in hand is done: at its time they show what
\* the view has after it.
LEMMA WrittenRead ==
  ASSUME NEW l, NEW s, NEW p, Hand(l, s, p), NEW R, NEW h, \A r \in R : RowOK(l, s, p, r),
         FoundInv(l, s, p, R, h), Written(l, p + 1, Len(l[p + 1].writes), R),
         ~Promise!IsReset(l[p + 1]), \A i \in DOMAIN l : l[i].kind # "change" => l[i].writes = <<>>,
         \A c \in 1 .. p + 1 :
           l[c].kind = "change" /\ Unreset(l, c .. p + 1) => l[c].ts <= l[p + 1].ts,
         NEW k \in Keys, NEW v
  PROVE  Shows(R, l[p + 1].ts, k, v) <=> Live(l, s, k, v, p + 1)
  <1>0. /\ Len(l) \in Nat /\ DOMAIN l = 1 .. Len(l) /\ s \in Nat /\ p \in Nat /\ s <= p
        /\ p + 1 \in DOMAIN l /\ \A i \in DOMAIN l : l[i].ts \in 0 .. MaxTime
    <2>1. p + 1 \in DOMAIN l /\ \A i \in DOMAIN l : l[i].ts \in 0 .. MaxTime
      BY HandType
    <2>2. Len(l) \in Nat /\ DOMAIN l = 1 .. Len(l) /\ s \in Nat /\ p \in Nat /\ s <= p
      BY DEF Hand
    <2> QED BY <2>1, <2>2
  <1>1. \A i \in DOMAIN l : k \in Promise!Touched(l[i]) =>
          l[i].kind = "change" /\ ~Promise!IsReset(l[i])
    <2> SUFFICES ASSUME NEW i \in DOMAIN l, k \in Promise!Touched(l[i])
                 PROVE  l[i].kind = "change" /\ ~Promise!IsReset(l[i])
      OBVIOUS
    <2>1. l[i].kind # "change" => l[i].writes = <<>>
      OBVIOUS
    <2> QED BY <2>1 DEF Promise!Touched, Promise!IsReset
  <1>2. ASSUME Shows(R, l[p + 1].ts, k, v)
        PROVE  Live(l, s, k, v, p + 1)
    <2>1. PICK r \in R : r.key = k /\ r.val = v /\ r.from <= l[p + 1].ts /\ l[p + 1].ts <= r.to
      BY <1>2 DEF Shows
    <2>2. CASE r.to = Open
      BY <2>1, <2>2, AckRows
    <2>3. CASE r.to # Open
      <3>1. PICK c \in DOMAIN l :
              /\ c <= p + 1 /\ r.to = l[c].ts - 1 /\ k \in Promise!Touched(l[c])
              /\ c = v \/ Supersedes(l, k, v, c)
        BY <2>1, <2>3 DEF RowOK
      <3>2. v \in DOMAIN l /\ v <= c /\ Unreset(l, v .. p)
        BY <1>0, <2>1, <3>1 DEF RowOK, Supersedes
      <3>3. Unreset(l, c .. p + 1)
        <4>1. \A j \in c .. p + 1 : j \in v .. p \/ j = p + 1
          BY <1>0, <3>2
        <4> QED BY <3>2, <4>1 DEF Unreset
      <3>4. c \in 1 .. p + 1 /\ l[c].kind = "change"
        BY <1>0, <1>1, <3>1
      <3>5. l[c].ts <= l[p + 1].ts
        BY <3>3, <3>4
      <3> QED BY <1>0, <2>1, <3>1, <3>5
    <2> QED BY <2>2, <2>3
  <1>3. ASSUME Live(l, s, k, v, p + 1)
        PROVE  Shows(R, l[p + 1].ts, k, v)
    <2>1. /\ v \in s + 1 .. p + 1 /\ v \in DOMAIN l /\ Promise!Puts(l[v], k)
          /\ Unreset(l, v + 1 .. p + 1) /\ Untouched(l, k, v + 1 .. p + 1)
      BY <1>0, <1>3 DEF Live
    <2>2. Row(k, v, l[v].ts, Open) \in R
      <3>1. CASE v = p + 1
        BY <2>1, <3>1, PutsTouches, WrittenAll
      <3>2. CASE v # p + 1
        <4>1. v \in s + 1 .. p /\ \A j \in v + 1 .. p : j \in v + 1 .. p + 1
          BY <1>0, <2>1, <3>2
        <4>2. Found(l, p, R, h, k, v)
          BY <2>1, <4>1 DEF FoundInv, Unreset
        <4>3. \A c \in DOMAIN l : c <= p + 1 => ~Supersedes(l, k, v, c)
          BY <1>0, <2>1, <4>1 DEF Supersedes, Untouched
        <4> QED BY <4>2, <4>3 DEF Found
      <3> QED BY <3>1, <3>2
    <2>3. Unreset(l, v .. p + 1) /\ l[v].kind = "change"
      <3>1. \A j \in v .. p + 1 : j = v \/ j \in v + 1 .. p + 1
        BY <1>0, <2>1
      <3> QED BY <1>1, <2>1, <3>1, PutsTouches DEF Unreset
    <2>4. l[v].ts <= l[p + 1].ts /\ l[p + 1].ts <= Open
      BY <1>0, <2>1, <2>3, ConstantsType
    <2> QED BY <2>2, <2>4 DEF Shows, Row
  <1> QED BY <1>2, <1>3

\* A row operation leaves the other keys alone.
LEMMA OthersShow ==
  ASSUME NEW R, NEW Q, NEW k, NEW kk, kk # k, \A r \in R : r.key = k \/ r \in Q,
         \A q \in Q : q.key = k \/ q \in R, NEW t, NEW v
  PROVE  Shows(Q, t, kk, v) <=> Shows(R, t, kk, v)
  BY DEF Shows

LEMMA RowOperation ==
  ASSUME NEW n \in Nat, NEW R, RowsType(R, n), NEW k \in Keys, NEW v, NEW ts \in 0 .. MaxTime,
         NEW Q \in {PutIn(R, k, v, ts), CloseIn(R, k, ts), RemoveIn(R, k)}
  PROVE  (\A r \in R : r.key = k \/ r \in Q) /\ (\A q \in Q : q.key = k \/ q \in R)
  <1>1. CASE Q = PutIn(R, k, v, ts)
    BY <1>1 DEF PutIn, CurrentIn, Row
  <1>2. CASE Q = RemoveIn(R, k)
    BY <1>2 DEF RemoveIn, CurrentIn
  <1>3. CASE Q = CloseIn(R, k, ts)
    <2>1. \A q \in Q : q \in R \/ q.key = k
      BY <1>3, CloseInIs DEF Row
    <2>2. \A r \in R : r.key = k \/ r \in Q
      BY <1>3 DEF CloseIn, RemoveIn, CurrentIn
    <2> QED BY <2>1, <2>2
  <1> QED BY <1>1, <1>2, <1>3

\* At an earlier time than that of the result in hand, closing a row changes nothing ...
LEMMA CloseKeepsPast ==
  ASSUME NEW n \in Nat, NEW R, RowsType(R, n), NEW k \in Keys, NEW ts \in 0 .. MaxTime,
         NEW t \in Int, t < ts, NEW kk, NEW v
  PROVE  Shows(CloseIn(R, k, ts), t, kk, v) <=> Shows(R, t, kk, v)
  <1>0. ts \in Int /\ t <= ts - 1 /\ t <= Open
    BY ConstantsType
  <1>1. ASSUME Shows(R, t, kk, v)
        PROVE  Shows(CloseIn(R, k, ts), t, kk, v)
    <2>1. PICK r \in R : r.key = kk /\ r.val = v /\ r.from <= t /\ t <= r.to
      BY <1>1 DEF Shows
    <2>2. CASE r \in CurrentIn(R, k)
      <3>1. Row(k, r.val, r.from, ts - 1) \in CloseIn(R, k, ts) /\ r.key = k
        BY <2>2, CloseInIs DEF CurrentIn
      <3> QED BY <1>0, <2>1, <3>1 DEF Shows, Row
    <2>3. CASE r \notin CurrentIn(R, k)
      BY <2>1, <2>3 DEF CloseIn, RemoveIn, Shows
    <2> QED BY <2>2, <2>3
  <1>2. ASSUME Shows(CloseIn(R, k, ts), t, kk, v)
        PROVE  Shows(R, t, kk, v)
    <2>1. PICK q \in CloseIn(R, k, ts) : q.key = kk /\ q.val = v /\ q.from <= t /\ t <= q.to
      BY <1>2 DEF Shows
    <2>2. CASE q \in R
      BY <2>1, <2>2 DEF Shows
    <2>3. ASSUME NEW r \in R, r.key = k, r.to = Open, q = Row(k, r.val, r.from, ts - 1)
          PROVE  Shows(R, t, kk, v)
      BY <1>0, <2>1, <2>3 DEF Shows, Row
    <2> QED BY <2>2, <2>3, CloseInIs
  <1> QED BY <1>1, <1>2

\* ... and neither does putting one: unless the result puts a key before it closes it,
\* the row it writes over is its own.
LEMMA PutKeepsPast ==
  ASSUME NEW l, NEW s, NEW p, NEW R, NEW h, NEW a, Writing(l, s, p, R, h, a), Closes(l),
         NEW k, k = l[p + 1].writes[a + 1].key, l[p + 1].writes[a + 1].put,
         ~Promise!Shifts(l[p + 1]), NEW t \in Int, t < l[p + 1].ts, NEW kk, NEW v
  PROVE  Shows(PutIn(R, k, p + 1, l[p + 1].ts), t, kk, v) <=> Shows(R, t, kk, v)
  <1>0. /\ p \in Nat /\ p + 1 \in DOMAIN l /\ k \in Keys /\ k \in Promise!Touched(l[p + 1])
        /\ Hand(l, s, p) /\ a \in Nat /\ a + 1 \in DOMAIN l[p + 1].writes
        /\ l[p + 1] \in ChangeEvents(0 .. MaxTime) /\ l[p + 1].ts \in 0 .. MaxTime
    BY WritingType, HandType DEF Writing
  <1>1. ASSUME NEW r \in CurrentIn(R, k)
        PROVE  r.from = l[p + 1].ts
    <2>1. r \in R /\ r.key = k /\ r.to = Open /\ RowOK(l, s, p, r)
      BY DEF CurrentIn, Writing
    <2>2. CASE r.val = p + 1
      BY <2>1, <2>2 DEF RowOK
    <2>3. CASE r.val # p + 1
      <3>1. /\ Promise!Puts(l[r.val], k) /\ Supersedes(l, k, r.val, p + 1)
            /\ r.val \in DOMAIN l /\ Unreset(l, r.val + 1 .. p)
        BY <1>0, <2>1, <2>3, CurrentRow
      <3>2. Unreset(l, r.val + 1 .. p + 1)
        <4>1. \A j \in r.val + 1 .. p + 1 : j \in r.val + 1 .. p \/ j = p + 1
          BY <1>0, <3>1 DEF Hand
        <4> QED BY <3>1, <4>1 DEF Unreset, Writing
      <3>3. PICK w \in DOMAIN l[p + 1].writes : l[p + 1].writes[w] = [key |-> k, put |-> FALSE]
        BY <1>0, <3>1, <3>2 DEF Closes
      <3>4. l[p + 1].writes[w].key = k /\ ~l[p + 1].writes[w].put /\ w \in Nat /\ w >= 1
        BY <1>0, <3>3, EventType
      <3>5. ~(a + 1 < w)
        BY <1>0, <3>4 DEF Promise!Shifts
      <3>6. w \in 1 .. a
        BY <1>0, <3>4, <3>5
      <3>7. r.val = p + 1
        BY <2>1, <3>4, <3>6 DEF Writing, Written, Done
      <3> QED BY <2>3, <3>7
    <2> QED BY <2>2, <2>3
  <1>2. l[p + 1].ts \in Int /\ ~(l[p + 1].ts <= t)
    BY <1>0
  <1> QED BY <1>1, <1>2 DEF Shows, PutIn, Row

LEMMA HeaderPromise ==
  ASSUME IInv, Promise!InOrder(topic), wpc \in {"write", "state"},
         wpc = "write" => at = Len(Event.writes), SetHeader, UNCHANGED <<topic, start, rows, policy>>
  PROVE  Promise!Next
  <1>1. Hand(topic, start, pos) /\ Event = topic[pos + 1]
    BY HandIs DEF IInv
  <1>2. /\ pos \in Nat /\ pos + 1 \in DOMAIN topic /\ start \in Nat /\ pos >= start
        /\ Len(topic) \in Nat /\ pos + 1 <= Len(topic) /\ pos + 1 \in Nat
    BY <1>1, HandType DEF Hand
  <1>3. meta'.seq = pos + 1 /\ meta'.ts = topic[pos + 1].ts /\ meta' # NoMeta
    BY <1>1, <1>2 DEF SetHeader, NoMeta
  <1>4. Event.kind \in {"change", "status"}
    BY DEF IInv, WorkerInv
  <1>5. \A i \in DOMAIN topic : topic[i].kind # "change" => topic[i].writes = <<>>
    BY DEF IInv, TopicInv
  <1>6. Written(topic, pos + 1, Len(topic[pos + 1].writes), rows)
    <2>1. CASE wpc = "write"
      BY <1>1, <2>1 DEF IInv, RowsInv
    <2>2. CASE wpc = "state"
      <3>1. Event.kind = "status"
        BY <2>2 DEF IInv, WorkerInv
      <3>2. Len(topic[pos + 1].writes) = 0
        BY <1>1, <1>2, <1>5, <3>1
      <3> QED BY <3>2 DEF Written
    <2> QED BY <2>1, <2>2
  <1>7. \A c \in 1 .. pos + 1 :
          topic[c].kind = "change" /\ Unreset(topic, c .. pos + 1) =>
            topic[c].ts <= topic[pos + 1].ts
    BY <1>1, <1>2, <1>4, HeaderTime
  <1>8. ~Promise!IsReset(topic[pos + 1])
    BY <1>1, <1>4 DEF Promise!IsReset
  <1>9. \A k \in Keys : \A v :
          Shows(rows, topic[pos + 1].ts, k, v) <=> Live(topic, start, k, v, pos + 1)
    BY <1>1, <1>5, <1>6, <1>7, <1>8, WrittenRead DEF IInv, RowsInv
  <1>10. \A k \in Keys : \A v :
          <<k, v>> \in Visible(topic[pos + 1].ts) <=> <<k, v>> \in Promise!After(pos + 1)
    BY <1>2, <1>9, AfterIsLive, VisibleShows
  <1>11. Visible(topic[pos + 1].ts) = Promise!After(pos + 1)
    <2>1. /\ \A x \in Visible(topic[pos + 1].ts) : x = <<x[1], x[2]>> /\ x[1] \in Keys
          /\ \A x \in Promise!After(pos + 1) : x = <<x[1], x[2]>> /\ x[1] \in Keys
      BY <1>2, PairsOf DEF IInv
    <2> QED BY <1>10, <2>1, SamePairs
  <1>12. ContentsOf(meta', rows') = Promise!After(meta'.seq)
    BY <1>3, <1>11 DEF ContentsOf, Pairs, Visible
  <1>13. meta'.seq >= meta.seq
    <2>1. CASE meta = NoMeta
      BY <1>2, <1>3, <2>1 DEF NoMeta
    <2>2. CASE meta # NoMeta
      BY <1>2, <1>3, <2>2 DEF IInv, HeaderInv, HeaderOK
    <2> QED BY <2>1, <2>2
  <1>14. meta'.seq \in start + 1 .. Len(topic)
    BY <1>2, <1>3
  <1> QED BY <1>12, <1>13, <1>14, IsComplete

\* A header is of the event in hand or an earlier one.
LEMMA MetaType ==
  ASSUME IInv, meta # NoMeta
  PROVE  /\ meta.seq \in DOMAIN topic /\ meta.seq > 0 /\ meta.seq <= pos + 1 /\ meta.ts \in Int
         /\ meta.ts = topic[meta.seq].ts /\ topic[meta.seq].kind \in {"change", "status"}
         /\ Len(topic) \in Nat /\ DOMAIN topic = 1 .. Len(topic) /\ pos \in Nat
  <1>1. Recorded(topic, start, pos, rows, since)
    BY RecordedIs
  <1> QED BY <1>1 DEF Recorded, IInv, HeaderInv, HeaderOK

LEMMA WriteRowPromise ==
  ASSUME IInv, Promise!Orderly(topic), WriteRow
  PROVE  Promise!Next \/ UNCHANGED Promise!vars
  <1>0. TypeOK /\ TopicInv /\ WorkerInv /\ StoreInv
    BY DEF IInv, StoreInv
  <1>1. UNCHANGED <<topic, start, meta, policy>> /\ wpc = "write" /\ at < Len(Event.writes)
    BY DEF WriteRow, hostVars, groupVars
  <1>2. /\ Writing(topic, start, pos, rows, since, at) /\ Closes(topic)
        /\ Event = topic[pos + 1] /\ since \in Int
    BY <1>0, <1>1, WritingIs
  <1>3. PICK w : /\ w = Event.writes[at + 1]
                 /\ (IF w.put THEN Put(w.key) ELSE Close(w.key)) \/ UNCHANGED <<rows, since>>
    BY DEF WriteRow
  <1>4. CASE UNCHANGED <<rows, since>>
    BY <1>1, <1>4, IsStutter
  <1>5. CASE IF w.put THEN Put(w.key) ELSE Close(w.key)
    <2>1. /\ w.key \in Keys
          /\ w.put => rows' = PutIn(rows, w.key, pos + 1, Event.ts)
          /\ ~w.put /\ policy # "Latest" => rows' = CloseIn(rows, w.key, Event.ts)
          /\ ~w.put /\ policy = "Latest" => rows' = RemoveIn(rows, w.key)
      BY <1>0, <1>1, <1>3, <1>5, RowStep
    <2>2. w.key = topic[pos + 1].writes[at + 1].key /\ (w.put <=> topic[pos + 1].writes[at + 1].put)
      BY <1>2, <1>3
    <2>3. /\ RowsType(rows, Len(topic)) /\ Len(topic) \in Nat /\ Event.ts \in 0 .. MaxTime
          /\ pos + 1 \in DOMAIN topic /\ w.key \in Promise!Touched(topic[pos + 1])
      BY <1>2, <2>2, WritingType DEF Writing
    <2>4. CASE meta = NoMeta
      <3>1. ContentsOf(meta, rows') = ContentsOf(meta, rows)
        BY <2>4 DEF ContentsOf
      <3> QED BY <1>1, <3>1, IsStutter
    <2>5. CASE meta # NoMeta /\ (policy = "All" => topic[pos + 1].ts <= meta.ts)
      <3>1. pos + 1 \in meta.seq .. Len(topic) /\ meta.seq > 0
        BY <2>3, <2>5, MetaType
      <3>2. (\A r \in rows : r.key = w.key \/ r \in rows')
            /\ (\A q \in rows' : q.key = w.key \/ q \in rows)
        BY <2>1, <2>3, RowOperation
      <3>3. ASSUME NEW k \in Keys \ Promise!Touched(topic[pos + 1])
            PROVE  {x \in ContentsOf(meta, rows') : x[1] = k} = {x \in ContentsOf(meta, rows) : x[1] = k}
        <4>1. k # w.key
          BY <2>3
        <4>2. \A v : Shows(rows', meta.ts, k, v) <=> Shows(rows, meta.ts, k, v)
          BY <3>2, <4>1, OthersShow
        <4> QED BY <4>2, SameOf
      <3> QED BY <1>1, <2>5, <3>1, <3>3, IsRewrite
    <2>6. CASE meta # NoMeta /\ policy = "All" /\ ~(topic[pos + 1].ts <= meta.ts)
      <3>1. meta.ts \in Int /\ meta.ts < topic[pos + 1].ts /\ ~Promise!Shifts(topic[pos + 1])
        <4>1. meta.ts \in Int
          BY <2>6, MetaType
        <4>2. topic[pos + 1].ts \in Int
          BY <1>2, <2>3
        <4> QED BY <2>3, <2>6, <4>1, <4>2 DEF Promise!Orderly
      <3>2. \A k \in Keys : \A v : Shows(rows, meta.ts, k, v) <=> Shows(rows', meta.ts, k, v)
        <4>1. CASE w.put
          <5>1. rows' = PutIn(rows, w.key, pos + 1, topic[pos + 1].ts)
            BY <1>2, <2>1, <4>1
          <5> QED BY <1>2, <2>2, <3>1, <4>1, <5>1, PutKeepsPast
        <4>2. CASE ~w.put
          <5>1. rows' = CloseIn(rows, w.key, topic[pos + 1].ts) /\ topic[pos + 1].ts \in 0 .. MaxTime
            BY <1>2, <2>1, <2>3, <2>6, <4>2
          <5> QED BY <2>1, <2>3, <3>1, <5>1, CloseKeepsPast
        <4> QED BY <4>1, <4>2
      <3>3. RowsType(rows', Len(topic))
        <4>1. RowsType(rows, Len(topic)) /\ pos + 1 \in 1 .. Len(topic)
          BY <1>0, <2>3, TopicType, TypeGroups
        <4> QED BY <2>1, <2>3, <2>6, <4>1, PutRowsType, CloseRowsType
      <3>4. rows \subseteq ViewDocuments(Len(topic)) /\ rows' \subseteq ViewDocuments(Len(topic))
        BY <2>3, <3>3 DEF RowsType
      <3>5. ContentsOf(meta, rows') = ContentsOf(meta, rows)
        BY <3>2, <3>4, SameContents
      <3> QED BY <1>1, <3>5, IsStutter
    <2> QED BY <2>4, <2>5, <2>6
  <1> QED BY <1>3, <1>4, <1>5

\* The collector removes rows that were closed before the time of the header, or by the
\* event in hand.
LEMMA CollectGarbagePromise ==
  ASSUME IInv, Promise!InOrder(topic), CollectGarbage
  PROVE  Promise!Next \/ UNCHANGED Promise!vars
  <1>1. UNCHANGED <<topic, start, meta, policy>> /\ policy # "All"
    BY DEF CollectGarbage, hostVars, groupVars
  <1>2. CASE meta = NoMeta
    <2>1. ContentsOf(meta, rows') = ContentsOf(meta, rows)
      BY <1>2 DEF ContentsOf
    <2> QED BY <1>1, <2>1, IsStutter
  <1>3. CASE meta # NoMeta
    <2>1. /\ meta.seq \in DOMAIN topic /\ meta.seq > 0 /\ meta.seq <= pos + 1 /\ meta.ts \in Int
          /\ meta.ts = topic[meta.seq].ts /\ topic[meta.seq].kind \in {"change", "status"}
          /\ Len(topic) \in Nat /\ DOMAIN topic = 1 .. Len(topic) /\ pos \in Nat
      BY <1>3, MetaType
    <2>2. now - ExpireAfter \in Int /\ now - ExpireAfter <= Open
          /\ rows' = {r \in rows : r.to >= now - ExpireAfter}
      <3>1. HostType
        BY TypeGroups DEF IInv
      <3> QED BY <3>1, ConstantsType DEF HostType, CollectGarbage
    <2>3. ASSUME NEW r \in rows, r \notin rows', r.from <= meta.ts, meta.ts <= r.to
          PROVE  pos + 1 \in DOMAIN topic /\ r.key \in Promise!Touched(topic[pos + 1])
      <3>1. r.to # Open
        BY <2>2, <2>3 DEF Open
      <3>2. RowOK(topic, start, pos, r) /\ Recorded(topic, start, pos, rows, since)
        BY RecordedIs DEF Recorded
      <3>3. PICK c \in DOMAIN topic :
              /\ c <= pos + 1 /\ r.to = topic[c].ts - 1 /\ r.key \in Promise!Touched(topic[c])
              /\ c = r.val \/ Supersedes(topic, r.key, r.val, c)
        BY <3>1, <3>2 DEF RowOK
      <3>4. r.val \in DOMAIN topic /\ r.val <= c /\ Unreset(topic, r.val .. pos)
        BY <2>1, <3>2, <3>3 DEF RowOK, Supersedes
      <3>5. topic[c].kind = "change" /\ topic[c].ts \in Int
        BY <3>2, <3>3, TouchedIsChange DEF Recorded
      <3>6. ~(topic[c].ts <= meta.ts)
        BY <2>1, <2>3, <3>3, <3>5
      <3>7. ~(c <= meta.seq)
        <4> SUFFICES ASSUME c <= meta.seq PROVE FALSE
          OBVIOUS
        <4>1. \A j \in c .. meta.seq : j \in r.val .. pos \/ j = meta.seq
          BY <2>1, <3>3, <3>4
        <4>2. Unreset(topic, c .. meta.seq)
          BY <2>1, <3>4, <4>1 DEF Unreset, Promise!IsReset
        <4>3. c \in 1 .. meta.seq
          BY <2>1
        <4> QED BY <2>1, <3>5, <3>6, <4>2, <4>3, HeaderTime
      <3>8. ~(c <= pos)
        <4> SUFFICES ASSUME c <= pos PROVE FALSE
          OBVIOUS
        <4>1. c \in meta.seq + 1 .. pos
          BY <2>1, <3>7
        <4> QED BY <1>3, <3>5, <4>1 DEF IInv, HeaderInv
      <3>9. c = pos + 1
        BY <2>1, <3>3, <3>8
      <3> QED BY <3>3, <3>9
    <2>4. CASE pos + 1 \in DOMAIN topic
      <3>1. pos + 1 \in meta.seq .. Len(topic)
        BY <2>1, <2>4
      <3>2. ASSUME NEW k \in Keys \ Promise!Touched(topic[pos + 1])
            PROVE  {x \in ContentsOf(meta, rows') : x[1] = k} = {x \in ContentsOf(meta, rows) : x[1] = k}
        <4>1. \A v : Shows(rows', meta.ts, k, v) <=> Shows(rows, meta.ts, k, v)
          BY <2>2, <2>3 DEF Shows
        <4> QED BY <4>1, SameOf
      <3> QED BY <1>1, <2>1, <3>1, <3>2, IsRewrite
    <2>5. CASE pos + 1 \notin DOMAIN topic
      <3>1. \A k \in Keys : \A v : Shows(rows, meta.ts, k, v) <=> Shows(rows', meta.ts, k, v)
        BY <2>2, <2>3, <2>5 DEF Shows
      <3>2. rows \subseteq ViewDocuments(Len(topic)) /\ rows' \subseteq ViewDocuments(Len(topic))
        BY <2>2 DEF IInv, TypeOK
      <3>3. ContentsOf(meta, rows') = ContentsOf(meta, rows)
        BY <3>1, <3>2, SameContents
      <3> QED BY <1>1, <3>3, IsStutter
    <2> QED BY <2>4, <2>5
  <1> QED BY <1>2, <1>3

\* Steps that leave the header and the rows alone, or empty the view.
LEMMA OtherPromise ==
  ASSUME IInv, [Next]_vars,
         ~WriteRow, ~WriteHeader, ~SetState, ~CollectGarbage
  PROVE  Promise!Next
  <1>0. HostType /\ GroupType
    BY TypeGroups DEF IInv
  <1>1. CASE PublishSignal \/ PublishChange
    <2>1. UNCHANGED <<start, rows, meta>> /\ \E e : topic' = Append(topic, e)
      BY <1>1 DEF PublishSignal, PublishChange, Emit, groupVars, storeVars
    <2> QED BY <1>0, <2>1, IsOutside
  <1>2. CASE OpenStream
    <2>1. UNCHANGED <<topic, rows, meta>>
      BY <1>2 DEF OpenStream, hostVars, storeVars
    <2>2. start' = start \/ (start' = Len(topic) /\ ~joined)
      BY <1>2 DEF OpenStream, groupVars
    <2>3. ~joined => meta = NoMeta
      BY DEF IInv, WorkerInv
    <2> QED BY <1>0, <2>1, <2>2, <2>3, IsOutside
  <1>3. CASE WorkerDrop
    <2>1. UNCHANGED <<topic, start>> /\ (UNCHANGED storeVars \/ DropCollection)
      BY <1>3 DEF WorkerDrop, hostVars, groupVars
    <2>2. CASE UNCHANGED storeVars
      BY <1>0, <2>1, <2>2, IsOutside DEF storeVars
    <2>3. CASE DropCollection
      <3>1. start \in start .. Len(topic)
        BY <1>0, TopicType DEF GroupType
      <3> QED BY <2>1, <2>3, <3>1, IsReset DEF DropCollection
    <2> QED BY <2>1, <2>2, <2>3
  <1>4. CASE DeprovisionDrop
    <2>1. UNCHANGED topic /\ \/ UNCHANGED <<storeVars, start>>
                             \/ DropCollection /\ start' = pos
      BY <1>4 DEF DeprovisionDrop, hostVars
    <2>2. CASE UNCHANGED <<storeVars, start>>
      BY <1>0, <2>1, <2>2, IsOutside DEF storeVars
    <2>3. CASE DropCollection /\ start' = pos
      BY <1>0, <2>1, <2>3, IsReset DEF DropCollection, GroupType
    <2> QED BY <2>1, <2>2, <2>3
  <1>5. CASE \/ InitView \/ HandleCommand \/ Recv \/ Ack \/ WorkerEnds
    <2>1. UNCHANGED <<topic, start, rows, meta>>
      BY <1>5 DEF InitView, HandleCommand, Recv, Ack, WorkerEnds, hostVars, groupVars, storeVars
    <2> QED BY <1>0, <2>1, IsOutside
  <1>6. CASE \/ ConfigurePersist \/ ConfigureInit \/ DeprovisionWait \/ DeactivateWait
             \/ Activate \/ OnReminder \/ Configure \/ Deprovision \/ Deactivate
             \/ ReadHeader \/ ReadRows \/ Crash
    <2>1. UNCHANGED <<topic, start, rows, meta>>
      BY <1>6 DEF ConfigurePersist, ConfigureInit, DeprovisionWait, DeactivateWait, Activate,
                  OnReminder, Configure, Deprovision, Deactivate, ReadHeader, ReadRows, Crash,
                  hostVars, groupVars, storeVars
    <2> QED BY <1>0, <2>1, IsOutside
  <1>7. CASE UNCHANGED vars
    BY <1>0, <1>7, IsOutside DEF vars, hostVars, groupVars, storeVars
  <1> QED BY <1>1, <1>2, <1>3, <1>4, <1>5, <1>6, <1>7 DEF Next, WorkerStep, HandlerStep

LEMMA PromiseStep ==
  ASSUME IInv, [Next]_vars
  PROVE  [Promise!Next]_Promise!vars
  <1>0. HostType
    BY TypeGroups DEF IInv
  <1>1. CASE ~Promise!Orderly(topic')
    BY <1>1 DEF Promise!Next
  <1>2. CASE Promise!Orderly(topic')
    <2>1. ASSUME topic' = topic
          PROVE  Promise!Orderly(topic) /\ Promise!InOrder(topic)
      BY <1>2, <2>1 DEF Promise!Orderly
    <2>2. CASE WriteRow
      <3>1. topic' = topic
        BY <2>2 DEF WriteRow, hostVars
      <3> QED BY <2>1, <2>2, <3>1, WriteRowPromise
    <2>3. CASE CollectGarbage
      <3>1. topic' = topic
        BY <2>3 DEF CollectGarbage, hostVars
      <3> QED BY <2>1, <2>3, <3>1, CollectGarbagePromise
    <2>4. CASE WriteHeader \/ SetState
      <3>1. /\ UNCHANGED <<topic, start, rows, policy>> /\ (SetHeader \/ UNCHANGED meta)
            /\ wpc \in {"write", "state"} /\ (wpc = "write" => at = Len(Event.writes))
        BY <2>4 DEF WriteHeader, SetState, hostVars, groupVars
      <3>2. CASE SetHeader
        BY <2>1, <3>1, <3>2, HeaderPromise
      <3>3. CASE UNCHANGED meta
        BY <1>0, <3>1, <3>3, IsOutside
      <3> QED BY <3>1, <3>2, <3>3
    <2>5. CASE ~WriteRow /\ ~WriteHeader /\ ~SetState /\ ~CollectGarbage
      BY <2>5, OtherPromise
    <2> QED BY <2>2, <2>3, <2>4, <2>5
  <1> QED BY <1>1, <1>2

\* The view service implements ResultView: the header only moves onto results that are
\* completely recorded, and between two moves a reader sees no other row change than
\* those of the result being recorded.
THEOREM ViewImplementsPromise == Spec => ViewKeepsPromise
  <1>1. Init => Promise!Init
    <2>1. Init => policy # "All" /\ meta = NoMeta
      BY DEF Init, NoPolicy
    <2>2. Init => ((policy = "All") = FALSE)
      BY <2>1, Zenon
    <2> QED BY <2>1, <2>2 DEF Init, Promise!Init, NoMeta
  <1>2. IInv /\ [Next]_vars => [Promise!Next]_Promise!vars
    BY PromiseStep
  <1> QED BY <1>1, <1>2, Inductive, PTL DEF Spec, ViewKeepsPromise, Promise!Spec

=============================================================================
