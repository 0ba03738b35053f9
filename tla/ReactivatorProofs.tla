------------------------- MODULE ReactivatorProofs -------------------------
(***************************************************************************)
(* Proofs about Reactivator, for every set of objects, kinds and faults    *)
(* and every bound.                                                        *)
(***************************************************************************)
EXTENDS Reactivator, TLAPS, FiniteSetTheorems, SequenceTheorems, WellFoundedInduction

(***************************************************************************)
(* Inductive invariants.                                                   *)
(***************************************************************************)

\* Where a monitor stands: its cursor and the position of its watch within the log.
Watch(k) ==
  /\ cursor[k] <= Len(log) /\ tail[k] <= Len(log) /\ saved[k] <= Len(log)
  /\ listed[k] <= Len(log)
  /\ pc[k] = "start" => todo[k] = {} /\ out[k] = <<>>
  /\ pc[k] = "watching" => cursor[k] <= tail[k]
  /\ \A m \in Range(out[k]) : m[2] = cursor[k] /\ KindOf[m[1][1]] = k

\* What is still to be listed is the last version of its object, or the watch comes to
\* the last version after the list; the monitor has not read it.
ToList(k) ==
  \A i \in todo[k] :
    /\ i <= tail[k] /\ i # cursor[k] /\ Kind(i) = k
    /\ LET j == LastEvent(log[i].obj) IN j = i \/ j > tail[k]

\* A monitor that loaded its durable cursor, or stored it, never falls back behind it,
\* unless the server no longer serves that version.
Durable(k) ==
  k \notin unloaded /\ saved[k] # 0 /\ saved[k] >= horizon =>
    /\ saved[k] <= cursor[k] /\ todo[k] = {}
    /\ out[k] # <<>> => saved[k] < cursor[k]

\* A step of one monitor leaves where the others stand.
Standing(k) == Watch(k) /\ ToList(k) /\ Durable(k)

Of(e, s) == {m \in Range(s) : m[1] = e}

\* The message of e that is published last carries version i: out before chan before
\* hand, and what was published when there is none.
Newest(e, i) ==
  LET o == Of(e, out[KindOf[e[1]]])
      c == Of(e, chan)
      h == Of(e, hand)
  IN  /\ \A m \in o : m[2] = i
      /\ o = {} => \A m \in c : m[2] = i
      /\ o = {} /\ c = {} => \A m \in h : m[2] = i
      /\ o = {} /\ c = {} /\ h = {} => view[e] = i

\* What will be published last of an element is its last version, unless that is still
\* to be read or lost for a reason known.
Fresh(e) ==
  LET i == LastEvent(e[1])
  IN  i = 0 \/ Unread(KindOf[e[1]], i) \/ Excused(e, i) \/ Newest(e, i)

FreshInv == \A e \in Elements : Fresh(e)

IInv == TypeOK /\ (\A k \in Kinds : Standing(k)) /\ FreshInv

(***************************************************************************)
(* Facts about sequences and about sets of numbers.                        *)
(***************************************************************************)

\* A nonempty set of numbers has a least element.
LEMMA LeastExists ==
  ASSUME NEW T \in SUBSET Nat, T # {}
  PROVE  \E x \in T : \A y \in T : x <= y
  <1>1. PICK x \in T : \A y \in T : ~ (<<y, x>> \in OpToRel(<, Nat))
    BY NatLessThanWellFounded, WFMin
  <1>2. \A y \in T : x <= y
    <2> TAKE y \in T
    <2>1. y < x => <<y, x>> \in OpToRel(<, Nat)
      BY DEF OpToRel
    <2>2. ~(y < x)
      BY <1>1, <2>1, Zenon
    <2> QED BY <2>2
  <1> QED BY <1>2

\* Min picks the least element of a nonempty set of numbers.
LEMMA MinIs ==
  ASSUME NEW S \in SUBSET Nat, S # {}
  PROVE  Min(S) \in S /\ \A j \in S : Min(S) <= j
  BY LeastExists DEF Min

\* Max picks the greatest element of a nonempty set of numbers with a bound.
LEMMA MaxIs ==
  ASSUME NEW n \in Nat, NEW S \in SUBSET (0..n), S # {}
  PROVE  Max(S) \in S /\ \A j \in S : j <= Max(S)
  <1> DEFINE T == {n - i : i \in S}
  <1>1. T \in SUBSET Nat /\ T # {}
    <2>1. \A i \in S : n - i \in Nat
      OBVIOUS
    <2> QED BY <2>1
  <1>2. PICK x \in T : \A y \in T : x <= y
    BY <1>1, LeastExists
  <1>3. PICK i \in S : x = n - i
    OBVIOUS
  <1>4. \A j \in S : j <= i
    <2> TAKE j \in S
    <2>1. x <= n - j
      BY <1>2
    <2> QED BY <2>1, <1>3
  <1>5. \E i1 \in S : \A j \in S : i1 >= j
    BY <1>4
  <1> QED BY <1>5 DEF Max

LEMMA RangeEmpty == Range(<<>>) = {}
  BY DEF Range

\* What a send puts at the end of the channel.
LEMMA RangeAppend ==
  ASSUME NEW S, NEW s \in Seq(S), NEW e \in S
  PROVE  /\ Append(s, e) \in Seq(S) /\ Len(Append(s, e)) = Len(s) + 1
         /\ Range(Append(s, e)) = Range(s) \cup {e}
  <1>1. /\ Append(s, e) \in Seq(S) /\ Len(Append(s, e)) = Len(s) + 1
        /\ \A k \in 1..Len(s) : Append(s, e)[k] = s[k]
        /\ Append(s, e)[Len(s) + 1] = e
        /\ DOMAIN s = 1..Len(s) /\ DOMAIN Append(s, e) = 1..(Len(s) + 1)
    OBVIOUS
  <1>2. \A k \in 1..(Len(s) + 1) : k \in 1..Len(s) \/ k = Len(s) + 1
    OBVIOUS
  <1>3. \A i : i \in Range(Append(s, e)) => i \in Range(s) \cup {e}
    BY <1>1, <1>2 DEF Range
  <1>4. \A i : i \in Range(s) \cup {e} => i \in Range(Append(s, e))
    BY <1>1 DEF Range
  <1> QED BY <1>1, <1>3, <1>4

\* What remains of a sequence without its head.
LEMMA RangeTail ==
  ASSUME NEW S, NEW s \in Seq(S), s # <<>>
  PROVE  /\ Tail(s) \in Seq(S) /\ Len(Tail(s)) = Len(s) - 1 /\ Len(s) \in Nat \ {0}
         /\ Head(s) \in S /\ Head(s) = s[1]
         /\ Range(s) = {Head(s)} \cup Range(Tail(s))
  <1>1. /\ Tail(s) \in Seq(S) /\ Len(Tail(s)) = Len(s) - 1 /\ Len(s) \in Nat \ {0}
        /\ Head(s) = s[1] /\ Head(s) \in S
        /\ \A k \in 1..(Len(s) - 1) : Tail(s)[k] = s[k + 1]
        /\ DOMAIN s = 1..Len(s) /\ DOMAIN Tail(s) = 1..(Len(s) - 1)
    OBVIOUS
  <1>3. \A i : i \in Range(s) => i = Head(s) \/ i \in Range(Tail(s))
    <2> TAKE i
    <2> HAVE i \in Range(s)
    <2>1. PICK k \in 1..Len(s) : i = s[k]
      BY <1>1 DEF Range
    <2>2. CASE k = 1
      BY <1>1, <2>1, <2>2
    <2>3. CASE k # 1
      <3>1. (k - 1) \in 1..(Len(s) - 1) /\ Tail(s)[k - 1] = s[k]
        BY <1>1, <2>3
      <3> QED BY <1>1, <2>1, <3>1 DEF Range
    <2> QED BY <2>2, <2>3
  <1>4. \A i : i \in Range(Tail(s)) => i \in Range(s)
    <2> TAKE i
    <2> HAVE i \in Range(Tail(s))
    <2>1. PICK k \in 1..(Len(s) - 1) : i = Tail(s)[k]
      BY <1>1 DEF Range
    <2>2. k + 1 \in 1..Len(s) /\ i = s[k + 1]
      BY <1>1, <2>1
    <2> QED BY <1>1, <2>2 DEF Range
  <1>5. Head(s) \in Range(s)
    BY <1>1 DEF Range
  <1> QED BY <1>1, <1>3, <1>4, <1>5

\* A channel of one place: its head is all there is.
LEMMA RangeOne ==
  ASSUME NEW S, NEW s \in Seq(S), Len(s) <= 1, s # <<>>
  PROVE  Range(s) = {Head(s)} /\ Tail(s) = <<>> /\ Head(s) \in S /\ Head(s) = s[1]
  <1>1. /\ Tail(s) \in Seq(S) /\ Len(Tail(s)) = Len(s) - 1 /\ Len(s) \in Nat \ {0}
        /\ Head(s) \in S /\ Head(s) = s[1]
        /\ Range(s) = {Head(s)} \cup Range(Tail(s))
    BY RangeTail
  <1>2. Len(Tail(s)) = 0
    BY <1>1
  <1>3. ~(Len(Tail(s)) \in Nat \ {0})
    BY <1>2
  <1>4. Tail(s) = <<>>
    BY <1>1, <1>3, EmptySeq, Zenon
  <1>5. Range(Tail(s)) = {}
    BY <1>4, RangeEmpty
  <1> QED BY <1>1, <1>4, <1>5

LEMMA RangeIn ==
  ASSUME NEW S, NEW s \in Seq(S)
  PROVE  Range(s) \subseteq S
  BY DEF Range

(***************************************************************************)
(* The last version of an object.                                          *)
(***************************************************************************)

\* LastEvent(o) is the position of the last event of o in the log, or 0.
LastOf(l, o, i) ==
  /\ i \in 0..Len(l)
  /\ i # 0 => l[i].obj = o
  /\ \A j \in 1..Len(l) : l[j].obj = o => j <= i

LEMMA LastIs ==
  ASSUME NEW l \in Seq(Event), NEW o
  PROVE  LastOf(l, o, Max({0} \cup {i \in DOMAIN l : l[i].obj = o}))
  <1> DEFINE S == {0} \cup {i \in DOMAIN l : l[i].obj = o}
  <1>1. DOMAIN l = 1..Len(l) /\ Len(l) \in Nat
    OBVIOUS
  <1>2. S \in SUBSET (0..Len(l)) /\ S # {}
    BY <1>1
  <1>3. Max(S) \in S /\ \A j \in S : j <= Max(S)
    BY <1>1, <1>2, MaxIs
  <1> HIDE DEF S
  <1>4. Max(S) \in 0..Len(l)
    BY <1>2, <1>3
  <1>5. Max(S) # 0 => l[Max(S)].obj = o
    BY <1>3 DEF S
  <1>6. \A j \in 1..Len(l) : l[j].obj = o => j <= Max(S)
    BY <1>1, <1>3 DEF S
  <1> QED BY <1>4, <1>5, <1>6 DEF S, LastOf

LEMMA LastUnique ==
  ASSUME NEW l \in Seq(Event), NEW o, NEW i, NEW j, LastOf(l, o, i), LastOf(l, o, j)
  PROVE  i = j
  <1>1. i \in Nat /\ j \in Nat /\ i <= Len(l) /\ j <= Len(l)
    BY DEF LastOf
  <1>2. i <= j
    BY <1>1 DEF LastOf
  <1>3. j <= i
    BY <1>1 DEF LastOf
  <1> QED BY <1>1, <1>2, <1>3

(***************************************************************************)
(* Types, and where the monitors stand.                                    *)
(***************************************************************************)

LEMMA LastIsNow == TypeOK => \A o : LastOf(log, o, LastEvent(o))
  BY LastIs DEF TypeOK, LastEvent

\* The messages of the event a monitor takes.
LEMMA TakeFacts ==
  ASSUME TypeOK, NEW k \in Kinds, NEW i \in 1..Len(log), Take(k, i)
  PROVE  /\ cursor' \in [Kinds -> 0..MaxLog] /\ out' \in [Kinds -> Seq(Messages)]
         /\ cursor'[k] = i /\ out'[k] # <<>>
         /\ \A x \in Kinds \ {k} : cursor'[x] = cursor[x] /\ out'[x] = out[x]
         /\ \A m \in Range(out'[k]) : m[2] = i /\ m[1][1] = log[i].obj
         /\ \A e \in Elements : e[1] = log[i].obj => <<e, i>> \in Range(out'[k])
  <1> DEFINE o == log[i].obj
             a == Change(i, "node")
             b == Change(i, "rel")
  <1>0. log[i] \in Event /\ i \in 1..MaxLog
    BY ReactivatorAssumption DEF TypeOK
  <1>1. o \in Objects /\ i \in 1..MaxLog
    BY <1>0 DEF Event
  <1>2. a = <<<<o, "node">>, i>> /\ b = <<<<o, "rel">>, i>>
    BY DEF Change
  <1>3. a \in Messages /\ (o \in Owned => b \in Messages)
    BY <1>1, <1>2 DEF Messages, Elements
  <1>4. \A e \in Elements : e[1] = o => e = <<o, "node">> \/ (o \in Owned /\ e = <<o, "rel">>)
    <2> TAKE e \in Elements
    <2>1. e = <<e[1], e[2]>> /\ e[2] \in {"node", "rel"} /\ (e[2] = "rel" => e[1] \in Owned)
      BY DEF Elements
    <2> QED BY <2>1
  <1> HIDE DEF o, a, b
  <1>5. /\ out' = [out EXCEPT ![k] = IF o \in Owned THEN <<a, b>> ELSE <<a>>]
        /\ cursor' = [cursor EXCEPT ![k] = i]
    BY DEF Take, o, a, b
  <1>6. CASE o \in Owned
    <2>1. <<a, b>> \in Seq(Messages) /\ <<a, b>> # <<>>
      BY <1>3, <1>6
    <2>2. Range(<<a, b>>) = {a, b}
      BY <1>3, <1>6 DEF Range
    <2>3. out' = [out EXCEPT ![k] = <<a, b>>]
      BY <1>5, <1>6
    <2>4. out' \in [Kinds -> Seq(Messages)] /\ out'[k] = <<a, b>> /\ \A x \in Kinds \ {k} : out'[x] = out[x]
      BY <2>1, <2>3 DEF TypeOK
    <2>5. cursor' \in [Kinds -> 0..MaxLog] /\ cursor'[k] = i /\ \A x \in Kinds \ {k} : cursor'[x] = cursor[x]
      BY <1>1, <1>5 DEF TypeOK
    <2>6. \A m \in {a, b} : m[2] = i /\ m[1][1] = o
      BY <1>2
    <2>7. \A e \in Elements : e[1] = o => <<e, i>> \in {a, b}
      BY <1>2, <1>4
    <2> QED BY <2>1, <2>2, <2>4, <2>5, <2>6, <2>7 DEF o
  <1>7. CASE o \notin Owned
    <2>1. <<a>> \in Seq(Messages) /\ <<a>> # <<>>
      BY <1>3, <1>7
    <2>2. Range(<<a>>) = {a}
      BY <1>3, <1>7 DEF Range
    <2>3. out' = [out EXCEPT ![k] = <<a>>]
      BY <1>5, <1>7
    <2>4. out' \in [Kinds -> Seq(Messages)] /\ out'[k] = <<a>> /\ \A x \in Kinds \ {k} : out'[x] = out[x]
      BY <2>1, <2>3 DEF TypeOK
    <2>5. cursor' \in [Kinds -> 0..MaxLog] /\ cursor'[k] = i /\ \A x \in Kinds \ {k} : cursor'[x] = cursor[x]
      BY <1>1, <1>5 DEF TypeOK
    <2>6. \A m \in {a} : m[2] = i /\ m[1][1] = o
      BY <1>2
    <2>7. \A e \in Elements : e[1] = o => <<e, i>> \in {a}
      BY <1>2, <1>4, <1>7
    <2> QED BY <2>1, <2>2, <2>4, <2>5, <2>6, <2>7 DEF o
  <1> QED BY <1>6, <1>7

\* The event a watch gives next: the first of its kind after those it has given.
LEMMA NextIs ==
  ASSUME TypeOK, NEW k \in Kinds, NextVersion(k) # {}
  PROVE  /\ Min(NextVersion(k)) \in NextVersion(k)
         /\ \A j \in NextVersion(k) : Min(NextVersion(k)) <= j
  <1>1. NextVersion(k) \in SUBSET Nat
    BY DEF NextVersion, TypeOK
  <1> QED BY <1>1, MinIs

LEMMA InFlightType == TypeOK => InFlight \subseteq Messages
  <1> SUFFICES ASSUME TypeOK, NEW m \in InFlight PROVE m \in Messages
    OBVIOUS
  <1>1. Range(chan) \subseteq Messages /\ Range(hand) \subseteq Messages
    BY RangeIn DEF TypeOK
  <1>2. \A k \in Kinds : Range(out[k]) \subseteq Messages
    <2> TAKE k \in Kinds
    <2>1. out[k] \in Seq(Messages)
      BY DEF TypeOK
    <2> QED BY <2>1, RangeIn
  <1> QED BY <1>1, <1>2 DEF InFlight

LEMMA RestartType ==
  ASSUME TypeOK, Restart
  PROVE  /\ cursor' \in [Kinds -> 0..MaxLog] /\ unloaded' \subseteq Kinds /\ faults' \in 0..MaxFaults
         /\ pc' \in [Kinds -> {"start", "watching"}] /\ todo' \in [Kinds -> SUBSET (1..MaxLog)]
         /\ tail' \in [Kinds -> 0..MaxLog] /\ out' \in [Kinds -> Seq(Messages)]
         /\ chan' = <<>> /\ hand' = <<>>
         /\ dropped' \subseteq Messages /\ skipped' \subseteq Messages
         /\ UNCHANGED <<log, horizon, saved, cut, listed>>
  <1>1. cursor' \in [Kinds -> 0..MaxLog] /\ unloaded' \subseteq Kinds /\ faults' \in 0..MaxFaults
    <2>1. CASE cursor' = saved /\ unloaded' = {} /\ UNCHANGED faults
      BY <2>1 DEF TypeOK
    <2>2. CASE /\ faults < MaxFaults /\ faults' = faults + 1
               /\ \E lost \in SUBSET Kinds :
                    /\ cursor' = [k \in Kinds |-> IF k \in lost THEN 0 ELSE saved[k]]
                    /\ unloaded' = lost
      <3>1. faults' \in 0..MaxFaults
        BY <2>2, ReactivatorAssumption DEF TypeOK
      <3>2. PICK lost \in SUBSET Kinds :
              cursor' = [k \in Kinds |-> IF k \in lost THEN 0 ELSE saved[k]] /\ unloaded' = lost
        BY <2>2
      <3>3. \A k \in Kinds : (IF k \in lost THEN 0 ELSE saved[k]) \in 0..MaxLog
        BY ReactivatorAssumption DEF TypeOK
      <3> QED BY <3>1, <3>2, <3>3
    <2> QED BY <2>1, <2>2 DEF Restart, LoadCursors
  <1>2. dropped' \subseteq Messages /\ skipped' \subseteq Messages
    BY InFlightType DEF TypeOK, Restart
  <1>3. <<>> \in Seq(Messages)
    OBVIOUS
  <1>4. /\ pc' \in [Kinds -> {"start", "watching"}] /\ todo' \in [Kinds -> SUBSET (1..MaxLog)]
        /\ tail' \in [Kinds -> 0..MaxLog] /\ out' \in [Kinds -> Seq(Messages)]
    BY <1>3, ReactivatorAssumption DEF Restart
  <1> QED BY <1>1, <1>2, <1>4 DEF Restart, source

LEMMA PublishedType ==
  ASSUME TypeOK, hand # <<>>
  PROVE  /\ Published \in [Elements -> 0..MaxLog]
         /\ Range(hand) = {hand[1]} /\ hand[1] \in Messages
         /\ hand[1][1] \in Elements /\ hand[1][2] \in 1..MaxLog
         /\ Published[hand[1][1]] = hand[1][2]
         /\ \A e \in Elements \ {hand[1][1]} : Published[e] = view[e]
  <1>1. hand \in Seq(Messages) /\ Len(hand) <= 1
    BY DEF TypeOK
  <1>2. Range(hand) = {hand[1]} /\ hand[1] \in Messages
    BY <1>1, RangeOne
  <1>3. hand[1][1] \in Elements /\ hand[1][2] \in 1..MaxLog
    BY <1>2 DEF Messages
  <1> QED BY <1>2, <1>3 DEF TypeOK, Published

LEMMA TypeInit == Init => TypeOK
  <1> SUFFICES ASSUME Init PROVE TypeOK
    OBVIOUS
  <1>1. <<>> \in Seq(Event) /\ <<>> \in Seq(Messages) /\ Len(<<>>) = 0
    OBVIOUS
  <1>2. /\ log \in Seq(Event) /\ Len(log) <= MaxLog /\ horizon \in 0 .. MaxLog
        /\ chan \in Seq(Messages) /\ hand \in Seq(Messages)
        /\ Len(chan) <= Capacity /\ Len(hand) <= 1
        /\ dropped \subseteq Messages /\ skipped \subseteq Messages
        /\ unloaded \subseteq Kinds /\ cut \subseteq 1 .. MaxLog
    BY <1>1, ReactivatorAssumption DEF Init, Capacity
  <1>3. /\ saved \in [Kinds -> 0 .. MaxLog] /\ cursor \in [Kinds -> 0 .. MaxLog]
        /\ tail \in [Kinds -> 0 .. MaxLog] /\ listed \in [Kinds -> 0 .. MaxLog]
        /\ pc \in [Kinds -> {"start", "watching"}] /\ todo \in [Kinds -> SUBSET (1 .. MaxLog)]
        /\ out \in [Kinds -> Seq(Messages)]
        /\ view \in [Elements -> 0 .. MaxLog]
        /\ crashes \in 0 .. MaxRestarts /\ terminations \in 0 .. MaxRestarts
        /\ faults \in 0 .. MaxFaults
    BY <1>1, ReactivatorAssumption DEF Init
  <1> QED BY <1>2, <1>3 DEF TypeOK

\* A successful or failed call leaves the counters within their bounds.
LEMMA CountersType ==
  ASSUME TypeOK
  PROVE  /\ \A f : Fail(f) => crashes' = crashes /\ terminations' = terminations /\ faults' \in 0..MaxFaults
         /\ UNCHANGED bounds => crashes' = crashes /\ terminations' = terminations /\ faults' = faults
  BY ReactivatorAssumption DEF TypeOK, Fail, bounds

LEMMA TypeStep ==
  ASSUME TypeOK, \A k \in Kinds : Standing(k), [Next]_vars
  PROVE  TypeOK'
<1> USE ReactivatorAssumption DEF source, monitor, history
<1>1. CASE Commit
  <2>1. PICK o \in Objects, op \in {"i", "u", "d"} : log' = Append(log, [obj |-> o, op |-> op])
    BY <1>1 DEF Commit
  <2>2. log' \in Seq(Event) /\ Len(log') = Len(log) + 1
    BY <2>1 DEF TypeOK, Event
  <2>3. Len(log') <= MaxLog
    BY <1>1, <2>2 DEF Commit, TypeOK
  <2> QED BY <1>1, <2>2, <2>3, CountersType DEF Commit, TypeOK
<1>2. CASE Compact
  <2>1. horizon' \in 0..MaxLog
    BY <1>2 DEF Compact, TypeOK
  <2> QED BY <1>2, <2>1, CountersType DEF Compact, TypeOK
<1>3. CASE NextChange
  <2>1. chan' \in Seq(Messages) /\ hand' \in Seq(Messages) /\ Len(chan') <= Capacity /\ Len(hand') <= 1
    BY <1>3, RangeOne DEF NextChange, TypeOK, Capacity
  <2> QED BY <1>3, <2>1, CountersType DEF NextChange, TypeOK
<1>4. CASE Publish
  <2>1. view' \in [Elements -> 0..MaxLog] /\ hand' \in Seq(Messages) /\ Len(hand') <= 1
    BY <1>4, PublishedType DEF Publish, TypeOK
  <2> QED BY <1>4, <2>1, CountersType DEF Publish, TypeOK
<1>5. CASE PublishFails \/ Crash \/ Terminate
  <2>1. Restart
    BY <1>5 DEF PublishFails, Crash, Terminate
  <2>2. view' \in [Elements -> 0..MaxLog]
    BY <1>5, PublishedType DEF PublishFails, Crash, Terminate, TypeOK
  <2>3. crashes' \in 0..MaxRestarts /\ terminations' \in 0..MaxRestarts
    BY <1>5 DEF PublishFails, Crash, Terminate, TypeOK
  <2>4. chan' \in Seq(Messages) /\ hand' \in Seq(Messages) /\ Len(chan') <= Capacity /\ Len(hand') <= 1
    BY <2>1, RestartType DEF Capacity
  <2> QED BY <2>1, <2>2, <2>3, <2>4, RestartType DEF TypeOK
<1>6. CASE Deprovision
  <2>1. saved' \in [Kinds -> 0..MaxLog]
    BY <1>6 DEF Deprovision, DeleteCursors, TypeOK
  <2> QED BY <1>6, <2>1, CountersType DEF Deprovision, TypeOK
<1>7. ASSUME NEW k \in Kinds, StartList(k) PROVE TypeOK'
  <2>1. \A o \in Objects : Live(o) => LastEvent(o) \in 1..MaxLog
    <3> SUFFICES ASSUME NEW o \in Objects, Live(o) PROVE LastEvent(o) \in 1..MaxLog
      OBVIOUS
    <3>1. LastOf(log, o, LastEvent(o)) /\ LastEvent(o) # 0
      BY LastIsNow DEF Live
    <3>2. LastEvent(o) \in 0..Len(log)
      BY <3>1 DEF LastOf
    <3>3. Len(log) \in Nat /\ Len(log) <= MaxLog
      BY DEF TypeOK
    <3> QED BY <3>1, <3>2, <3>3
  <2>2. /\ pc' \in [Kinds -> {"start", "watching"}] /\ todo' \in [Kinds -> SUBSET (1..MaxLog)]
        /\ tail' \in [Kinds -> 0..MaxLog] /\ listed' \in [Kinds -> 0..MaxLog]
    BY <1>7, <2>1 DEF StartList, TypeOK
  <2> QED BY <1>7, <2>2, CountersType DEF StartList, TypeOK
<1>8. ASSUME NEW k \in Kinds, StartWatch(k) \/ Expired(k) PROVE TypeOK'
  <2>1. CASE StartWatch(k)
    <3>1. pc' \in [Kinds -> {"start", "watching"}] /\ tail' \in [Kinds -> 0..MaxLog]
      BY <2>1 DEF StartWatch, TypeOK
    <3>2. UNCHANGED <<log, horizon, saved, cursor, todo, out, chan, hand, view, dropped, skipped,
                      unloaded, cut, listed, crashes, terminations, faults>>
      BY <2>1, CountersType DEF StartWatch
    <3> QED BY <3>1, <3>2 DEF TypeOK
  <2>2. CASE Expired(k)
    <3>1. cursor' \in [Kinds -> 0..MaxLog]
      BY <2>2 DEF Expired, TypeOK
    <3> QED BY <2>2, <3>1, CountersType DEF Expired, TypeOK
  <2> QED BY <1>8, <2>1, <2>2
<1>9. ASSUME NEW k \in Kinds, ReadListed(k) PROVE TypeOK'
  <2>1. PICK i \in todo[k] : Take(k, i) /\ todo' = [todo EXCEPT ![k] = @ \ {i}]
    BY <1>9 DEF ReadListed
  <2>2. i \in 1..Len(log)
    BY <2>1 DEF Standing, ToList, Watch, TypeOK
  <2>3. todo' \in [Kinds -> SUBSET (1..MaxLog)]
    BY <2>1 DEF TypeOK
  <2> QED BY <1>9, <2>1, <2>2, <2>3, TakeFacts, CountersType DEF ReadListed, TypeOK
<1>10. ASSUME NEW k \in Kinds, ReadEvent(k) PROVE TypeOK'
  <2> DEFINE i == Min(NextVersion(k))
  <2>1. i \in NextVersion(k)
    BY <1>10, NextIs DEF ReadEvent
  <2>2. i \in 1..Len(log) /\ i \in 1..MaxLog
    BY <2>1 DEF NextVersion, TypeOK
  <2>3. Take(k, i) /\ tail' = [tail EXCEPT ![k] = i]
    BY <1>10 DEF ReadEvent
  <2> HIDE DEF i
  <2>4. tail' \in [Kinds -> 0..MaxLog]
    BY <2>2, <2>3 DEF TypeOK
  <2> QED BY <1>10, <2>2, <2>3, <2>4, TakeFacts, CountersType DEF ReadEvent, TypeOK
<1>11. ASSUME NEW k \in Kinds, Send(k) PROVE TypeOK'
  <2>1. out[k] \in Seq(Messages) /\ out[k] # <<>>
    BY <1>11 DEF Send, TypeOK
  <2>2. Head(out[k]) \in Messages /\ Tail(out[k]) \in Seq(Messages)
    BY <2>1, RangeTail
  <2>3. chan' \in Seq(Messages) /\ Len(chan') = Len(chan) + 1 /\ Len(chan) \in Nat
    BY <1>11, <2>2, RangeAppend DEF Send, TypeOK
  <2>4. Len(chan') <= Capacity
    BY <1>11, <2>3 DEF Send, Capacity
  <2>5. out' \in [Kinds -> Seq(Messages)]
    BY <1>11, <2>2 DEF Send, TypeOK
  <2> QED BY <1>11, <2>3, <2>4, <2>5, CountersType DEF Send, TypeOK
<1>12. ASSUME NEW k \in Kinds, Bookmark(k) PROVE TypeOK'
  <2>1. /\ cursor' \in [Kinds -> 0..MaxLog] /\ tail' \in [Kinds -> 0..MaxLog]
        /\ saved' \in [Kinds -> 0..MaxLog] /\ unloaded' \subseteq Kinds
    <3>1. /\ cursor' = [cursor EXCEPT ![k] = Len(log)] /\ tail' = [tail EXCEPT ![k] = Len(log)]
          /\ Len(log) \in 0..MaxLog
      BY <1>12 DEF Bookmark, TypeOK
    <3>2. \/ saved' = [saved EXCEPT ![k] = Len(log)] /\ unloaded' = unloaded \ {k}
          \/ saved' = saved /\ unloaded' = unloaded
      BY <1>12 DEF Bookmark, StoreCursor
    <3>3. cursor' \in [Kinds -> 0..MaxLog] /\ tail' \in [Kinds -> 0..MaxLog]
      BY <3>1 DEF TypeOK
    <3>4. saved' \in [Kinds -> 0..MaxLog]
      BY <3>1, <3>2 DEF TypeOK
    <3>5. unloaded' \subseteq Kinds
      BY <3>2 DEF TypeOK
    <3> QED BY <3>3, <3>4, <3>5
  <2>2. crashes' = crashes /\ terminations' = terminations /\ faults' \in 0..MaxFaults
    BY <1>12, CountersType DEF Bookmark, TypeOK
  <2> QED BY <1>12, <2>1, <2>2 DEF Bookmark, TypeOK
<1>13. ASSUME NEW k \in Kinds, WatchFails(k) PROVE TypeOK'
  BY <1>13, CountersType DEF WatchFails, TypeOK
<1>14. ASSUME NEW k \in Kinds, WatchEnds(k) PROVE TypeOK'
  <2>1. /\ pc' \in [Kinds -> {"start", "watching"}] /\ todo' \in [Kinds -> SUBSET (1..MaxLog)]
        /\ cut' \subseteq 1..MaxLog
    BY <1>14 DEF WatchEnds, TypeOK
  <2> QED BY <1>14, <2>1, CountersType DEF WatchEnds, TypeOK
<1>15. CASE UNCHANGED vars
  BY <1>15, CountersType DEF vars, TypeOK
<1> QED
  BY <1>1, <1>2, <1>3, <1>4, <1>5, <1>6, <1>7, <1>8, <1>9, <1>10, <1>11, <1>12, <1>13, <1>14, <1>15
     DEF Next, Monitor

\* What a step of something else leaves of a monitor.
LEMMA KeepKind ==
  ASSUME NEW k \in Kinds, Watch(k), ToList(k), Durable(k), UNCHANGED log, k \in unloaded => k \in unloaded',
         pc'[k] = pc[k], cursor'[k] = cursor[k], tail'[k] = tail[k], todo'[k] = todo[k],
         out'[k] = out[k], saved'[k] = saved[k], listed'[k] = listed[k],
         saved[k] >= horizon' => saved[k] >= horizon
  PROVE  Watch(k)' /\ ToList(k)' /\ Durable(k)'
  <1>1. Watch(k)'
    BY DEF Watch
  <1>2. ToList(k)'
    BY DEF ToList, Kind, LastEvent
  <1>3. Durable(k)'
    BY DEF Durable
  <1> QED BY <1>1, <1>2, <1>3

\* The facts about a monitor that its steps use.
LEMMA MonitorType ==
  ASSUME TypeOK, NEW k \in Kinds
  PROVE  /\ Len(log) \in Nat /\ Len(log) <= MaxLog /\ horizon \in Nat
         /\ saved[k] \in Nat /\ cursor[k] \in Nat /\ tail[k] \in Nat /\ listed[k] \in Nat
         /\ pc[k] \in {"start", "watching"} /\ todo[k] \subseteq Nat \ {0}
         /\ out[k] \in Seq(Messages)
  BY DEF TypeOK

LEMMA CommitKind ==
  ASSUME TypeOK, TypeOK', NEW k \in Kinds, Watch(k), ToList(k), Durable(k), Commit
  PROVE  Watch(k)' /\ ToList(k)' /\ Durable(k)'
  <1>1. PICK o \in Objects, op \in {"i", "u", "d"} : log' = Append(log, [obj |-> o, op |-> op])
    BY DEF Commit
  <1>2. UNCHANGED <<horizon, saved, pc, cursor, todo, tail, out, listed, unloaded>>
    BY DEF Commit, monitor, history
  <1>3. /\ Len(log') = Len(log) + 1 /\ \A i \in 1..Len(log) : log'[i] = log[i]
        /\ log'[Len(log) + 1].obj = o
    BY <1>1 DEF TypeOK, Event
  <1>4. Watch(k)'
    BY <1>2, <1>3, MonitorType DEF Watch
  <1>5. Durable(k)'
    BY <1>2 DEF Durable
  <1>6. ASSUME NEW i \in todo[k]
        PROVE  /\ i <= tail[k] /\ i # cursor[k] /\ Kind(i)' = k
               /\ LastEvent(log[i].obj)' = i \/ LastEvent(log[i].obj)' > tail[k]
               /\ log'[i] = log[i]
    <2>1. i \in 1..Len(log) /\ i <= tail[k] /\ i # cursor[k] /\ Kind(i) = k /\ tail[k] <= Len(log)
      BY MonitorType DEF ToList, Watch
    <2>2. log'[i] = log[i]
      BY <1>3, <2>1
    <2> DEFINE p == log[i].obj
               a == LastEvent(p)
               b == LastEvent(p)'
    <2>3. LastOf(log, p, a) /\ (a = i \/ a > tail[k])
      BY LastIsNow DEF ToList
    <2>4. LastOf(log', p, b)
      <3>1. b = Max({0} \cup {j \in DOMAIN log' : log'[j].obj = log'[i].obj})
        BY DEF LastEvent
      <3>2. LastOf(log', log'[i].obj, Max({0} \cup {j \in DOMAIN log' : log'[j].obj = log'[i].obj}))
        BY LastIs DEF TypeOK
      <3> QED BY <2>2, <3>1, <3>2
    <2> HIDE DEF a, b
    <2>5. a \in 0..Len(log) /\ b \in 0..(Len(log) + 1)
      BY <1>3, <2>3, <2>4 DEF LastOf
    <2>6. CASE p = o
      <3>1. Len(log) + 1 \in 1..Len(log') /\ log'[Len(log) + 1].obj = p
        BY <1>3, <2>6, MonitorType
      <3>2. Len(log) + 1 <= b
        BY <2>4, <3>1 DEF LastOf
      <3>3. b > tail[k]
        BY <2>1, <2>5, <3>2, MonitorType
      <3> QED BY <2>1, <2>2, <3>3 DEF p, b, Kind
    <2>7. CASE p # o
      <3>1. LastOf(log', p, a)
        <4>1. \A j \in 1..Len(log') : log'[j].obj = p => j \in 1..Len(log)
          BY <1>3, <2>7, MonitorType
        <4>2. \A j \in 1..Len(log') : log'[j].obj = p => j <= a
          BY <1>3, <2>3, <4>1 DEF LastOf
        <4>3. a # 0 => log'[a].obj = p
          BY <1>3, <2>3, <2>5 DEF LastOf
        <4>4. a \in 0..Len(log')
          BY <1>3, <2>5, MonitorType
        <4> QED BY <4>2, <4>3, <4>4 DEF LastOf
      <3>2. a = b
        BY <2>4, <3>1, LastUnique DEF TypeOK
      <3> QED BY <2>1, <2>2, <2>3, <3>2 DEF b, p, Kind
    <2> QED BY <2>6, <2>7
  <1>7. ToList(k)'
    BY <1>2, <1>6 DEF ToList
  <1> QED BY <1>4, <1>5, <1>7

LEMMA StartListKind ==
  ASSUME TypeOK, NEW k \in Kinds, Standing(k), StartList(k)
  PROVE  Standing(k)'
  <1>1. /\ cursor[k] = 0 /\ pc[k] = "start" /\ pc'[k] = "watching" /\ tail'[k] = Len(log)
        /\ listed'[k] = Len(log)
        /\ todo'[k] = {LastEvent(o) : o \in {x \in Objects : KindOf[x] = k /\ Live(x)}}
        /\ UNCHANGED <<log, horizon, saved, cursor, out, unloaded>>
    BY DEF StartList, TypeOK, source
  <1>2. Watch(k)'
    BY <1>1, MonitorType, RangeEmpty DEF Standing, Watch
  <1>3. Durable(k)'
    <2>1. ~(k \notin unloaded /\ saved[k] # 0 /\ saved[k] >= horizon)
      BY <1>1, MonitorType DEF Standing, Durable
    <2> QED BY <1>1, <2>1 DEF Durable
  <1>4. ASSUME NEW i \in todo'[k]
        PROVE  /\ i <= tail'[k] /\ i # cursor'[k] /\ Kind(i) = k
               /\ LastEvent(log[i].obj) = i
    <2>1. PICK o \in Objects : KindOf[o] = k /\ Live(o) /\ i = LastEvent(o)
      BY <1>1
    <2>2. LastOf(log, o, i) /\ i # 0
      BY <2>1, LastIsNow DEF Live
    <2>3. i \in 0..Len(log) /\ log[i].obj = o
      BY <2>2 DEF LastOf
    <2> QED BY <1>1, <2>1, <2>2, <2>3, MonitorType DEF Kind
  <1>5. ToList(k)'
    BY <1>1, <1>4 DEF ToList, Kind, LastEvent
  <1> QED BY <1>2, <1>3, <1>5 DEF Standing

LEMMA StartWatchKind ==
  ASSUME TypeOK, NEW k \in Kinds, Standing(k), StartWatch(k)
  PROVE  Standing(k)'
  <1>1. /\ pc[k] = "start" /\ tail'[k] = cursor[k]
        /\ UNCHANGED <<log, horizon, saved, cursor, out, todo, unloaded, listed>>
    BY DEF StartWatch, TypeOK, source, history
  <1>2. Watch(k)'
    BY <1>1, MonitorType, RangeEmpty DEF Standing, Watch
  <1>3. Durable(k)'
    BY <1>1 DEF Standing, Durable
  <1>4. ToList(k)'
    BY <1>1 DEF Standing, ToList, Watch
  <1> QED BY <1>2, <1>3, <1>4 DEF Standing

LEMMA ExpiredKind ==
  ASSUME TypeOK, NEW k \in Kinds, Standing(k), Expired(k)
  PROVE  Standing(k)'
  <1>1. /\ pc[k] = "start" /\ cursor'[k] = 0 /\ cursor[k] < horizon
        /\ UNCHANGED <<log, horizon, saved, pc, tail, out, todo, unloaded, listed>>
    BY DEF Expired, TypeOK, source, history
  <1>2. Watch(k)'
    BY <1>1, MonitorType, RangeEmpty DEF Standing, Watch
  <1>3. Durable(k)'
    BY <1>1, MonitorType DEF Standing, Durable
  <1>4. ToList(k)'
    BY <1>1 DEF Standing, ToList, Watch
  <1> QED BY <1>2, <1>3, <1>4 DEF Standing

LEMMA WatchEndsKind ==
  ASSUME TypeOK, NEW k \in Kinds, Standing(k), WatchEnds(k)
  PROVE  Standing(k)'
  <1>1. /\ pc'[k] = "start" /\ todo'[k] = {} /\ out[k] = <<>>
        /\ UNCHANGED <<log, horizon, saved, cursor, tail, out, unloaded, listed>>
    BY DEF WatchEnds, TypeOK, source
  <1>2. Watch(k)'
    BY <1>1, MonitorType, RangeEmpty DEF Standing, Watch
  <1>3. Durable(k)'
    BY <1>1, MonitorType DEF Standing, Durable
  <1>4. ToList(k)'
    BY <1>1 DEF ToList
  <1> QED BY <1>2, <1>3, <1>4 DEF Standing

LEMMA BookmarkKind ==
  ASSUME TypeOK, NEW k \in Kinds, Standing(k), Bookmark(k)
  PROVE  Standing(k)'
  <1>1. /\ pc[k] = "watching" /\ out[k] = <<>> /\ todo[k] = {}
        /\ cursor'[k] = Len(log) /\ tail'[k] = Len(log)
        /\ UNCHANGED <<log, horizon, pc, todo, out, listed>>
    BY DEF Bookmark, TypeOK, source
  <1>2. \/ saved'[k] = Len(log)
        \/ saved' = saved /\ unloaded' = unloaded
    BY DEF Bookmark, StoreCursor, TypeOK
  <1>3. Watch(k)'
    BY <1>1, <1>2, MonitorType, RangeEmpty DEF Standing, Watch
  <1>4. Durable(k)'
    BY <1>1, <1>2, MonitorType DEF Standing, Durable, Watch
  <1>5. ToList(k)'
    BY <1>1 DEF ToList
  <1> QED BY <1>3, <1>4, <1>5 DEF Standing

LEMMA SendKind ==
  ASSUME TypeOK, NEW k \in Kinds, Standing(k), Send(k)
  PROVE  Standing(k)'
  <1>1. /\ out[k] # <<>> /\ out'[k] = Tail(out[k])
        /\ UNCHANGED <<log, horizon, saved, pc, cursor, todo, tail, unloaded, listed>>
    BY DEF Send, TypeOK, source, history
  <1>2. Range(out'[k]) \subseteq Range(out[k])
    BY <1>1, MonitorType, RangeTail
  <1>3. Watch(k)'
    BY <1>1, <1>2, MonitorType DEF Standing, Watch
  <1>4. Durable(k)'
    BY <1>1 DEF Standing, Durable
  <1>5. ToList(k)'
    <2>1. todo'[k] = todo[k] /\ tail'[k] = tail[k] /\ cursor'[k] = cursor[k] /\ log' = log
      BY <1>1
    <2> QED BY <2>1 DEF Standing, ToList, Kind, LastEvent
  <1> QED BY <1>3, <1>4, <1>5 DEF Standing

LEMMA ReadListedKind ==
  ASSUME TypeOK, NEW k \in Kinds, Standing(k), ReadListed(k)
  PROVE  Standing(k)'
  <1>1. PICK i \in todo[k] : Take(k, i) /\ todo' = [todo EXCEPT ![k] = @ \ {i}]
    BY DEF ReadListed
  <1>2. /\ pc[k] = "watching" /\ todo'[k] = todo[k] \ {i}
        /\ UNCHANGED <<log, horizon, saved, pc, tail, unloaded, listed>>
    BY <1>1 DEF ReadListed, TypeOK, source, history
  <1>3. i \in 1..Len(log) /\ i <= tail[k] /\ Kind(i) = k
    BY <1>1, MonitorType DEF Standing, ToList, Watch
  <1>4. /\ cursor'[k] = i
        /\ \A m \in Range(out'[k]) : m[2] = i /\ m[1][1] = log[i].obj
    BY <1>1, <1>3, TakeFacts
  <1>5. Watch(k)'
    BY <1>2, <1>3, <1>4, MonitorType DEF Standing, Watch, Kind
  <1>6. Durable(k)'
    BY <1>1, <1>2 DEF Standing, Durable
  <1>7. ToList(k)'
    BY <1>2, <1>4 DEF Standing, ToList, Kind, LastEvent
  <1> QED BY <1>5, <1>6, <1>7 DEF Standing

LEMMA ReadEventKind ==
  ASSUME TypeOK, NEW k \in Kinds, Standing(k), ReadEvent(k)
  PROVE  Standing(k)'
  <1> DEFINE i == Min(NextVersion(k))
  <1>1. i \in NextVersion(k) /\ Take(k, i) /\ tail' = [tail EXCEPT ![k] = i]
    BY NextIs DEF ReadEvent
  <1> HIDE DEF i
  <1>2. /\ pc[k] = "watching" /\ todo[k] = {} /\ tail'[k] = i
        /\ UNCHANGED <<log, horizon, saved, pc, todo, unloaded, listed>>
    BY <1>1 DEF ReadEvent, TypeOK, source, history
  <1>3. i \in 1..Len(log) /\ i > tail[k] /\ Kind(i) = k
    BY <1>1 DEF NextVersion, TypeOK
  <1>4. /\ cursor'[k] = i
        /\ \A m \in Range(out'[k]) : m[2] = i /\ m[1][1] = log[i].obj
    BY <1>1, <1>3, TakeFacts
  <1>5. Watch(k)'
    BY <1>2, <1>3, <1>4, MonitorType DEF Standing, Watch, Kind
  <1>6. Durable(k)'
    BY <1>2, <1>3, <1>4, MonitorType DEF Standing, Durable, Watch
  <1>7. ToList(k)'
    BY <1>2 DEF ToList
  <1> QED BY <1>5, <1>6, <1>7 DEF Standing

\* A kind starts again from its durable cursor, or from none that was lost.
LEMMA Loaded ==
  ASSUME TypeOK, NEW k \in Kinds, Restart
  PROVE  cursor'[k] = saved[k] \/ (cursor'[k] = 0 /\ k \in unloaded')
  <1>1. CASE cursor' = saved
    BY <1>1
  <1>2. CASE \E lost \in SUBSET Kinds :
               /\ cursor' = [x \in Kinds |-> IF x \in lost THEN 0 ELSE saved[x]]
               /\ unloaded' = lost
    BY <1>2
  <1> QED BY <1>1, <1>2 DEF Restart, LoadCursors

LEMMA RestartKind ==
  ASSUME TypeOK, NEW k \in Kinds, Standing(k), Restart
  PROVE  Standing(k)'
  <1>1. /\ pc'[k] = "start" /\ todo'[k] = {} /\ tail'[k] = 0 /\ out'[k] = <<>>
        /\ UNCHANGED <<log, horizon, saved, listed>>
    BY DEF Restart, TypeOK, source
  <1>2. cursor'[k] = saved[k] \/ (cursor'[k] = 0 /\ k \in unloaded')
    BY Loaded
  <1>3. Watch(k)'
    BY <1>1, <1>2, MonitorType, RangeEmpty DEF Standing, Watch
  <1>4. Durable(k)'
    BY <1>1, <1>2, MonitorType DEF Durable
  <1>5. ToList(k)'
    BY <1>1 DEF ToList
  <1> QED BY <1>3, <1>4, <1>5 DEF Standing

LEMMA StandingInit == Init => \A k \in Kinds : Standing(k)
  <1> SUFFICES ASSUME Init, NEW k \in Kinds PROVE Standing(k)
    OBVIOUS
  <1>1. /\ log = <<>> /\ horizon = 0 /\ saved[k] = 0 /\ cursor[k] = 0 /\ tail[k] = 0
        /\ todo[k] = {} /\ out[k] = <<>> /\ listed[k] = 0 /\ pc[k] = "start"
    BY DEF Init
  <1>2. Len(log) = 0
    BY <1>1
  <1> QED BY <1>1, <1>2, RangeEmpty DEF Standing, Watch, ToList, Durable

\* Where every monitor stands after a step.
LEMMA StandingStep ==
  ASSUME TypeOK, TypeOK', \A k \in Kinds : Standing(k), [Next]_vars
  PROVE  \A k \in Kinds : Standing(k)'
<1> SUFFICES ASSUME NEW x \in Kinds PROVE Standing(x)'
  OBVIOUS
<1>s. Standing(x) /\ Watch(x) /\ ToList(x) /\ Durable(x)
  BY DEF Standing
<1>k. ASSUME UNCHANGED <<log, horizon>>, x \in unloaded => x \in unloaded',
             pc'[x] = pc[x], cursor'[x] = cursor[x], tail'[x] = tail[x], todo'[x] = todo[x],
             out'[x] = out[x], saved'[x] = saved[x], listed'[x] = listed[x]
      PROVE  Standing(x)'
  <2>1. saved[x] >= horizon' => saved[x] >= horizon
    BY <1>k
  <2>2. Watch(x)' /\ ToList(x)' /\ Durable(x)'
    BY <1>s, <1>k, <2>1, KeepKind
  <2> QED BY <1>s, <1>k, <2>2 DEF Standing
<1>m. ASSUME NEW k \in Kinds, Standing(k)', UNCHANGED <<log, horizon>>,
             x # k => /\ pc'[x] = pc[x] /\ cursor'[x] = cursor[x] /\ tail'[x] = tail[x]
                      /\ todo'[x] = todo[x] /\ out'[x] = out[x] /\ saved'[x] = saved[x]
                      /\ listed'[x] = listed[x] /\ (x \in unloaded => x \in unloaded')
      PROVE  Standing(x)'
  BY <1>s, <1>k, <1>m
<1>1. CASE Commit
  BY <1>1, <1>s, CommitKind DEF Standing
<1>2. CASE Compact
  <2>1. /\ horizon' \in (horizon + 1)..Len(log)
        /\ UNCHANGED <<log, saved, pc, cursor, todo, tail, out, listed, unloaded>>
    BY <1>2 DEF Compact, monitor, history
  <2>2. saved[x] >= horizon' => saved[x] >= horizon
    BY <2>1, MonitorType
  <2> QED BY <1>s, <2>1, <2>2, KeepKind DEF Standing
<1>3. CASE NextChange \/ Publish
  BY <1>3, <1>k DEF NextChange, Publish, source, monitor, history
<1>4. CASE PublishFails \/ Crash \/ Terminate
  <2>1. Restart
    BY <1>4 DEF PublishFails, Crash, Terminate
  <2> QED BY <1>s, <2>1, RestartKind DEF Restart, source
<1>5. CASE Deprovision
  <2>1. UNCHANGED <<log, horizon, pc, cursor, todo, tail, out, listed, unloaded>>
    BY <1>5 DEF Deprovision, source, monitor, history
  <2>2. saved'[x] = saved[x] \/ saved'[x] = 0
    BY <1>5 DEF Deprovision, DeleteCursors
  <2>3. CASE saved'[x] = 0
    <3>1. Watch(x)'
      <4>1. saved'[x] <= Len(log)
        BY <2>3, MonitorType
      <4> QED BY <1>s, <2>1, <4>1 DEF Watch
    <3>2. Durable(x)'
      BY <2>3 DEF Durable
    <3>3. todo' = todo /\ tail' = tail /\ cursor' = cursor /\ log' = log
      BY <2>1
    <3>4. ToList(x)'
      BY <1>s, <3>3, Zenon DEF ToList, Kind, LastEvent
    <3> QED BY <1>s, <2>1, <3>1, <3>2, <3>4 DEF Standing
  <2> QED BY <1>k, <2>1, <2>2, <2>3
<1>6. ASSUME NEW k \in Kinds, StartList(k) PROVE Standing(x)'
  BY <1>6, <1>m, StartListKind DEF StartList, TypeOK, source
<1>7. ASSUME NEW k \in Kinds, StartWatch(k) PROVE Standing(x)'
  BY <1>7, <1>m, StartWatchKind DEF StartWatch, TypeOK, source, history
<1>8. ASSUME NEW k \in Kinds, Expired(k) PROVE Standing(x)'
  BY <1>8, <1>m, ExpiredKind DEF Expired, TypeOK, source, history
<1>9. ASSUME NEW k \in Kinds, ReadListed(k) PROVE Standing(x)'
  <2>1. x # k => cursor'[x] = cursor[x] /\ out'[x] = out[x] /\ todo'[x] = todo[x]
    BY <1>9 DEF ReadListed, Take, TypeOK
  <2> QED BY <1>9, <1>m, <2>1, ReadListedKind DEF ReadListed, source, history
<1>10. ASSUME NEW k \in Kinds, ReadEvent(k) PROVE Standing(x)'
  <2>1. x # k => cursor'[x] = cursor[x] /\ out'[x] = out[x] /\ tail'[x] = tail[x]
    BY <1>10 DEF ReadEvent, Take, TypeOK
  <2> QED BY <1>10, <1>m, <2>1, ReadEventKind DEF ReadEvent, source, history
<1>11. ASSUME NEW k \in Kinds, Send(k) PROVE Standing(x)'
  BY <1>11, <1>m, SendKind DEF Send, TypeOK, source, history
<1>12. ASSUME NEW k \in Kinds, Bookmark(k) PROVE Standing(x)'
  <2>1. x # k => /\ cursor'[x] = cursor[x] /\ tail'[x] = tail[x] /\ saved'[x] = saved[x]
                 /\ (x \in unloaded => x \in unloaded')
    BY <1>12 DEF Bookmark, StoreCursor, TypeOK
  <2> QED BY <1>12, <1>m, <2>1, BookmarkKind DEF Bookmark, source
<1>13. ASSUME NEW k \in Kinds, WatchFails(k) PROVE Standing(x)'
  BY <1>13, <1>k DEF WatchFails, source, monitor, history
<1>14. ASSUME NEW k \in Kinds, WatchEnds(k) PROVE Standing(x)'
  BY <1>14, <1>m, WatchEndsKind DEF WatchEnds, TypeOK, source
<1>15. CASE UNCHANGED vars
  BY <1>15, <1>k DEF vars, source, monitor, history
<1> QED
  BY <1>1, <1>2, <1>3, <1>4, <1>5, <1>6, <1>7, <1>8, <1>9, <1>10, <1>11, <1>12, <1>13, <1>14, <1>15
     DEF Next, Monitor

(***************************************************************************)
(* What is published last.                                                 *)
(***************************************************************************)

LEMMA ElementType ==
  ASSUME TypeOK, NEW e \in Elements
  PROVE  /\ e[1] \in Objects /\ KindOf[e[1]] \in Kinds
         /\ LastEvent(e[1]) \in 0..Len(log) /\ LastEvent(e[1]) \in Nat /\ Len(log) <= MaxLog
         /\ LastEvent(e[1]) # 0 =>
              /\ log[LastEvent(e[1])].obj = e[1] /\ Kind(LastEvent(e[1])) = KindOf[e[1]]
              /\ <<e, LastEvent(e[1])>> \in Messages
  <1>1. e[1] \in Objects
    BY DEF Elements
  <1>2. KindOf[e[1]] \in Kinds
    BY <1>1, ReactivatorAssumption
  <1>3. LastOf(log, e[1], LastEvent(e[1])) /\ Len(log) \in Nat /\ Len(log) <= MaxLog
    BY LastIsNow DEF TypeOK
  <1>4. /\ LastEvent(e[1]) \in 0..Len(log)
        /\ LastEvent(e[1]) # 0 => log[LastEvent(e[1])].obj = e[1]
    BY <1>3 DEF LastOf
  <1>5. LastEvent(e[1]) \in Nat /\ (LastEvent(e[1]) # 0 => LastEvent(e[1]) \in 1..MaxLog)
    BY <1>3, <1>4, ReactivatorAssumption
  <1>6. LastEvent(e[1]) # 0 => <<e, LastEvent(e[1])>> \in Messages
    BY <1>5 DEF Messages
  <1> QED BY <1>1, <1>2, <1>3, <1>4, <1>5, <1>6 DEF Kind

\* Losses are not forgotten.  A step that keeps what is unread unread, or excuses it, and
\* keeps what is published last, keeps an element fresh.
LEMMA KeepFresh ==
  ASSUME TypeOK, NEW e \in Elements, NEW i, i = LastEvent(e[1]), UNCHANGED log, Fresh(e),
         dropped \subseteq dropped', skipped \subseteq skipped', cut \subseteq cut',
         listed'[KindOf[e[1]]] \in Nat, listed[KindOf[e[1]]] <= listed'[KindOf[e[1]]],
         i # 0 /\ Unread(KindOf[e[1]], i) => Unread(KindOf[e[1]], i)' \/ Excused(e, i)' \/ Newest(e, i)',
         i # 0 /\ Newest(e, i) /\ ~Unread(KindOf[e[1]], i) =>
           Unread(KindOf[e[1]], i)' \/ Excused(e, i)' \/ Newest(e, i)'
  PROVE  Fresh(e)'
  <1>1. LastEvent(e[1])' = i
    BY DEF LastEvent
  <1>2. i # 0 /\ Excused(e, i) => Excused(e, i)'
    <2> SUFFICES ASSUME i # 0, Excused(e, i) PROVE Excused(e, i)'
      OBVIOUS
    <2>1. i \in Nat /\ Kind(i) = KindOf[e[1]] /\ Kind(i)' = KindOf[e[1]] /\ listed[KindOf[e[1]]] \in Nat
      <3>1. i \in Nat /\ Kind(i) = KindOf[e[1]] /\ KindOf[e[1]] \in Kinds
        BY ElementType
      <3>2. Kind(i)' = Kind(i)
        BY DEF Kind
      <3> QED BY <3>1, <3>2 DEF TypeOK
    <2>2. i <= listed[Kind(i)] => i <= listed'[KindOf[e[1]]]
      BY <2>1
    <2> QED BY <2>1, <2>2 DEF Excused
  <1>3. i = 0 \/ Unread(KindOf[e[1]], i) \/ Excused(e, i) \/ Newest(e, i)
    BY DEF Fresh
  <1>4. i = 0 \/ Unread(KindOf[e[1]], i)' \/ Excused(e, i)' \/ Newest(e, i)'
    BY <1>2, <1>3
  <1> QED BY <1>1, <1>4 DEF Fresh

LEMMA KeepNewest ==
  ASSUME NEW e \in Elements, NEW i, Newest(e, i), out'[KindOf[e[1]]] = out[KindOf[e[1]]],
         Of(e, chan') = Of(e, chan), Of(e, hand') = Of(e, hand), view'[e] = view[e]
  PROVE  Newest(e, i)'
  BY DEF Newest, Of

LEMMA KeepUnread ==
  ASSUME NEW k \in Kinds, NEW i, Unread(k, i), pc'[k] = pc[k], cursor'[k] = cursor[k],
         todo'[k] = todo[k], tail'[k] = tail[k], horizon' = horizon
  PROVE  Unread(k, i)'
  BY DEF Unread

\* A new version is still to be read, whatever the monitor is doing.
LEMMA CommitFresh ==
  ASSUME TypeOK, TypeOK', NEW e \in Elements, Fresh(e), \A k \in Kinds : Standing(k), Commit
  PROVE  Fresh(e)'
  <1> DEFINE k == KindOf[e[1]]
  <1>1. PICK o \in Objects, op \in {"i", "u", "d"} : log' = Append(log, [obj |-> o, op |-> op])
    BY DEF Commit
  <1>2. /\ UNCHANGED <<horizon, saved, pc, cursor, todo, tail, out, chan, hand, view, dropped, skipped,
                       cut, listed>>
    BY DEF Commit, monitor, history
  <1>3. /\ Len(log') = Len(log) + 1 /\ \A j \in 1..Len(log) : log'[j] = log[j]
        /\ log'[Len(log) + 1].obj = o /\ Len(log) \in Nat
    BY <1>1 DEF TypeOK, Event
  <1>4. PICK i : i = LastEvent(e[1])
    OBVIOUS
  <1>5. PICK j : j = LastEvent(e[1])'
    OBVIOUS
  <1>6. LastOf(log, e[1], i) /\ LastOf(log', e[1], j)
    BY <1>4, <1>5, LastIs DEF TypeOK, LastEvent
  <1>7. i \in 0..Len(log) /\ j \in 0..(Len(log) + 1) /\ k \in Kinds
    BY <1>3, <1>6, ElementType DEF LastOf
  <1>8. cursor[k] <= Len(log) /\ tail[k] <= Len(log) /\ cursor[k] \in Nat /\ tail[k] \in Nat
        /\ pc[k] \in {"start", "watching"}
    BY <1>7, MonitorType DEF Standing, Watch
  <1> HIDE DEF k
  <1>9. CASE o = e[1]
    <2>1. Len(log) + 1 \in 1..Len(log') /\ log'[Len(log) + 1].obj = e[1]
      BY <1>3, <1>9
    <2>2. Len(log) + 1 <= j
      BY <1>6, <2>1 DEF LastOf
    <2>3. j > cursor[k] /\ j > tail[k]
      BY <1>7, <1>8, <1>3, <2>2
    <2>4. Unread(k, j)'
      BY <1>2, <1>8, <2>3 DEF Unread
    <2> QED BY <1>5, <2>4 DEF Fresh, k
  <1>10. CASE o # e[1]
    <2>1. LastOf(log', e[1], i)
      <3>1. \A x \in 1..Len(log') : log'[x].obj = e[1] => x \in 1..Len(log)
        BY <1>3, <1>10
      <3>2. \A x \in 1..Len(log') : log'[x].obj = e[1] => x <= i
        BY <1>3, <1>6, <3>1 DEF LastOf
      <3>3. i # 0 => log'[i].obj = e[1]
        BY <1>3, <1>6, <1>7 DEF LastOf
      <3>4. i \in 0..Len(log')
        BY <1>3, <1>7
      <3> QED BY <3>2, <3>3, <3>4 DEF LastOf
    <2>2. i = j
      BY <1>6, <2>1, LastUnique DEF TypeOK
    <2>3. i # 0 => log'[i] = log[i]
      BY <1>3, <1>7
    <2>4. Unread(k, i) => Unread(k, i)'
      BY <1>2, <1>7, KeepUnread
    <2>5. i # 0 /\ Excused(e, i) => Excused(e, i)'
      BY <1>2, <2>3 DEF Excused, Kind
    <2>6. Newest(e, i) => Newest(e, i)'
      BY <1>2, KeepNewest
    <2> QED BY <1>4, <1>5, <2>2, <2>4, <2>5, <2>6 DEF Fresh, k
  <1> QED BY <1>9, <1>10

\* What the steps below have at hand of an element, its kind and its last version.
Context(e, k, i) ==
  /\ k = KindOf[e[1]] /\ k \in Kinds /\ i = LastEvent(e[1]) /\ i \in 0..Len(log)
  /\ Len(log) \in Nat /\ Fresh(e) /\ Standing(k)
  /\ cursor[k] \in Nat /\ tail[k] \in Nat /\ saved[k] \in Nat /\ horizon \in Nat /\ listed[k] \in Nat
  /\ pc[k] \in {"start", "watching"} /\ out[k] \in Seq(Messages)

LEMMA ContextIs ==
  ASSUME TypeOK, NEW e \in Elements, Fresh(e), \A x \in Kinds : Standing(x)
  PROVE  \E k \in Kinds, i \in Nat : Context(e, k, i)
  <1>1. KindOf[e[1]] \in Kinds /\ LastEvent(e[1]) \in 0..Len(log) /\ LastEvent(e[1]) \in Nat
    BY ElementType
  <1>2. Context(e, KindOf[e[1]], LastEvent(e[1]))
    BY <1>1, MonitorType DEF Context
  <1> QED BY <1>1, <1>2

LEMMA StartListFresh ==
  ASSUME TypeOK, NEW e \in Elements, NEW k \in Kinds, NEW i \in Nat, Context(e, k, i), StartList(k)
  PROVE  Fresh(e)'
  <1>1. /\ UNCHANGED <<log, dropped, skipped, cut>>
        /\ pc'[k] = "watching" /\ listed'[k] = Len(log)
        /\ todo'[k] = {LastEvent(o) : o \in {x \in Objects : KindOf[x] = k /\ Live(x)}}
    BY DEF StartList, TypeOK, source
  <1>2. i # 0 => Unread(k, i)' \/ Excused(e, i)'
    <2> SUFFICES ASSUME i # 0 PROVE Unread(k, i)' \/ Excused(e, i)'
      OBVIOUS
    <2>1. CASE Live(e[1])
      <3>1. i \in todo'[k]
        BY <1>1, <2>1, ElementType DEF Context
      <3> QED BY <1>1, <3>1 DEF Unread
    <2>2. CASE ~Live(e[1])
      <3>1. log[i].op = "d" /\ Kind(i) = k
        BY <2>2, ElementType DEF Live, Context
      <3>2. i <= listed'[k]
        BY <1>1 DEF Context
      <3> QED BY <1>1, <3>1, <3>2 DEF Excused, Kind
    <2> QED BY <2>1, <2>2
  <1>3. listed'[k] \in Nat /\ listed[k] <= listed'[k]
    BY <1>1 DEF Context, Standing, Watch
  <1> QED BY <1>1, <1>2, <1>3, KeepFresh DEF Context

LEMMA StartWatchFresh ==
  ASSUME TypeOK, NEW e \in Elements, NEW k \in Kinds, NEW i \in Nat, Context(e, k, i), StartWatch(k)
  PROVE  Fresh(e)'
  <1>1. /\ UNCHANGED <<log, out, chan, hand, view, dropped, skipped, cut, listed>>
        /\ pc[k] = "start" /\ pc'[k] = "watching" /\ cursor[k] # 0 /\ cursor[k] >= horizon
        /\ tail'[k] = cursor[k]
    BY DEF StartWatch, TypeOK, source, history
  <1>2. Unread(k, i) => Unread(k, i)'
    BY <1>1 DEF Unread, Context
  <1>3. Newest(e, i) => Newest(e, i)'
    BY <1>1, KeepNewest
  <1> QED BY <1>1, <1>2, <1>3, KeepFresh DEF Context

LEMMA ExpiredFresh ==
  ASSUME TypeOK, NEW e \in Elements, NEW k \in Kinds, NEW i \in Nat, Context(e, k, i), Expired(k)
  PROVE  Fresh(e)'
  <1>1. /\ UNCHANGED <<log, dropped, skipped, cut, listed>>
        /\ pc'[k] = "start" /\ cursor'[k] = 0
    BY DEF Expired, TypeOK, source, history
  <1>2. Unread(k, i)'
    BY <1>1 DEF Unread
  <1> QED BY <1>1, <1>2, KeepFresh DEF Context

LEMMA WatchEndsFresh ==
  ASSUME TypeOK, NEW e \in Elements, NEW k \in Kinds, NEW i \in Nat, Context(e, k, i), WatchEnds(k)
  PROVE  Fresh(e)'
  <1>1. /\ UNCHANGED <<log, cursor, tail, out, chan, hand, view, dropped, skipped, listed>>
        /\ pc[k] = "watching" /\ pc'[k] = "start"
        /\ cut' = cut \cup {j \in todo[k] : j < cursor[k]}
    BY DEF WatchEnds, TypeOK, source
  <1>2. Unread(k, i) => Unread(k, i)' \/ Excused(e, i)'
    <2> SUFFICES ASSUME Unread(k, i) PROVE Unread(k, i)' \/ Excused(e, i)'
      OBVIOUS
    <2>1. i \in todo[k] \/ i > tail[k]
      BY <1>1 DEF Unread
    <2>2. cursor[k] <= tail[k] /\ (i \in todo[k] => i # cursor[k])
      BY <1>1 DEF Context, Standing, Watch, ToList
    <2>3. i > cursor[k] \/ (i \in todo[k] /\ i < cursor[k])
      BY <2>1, <2>2 DEF Context
    <2>4. CASE i > cursor[k]
      BY <1>1, <2>4 DEF Unread
    <2>5. CASE i \in todo[k] /\ i < cursor[k]
      BY <1>1, <2>5 DEF Excused
    <2> QED BY <2>3, <2>4, <2>5
  <1>3. Newest(e, i) => Newest(e, i)'
    BY <1>1, KeepNewest
  <1> QED BY <1>1, <1>2, <1>3, KeepFresh DEF Context

LEMMA BookmarkFresh ==
  ASSUME TypeOK, NEW e \in Elements, NEW k \in Kinds, NEW i \in Nat, Context(e, k, i), Bookmark(k)
  PROVE  Fresh(e)'
  <1>1. /\ UNCHANGED <<log, out, chan, hand, view, dropped, skipped, cut, listed>>
        /\ pc[k] = "watching" /\ todo[k] = {} /\ NextVersion(k) = {}
    BY DEF Bookmark, source
  <1>2. i # 0 => ~Unread(k, i)
    <2> SUFFICES ASSUME i # 0, Unread(k, i) PROVE FALSE
      OBVIOUS
    <2>1. i > tail[k] /\ Kind(i) = k
      BY <1>1, ElementType DEF Unread, Context
    <2>2. i \in DOMAIN log
      BY DEF Context, TypeOK
    <2> QED BY <1>1, <2>1, <2>2 DEF NextVersion
  <1>3. Newest(e, i) => Newest(e, i)'
    BY <1>1, KeepNewest
  <1> QED BY <1>1, <1>2, <1>3, KeepFresh DEF Context

\* The event a monitor takes, i or an earlier version of the same element: then i is
\* still to come.
LEMMA TakeFresh ==
  ASSUME TypeOK, NEW e \in Elements, NEW k \in Kinds, NEW i \in Nat, Context(e, k, i),
         NEW j \in 1..Len(log), Take(k, j), Kind(j) = k, i # 0,
         UNCHANGED <<log, chan, hand, view>>, out[k] = <<>>,
         log[j].obj = e[1] => j = i \/ Unread(k, i)',
         log[j].obj # e[1] => (Unread(k, i) => Unread(k, i)')
  PROVE  /\ Unread(k, i) => Unread(k, i)' \/ Newest(e, i)'
         /\ Newest(e, i) => Unread(k, i)' \/ Newest(e, i)'
  <1>1. /\ \A m \in Range(out'[k]) : m[2] = j /\ m[1][1] = log[j].obj
        /\ \A d \in Elements : d[1] = log[j].obj => <<d, j>> \in Range(out'[k])
    BY TakeFacts
  <1>2. CASE log[j].obj = e[1]
    <2>1. j = i => Newest(e, i)'
      <3> SUFFICES ASSUME j = i PROVE Newest(e, i)'
        OBVIOUS
      <3>1. \A m \in Of(e, out'[k]) : m[2] = i
        BY <1>1 DEF Of
      <3>2. <<e, i>> \in Of(e, out'[k])
        BY <1>1, <1>2 DEF Of
      <3>3. Of(e, out[KindOf[e[1]]])' = Of(e, out'[k])
        BY DEF Context, Of
      <3> QED BY <3>1, <3>2, <3>3 DEF Newest
    <2> QED BY <1>2, <2>1
  <1>3. CASE log[j].obj # e[1]
    <2>1. Of(e, out'[k]) = {} /\ Of(e, out[k]) = {}
      BY <1>1, <1>3, RangeEmpty DEF Of
    <2>2. Newest(e, i) => Newest(e, i)'
      BY <2>1 DEF Newest, Context, Of
    <2> QED BY <1>3, <2>2
  <1> QED BY <1>2, <1>3

LEMMA ReadListedFresh ==
  ASSUME TypeOK, NEW e \in Elements, NEW k \in Kinds, NEW i \in Nat, Context(e, k, i), ReadListed(k)
  PROVE  Fresh(e)'
  <1>1. PICK j \in todo[k] : Take(k, j) /\ todo' = [todo EXCEPT ![k] = @ \ {j}]
    BY DEF ReadListed
  <1>2. /\ UNCHANGED <<log, pc, tail, chan, hand, view, dropped, skipped, cut, listed>>
        /\ pc[k] = "watching" /\ out[k] = <<>> /\ todo'[k] = todo[k] \ {j}
    BY <1>1 DEF ReadListed, TypeOK, source, history
  <1>3. /\ j \in 1..Len(log) /\ Kind(j) = k
        /\ LastEvent(log[j].obj) = j \/ LastEvent(log[j].obj) > tail[k]
    BY <1>1, MonitorType DEF Context, Standing, ToList, Watch
  <1>4. log[j].obj = e[1] => j = i \/ Unread(k, i)'
    BY <1>2, <1>3 DEF Context, Unread
  <1>5. i # 0 /\ log[j].obj # e[1] /\ Unread(k, i) => Unread(k, i)'
    <2> SUFFICES ASSUME i # 0, log[j].obj # e[1], Unread(k, i) PROVE Unread(k, i)'
      OBVIOUS
    <2>1. i # j
      BY ElementType DEF Context
    <2> QED BY <1>2, <2>1 DEF Unread
  <1>6. i # 0 => /\ Unread(k, i) => Unread(k, i)' \/ Newest(e, i)'
                 /\ Newest(e, i) => Unread(k, i)' \/ Newest(e, i)'
    BY <1>1, <1>2, <1>3, <1>4, <1>5, TakeFresh
  <1> QED BY <1>2, <1>6, KeepFresh DEF Context

LEMMA ReadEventFresh ==
  ASSUME TypeOK, NEW e \in Elements, NEW k \in Kinds, NEW i \in Nat, Context(e, k, i), ReadEvent(k)
  PROVE  Fresh(e)'
  <1>0. PICK j : j = Min(NextVersion(k))
    OBVIOUS
  <1>1. /\ j \in NextVersion(k) /\ \A x \in NextVersion(k) : j <= x
        /\ Take(k, j) /\ tail' = [tail EXCEPT ![k] = j]
    BY <1>0, NextIs DEF ReadEvent
  <1>2. /\ UNCHANGED <<log, pc, todo, chan, hand, view, dropped, skipped, cut, listed>>
        /\ pc[k] = "watching" /\ out[k] = <<>> /\ todo[k] = {} /\ tail'[k] = j
    BY <1>1 DEF ReadEvent, TypeOK, source, history
  <1>3. j \in 1..Len(log) /\ j > tail[k] /\ Kind(j) = k
    BY <1>1 DEF NextVersion, TypeOK
  <1>4. i # 0 /\ i > tail[k] => i >= j
    <2> SUFFICES ASSUME i # 0, i > tail[k] PROVE i \in NextVersion(k)
      BY <1>1, <1>3
    <2>1. Kind(i) = k
      BY ElementType DEF Context
    <2>2. i \in DOMAIN log
      BY DEF Context, TypeOK
    <2> QED BY <2>1, <2>2 DEF NextVersion
  <1>5. i > j => Unread(k, i)'
    BY <1>2 DEF Unread
  <1>6. log[j].obj = e[1] => j = i \/ Unread(k, i)'
    <2> SUFFICES ASSUME log[j].obj = e[1] PROVE j <= i
      BY <1>3, <1>5
    <2>1. LastOf(log, e[1], i)
      BY LastIsNow DEF Context
    <2> QED BY <1>3, <2>1 DEF LastOf
  <1>7. i # 0 /\ log[j].obj # e[1] /\ Unread(k, i) => Unread(k, i)'
    <2> SUFFICES ASSUME i # 0, log[j].obj # e[1], Unread(k, i) PROVE i > j
      BY <1>5
    <2>1. i # j
      BY ElementType DEF Context
    <2>2. i > tail[k]
      BY <1>2 DEF Unread
    <2> QED BY <1>3, <1>4, <2>1, <2>2
  <1>8. i # 0 => /\ Unread(k, i) => Unread(k, i)' \/ Newest(e, i)'
                 /\ Newest(e, i) => Unread(k, i)' \/ Newest(e, i)'
    BY <1>1, <1>2, <1>3, <1>6, <1>7, TakeFresh
  <1> QED BY <1>2, <1>8, KeepFresh DEF Context

\* The head of what a monitor sends enters an empty channel: the order is kept.
LEMMA SendFresh ==
  ASSUME TypeOK, NEW e \in Elements, NEW k \in Kinds, NEW i \in Nat, Context(e, k, i),
         NEW x \in Kinds, Standing(x), Send(x)
  PROVE  Fresh(e)'
  <1> DEFINE m == Head(out[x])
  <1>1. /\ out[x] # <<>> /\ out'[x] = Tail(out[x]) /\ (k # x => out'[k] = out[k])
        /\ Len(chan) < Capacity /\ chan' = Append(chan, m)
        /\ UNCHANGED <<log, horizon, pc, cursor, todo, tail, hand, view, dropped, skipped, cut, listed>>
    BY DEF Send, TypeOK, source, history
  <1>2. out[x] \in Seq(Messages) /\ chan \in Seq(Messages)
    BY DEF TypeOK
  <1>3. chan = <<>>
    <2>1. ~(Len(chan) \in Nat \ {0})
      BY <1>1 DEF Capacity
    <2> QED BY <1>2, <2>1, EmptySeq, Zenon
  <1>4. /\ Range(out[x]) = {m} \cup Range(out'[x]) /\ m \in Messages
    BY <1>1, <1>2, RangeTail
  <1>5. Range(chan) = {} /\ Range(chan') = {m}
    <2>1. Range(chan) = {}
      BY <1>3, RangeEmpty
    <2>2. Range(Append(chan, m)) = Range(chan) \cup {m}
      BY <1>2, <1>4, RangeAppend
    <2> QED BY <1>1, <2>1, <2>2
  <1>6. KindOf[m[1][1]] = x
    BY <1>4 DEF Standing, Watch
  <1>7. Unread(k, i) => Unread(k, i)'
    BY <1>1, KeepUnread
  <1> HIDE DEF m
  <1>8. Newest(e, i) => Newest(e, i)'
    <2> SUFFICES ASSUME Newest(e, i) PROVE Newest(e, i)'
      OBVIOUS
    <2>1. CASE m[1] # e
      <3>1. Of(e, chan') = {} /\ Of(e, chan) = {} /\ Of(e, out'[x]) = Of(e, out[x])
        BY <1>4, <1>5, <2>1 DEF Of
      <3>2. Of(e, out'[k]) = Of(e, out[k])
        BY <1>1, <3>1
      <3> QED BY <1>1, <3>1, <3>2 DEF Newest, Context, Of
    <2>2. CASE m[1] = e
      <3>1. x = k
        BY <1>6, <2>2 DEF Context
      <3>2. m \in Of(e, out[k]) /\ Of(e, out'[k]) \subseteq Of(e, out[k])
        BY <1>4, <2>2, <3>1 DEF Of
      <3>3. Of(e, chan') = {m}
        BY <1>5, <2>2 DEF Of
      <3>4. \A d \in Of(e, out[k]) : d[2] = i
        BY DEF Newest, Context
      <3>5. (\A d \in Of(e, out'[k]) : d[2] = i) /\ (\A d \in Of(e, chan') : d[2] = i) /\ Of(e, chan') # {}
        BY <3>2, <3>3, <3>4
      <3>6. Of(e, out[KindOf[e[1]]])' = Of(e, out'[k]) /\ Of(e, chan)' = Of(e, chan')
        BY DEF Context, Of
      <3> QED BY <3>5, <3>6 DEF Newest
    <2> QED BY <2>1, <2>2
  <1> QED BY <1>1, <1>7, <1>8, KeepFresh DEF Context

LEMMA NextChangeFresh ==
  ASSUME TypeOK, NEW e \in Elements, NEW k \in Kinds, NEW i \in Nat, Context(e, k, i), NextChange
  PROVE  Fresh(e)'
  <1>1. /\ hand = <<>> /\ chan # <<>> /\ hand' = <<Head(chan)>> /\ chan' = Tail(chan)
        /\ UNCHANGED <<log, horizon, pc, cursor, todo, tail, out, view, dropped, skipped, cut, listed>>
    BY DEF NextChange, source, monitor, history
  <1>2. chan \in Seq(Messages) /\ Len(chan) <= 1
    BY DEF TypeOK, Capacity
  <1>3. Range(chan) = {Head(chan)} /\ chan' = <<>>
    BY <1>1, <1>2, RangeOne
  <1>4. Range(hand') = {Head(chan)}
    BY <1>1 DEF Range
  <1>5. Range(chan') = {} /\ Range(hand) = {} /\ Range(hand') = Range(chan)
    BY <1>1, <1>3, <1>4, RangeEmpty
  <1>6. Of(e, chan)' = {} /\ Of(e, hand) = {} /\ Of(e, hand)' = Of(e, chan)
    BY <1>5 DEF Of
  <1>7. Of(e, out[KindOf[e[1]]])' = Of(e, out[KindOf[e[1]]]) /\ view'[e] = view[e]
    BY <1>1 DEF Of
  <1>8. Newest(e, i) => Newest(e, i)'
    BY <1>6, <1>7 DEF Newest
  <1>9. Unread(k, i) => Unread(k, i)'
    BY <1>1, KeepUnread
  <1> QED BY <1>1, <1>8, <1>9, KeepFresh DEF Context

LEMMA PublishFresh ==
  ASSUME TypeOK, NEW e \in Elements, NEW k \in Kinds, NEW i \in Nat, Context(e, k, i), Publish
  PROVE  Fresh(e)'
  <1>1. /\ hand # <<>> /\ hand' = <<>> /\ view' = Published
        /\ UNCHANGED <<log, horizon, pc, cursor, todo, tail, out, chan, dropped, skipped, cut, listed>>
    BY DEF Publish, source, monitor, history
  <1>2. /\ Range(hand) = {hand[1]} /\ view'[hand[1][1]] = hand[1][2]
        /\ e # hand[1][1] => view'[e] = view[e]
    BY <1>1, PublishedType
  <1>3. Of(e, hand)' = {} /\ Of(e, chan)' = Of(e, chan)
        /\ Of(e, out[KindOf[e[1]]])' = Of(e, out[KindOf[e[1]]])
    BY <1>1, RangeEmpty DEF Of
  <1>4. e = hand[1][1] => Of(e, hand) = {hand[1]}
    BY <1>2 DEF Of
  <1>5. e # hand[1][1] => Of(e, hand) = {}
    BY <1>2 DEF Of
  <1>6. Newest(e, i) => Newest(e, i)'
    BY <1>2, <1>3, <1>4, <1>5 DEF Newest
  <1>7. Unread(k, i) => Unread(k, i)'
    BY <1>1, KeepUnread
  <1> QED BY <1>1, <1>6, <1>7, KeepFresh DEF Context

\* A restart: what was on its way behind the durable cursor is recorded as lost, what is
\* after the cursor, or was not published again, is read again.
LEMMA RestartFresh ==
  ASSUME TypeOK, NEW e \in Elements, NEW k \in Kinds, NEW i \in Nat, Context(e, k, i), Restart,
         \/ view' = view
         \/ hand # <<>> /\ view' = Published
  PROVE  Fresh(e)'
  <1>1. /\ pc'[k] = "start" /\ out'[k] = <<>> /\ chan' = <<>> /\ hand' = <<>>
        /\ dropped' = dropped \cup {m \in InFlight : Behind(m) /\ KindOf[m[1][1]] \notin unloaded}
        /\ skipped' = skipped \cup {m \in Messages : /\ Behind(m) /\ KindOf[m[1][1]] \in unloaded
                                                     /\ view'[m[1]] # m[2]}
        /\ UNCHANGED <<log, horizon, saved, cut, listed>>
    BY DEF Restart, TypeOK, source
  <1>2. cursor'[k] = saved[k] \/ cursor'[k] = 0
    BY Loaded
  <1>3. ASSUME i # 0, ~Unread(k, i)', ~Unread(k, i) => Excused(e, i) \/ Newest(e, i)
        PROVE  Excused(e, i)' \/ Newest(e, i)' \/ Excused(e, i)
    <2>1. cursor'[k] = saved[k] /\ saved[k] # 0 /\ saved[k] >= horizon /\ i <= saved[k]
      BY <1>1, <1>2, <1>3 DEF Unread, Context
    <2>2. Behind(<<e, i>>) /\ <<e, i>> \in Messages /\ KindOf[<<e, i>>[1][1]] = k
      BY <1>3, <2>1, ElementType DEF Behind, Context
    <2>3. view'[e] = i => Newest(e, i)'
      <3>1. Of(e, out[KindOf[e[1]]])' = {} /\ Of(e, chan)' = {} /\ Of(e, hand)' = {}
        BY <1>1, RangeEmpty DEF Of, Context
      <3> QED BY <3>1 DEF Newest
    <2>4. CASE k \in unloaded
      <3>1. view'[e] # i => <<e, i>> \in skipped'
        BY <1>1, <2>2, <2>4
      <3> QED BY <2>3, <3>1 DEF Excused
    <2>5. CASE k \notin unloaded
      <3>1. /\ saved[k] <= cursor[k] /\ todo[k] = {}
            /\ out[k] # <<>> => saved[k] < cursor[k]
            /\ pc[k] = "watching" => cursor[k] <= tail[k]
            /\ \A m \in Range(out[k]) : m[2] = cursor[k]
        BY <2>1, <2>5 DEF Context, Standing, Durable, Watch
      <3>2. ~Unread(k, i)
        BY <2>1, <3>1 DEF Unread, Context
      <3>3. SUFFICES ASSUME Newest(e, i) PROVE Excused(e, i)' \/ Newest(e, i)'
        BY <1>3, <3>2
      <3>4. Of(e, out[k]) = {}
        <4> SUFFICES ASSUME NEW m \in Of(e, out[k]) PROVE FALSE
          OBVIOUS
        <4>1. m \in Range(out[k]) /\ m[2] = i
          BY <3>3 DEF Newest, Of, Context
        <4>2. out[k] # <<>>
          BY <4>1, RangeEmpty
        <4> QED BY <2>1, <3>1, <4>1, <4>2 DEF Context
      <3>5. \A m \in InFlight : m = <<e, i>> => <<e, i>> \in dropped'
        BY <1>1, <2>2, <2>5
      <3>6. CASE Of(e, chan) # {} \/ Of(e, hand) # {}
        <4>1. PICK m \in Of(e, chan) \cup Of(e, hand) : m[2] = i
          BY <3>3, <3>4, <3>6 DEF Newest, Context
        <4>2. m \in InFlight /\ m[1] = e
          BY <4>1 DEF Of, InFlight
        <4>3. m \in Messages
          BY <4>2, InFlightType
        <4>4. m = <<e, i>>
          BY <4>1, <4>2, <4>3 DEF Messages
        <4> QED BY <3>5, <4>2, <4>4 DEF Excused
      <3>7. CASE Of(e, chan) = {} /\ Of(e, hand) = {}
        <4>1. view[e] = i
          BY <3>3, <3>4, <3>7 DEF Newest, Context
        <4>2. hand # <<>> => hand[1][1] # e
          BY <3>7, PublishedType DEF Of
        <4>3. view'[e] = view[e]
          BY <4>2, PublishedType
        <4> QED BY <2>3, <4>1, <4>3
      <3> QED BY <3>6, <3>7
    <2> QED BY <2>4, <2>5
  <1>4. i # 0 /\ Excused(e, i) => Excused(e, i)'
    BY <1>1 DEF Excused, Kind
  <1>5. LastEvent(e[1])' = i
    BY <1>1 DEF LastEvent, Context
  <1>6. i = 0 \/ Unread(k, i) \/ Excused(e, i) \/ Newest(e, i)
    BY DEF Context, Fresh
  <1>7. i = 0 \/ Unread(k, i)' \/ Excused(e, i)' \/ Newest(e, i)'
    BY <1>3, <1>4, <1>6
  <1>8. k = KindOf[e[1]]
    BY DEF Context
  <1> QED BY <1>5, <1>7, <1>8 DEF Fresh

LEMMA CompactFresh ==
  ASSUME TypeOK, NEW e \in Elements, NEW k \in Kinds, NEW i \in Nat, Context(e, k, i), Compact
  PROVE  Fresh(e)'
  <1>1. /\ horizon' \in (horizon + 1)..Len(log)
        /\ UNCHANGED <<log, pc, cursor, todo, tail, out, chan, hand, view, dropped, skipped, cut, listed>>
    BY DEF Compact, monitor, history
  <1>2. Unread(k, i) => Unread(k, i)'
    BY <1>1 DEF Unread, Context
  <1>3. Newest(e, i) => Newest(e, i)'
    BY <1>1, KeepNewest
  <1> QED BY <1>1, <1>2, <1>3, KeepFresh DEF Context

\* A step of another monitor, or one that moves nothing.
LEMMA OtherFresh ==
  ASSUME TypeOK, NEW e \in Elements, NEW k \in Kinds, NEW i \in Nat, Context(e, k, i),
         UNCHANGED <<log, horizon, chan, hand, view, dropped, skipped>>,
         pc'[k] = pc[k], cursor'[k] = cursor[k], todo'[k] = todo[k], tail'[k] = tail[k],
         out'[k] = out[k], listed'[k] = listed[k], cut \subseteq cut'
  PROVE  Fresh(e)'
  <1>1. Unread(k, i) => Unread(k, i)'
    BY KeepUnread
  <1>2. Newest(e, i) => Newest(e, i)'
    BY KeepNewest DEF Context
  <1> QED BY <1>1, <1>2, KeepFresh DEF Context

LEMMA FreshStep ==
  ASSUME TypeOK, TypeOK', \A k \in Kinds : Standing(k), FreshInv, [Next]_vars
  PROVE  FreshInv'
<1> SUFFICES ASSUME NEW e \in Elements, Fresh(e) PROVE Fresh(e)'
  BY DEF FreshInv
<1>0. PICK k \in Kinds, i \in Nat : Context(e, k, i)
  BY ContextIs
<1>1. CASE Commit
  BY <1>1, CommitFresh
<1>2. CASE Compact
  BY <1>0, <1>2, CompactFresh
<1>3. CASE NextChange
  BY <1>0, <1>3, NextChangeFresh
<1>4. CASE Publish
  BY <1>0, <1>4, PublishFresh
<1>5. CASE PublishFails \/ Crash \/ Terminate
  <2>1. Restart /\ (view' = view \/ (hand # <<>> /\ view' = Published))
    BY <1>5 DEF PublishFails, Crash, Terminate
  <2> QED BY <1>0, <2>1, RestartFresh
<1>6. CASE Deprovision
  BY <1>0, <1>6, OtherFresh DEF Deprovision, source, monitor, history
<1>7. ASSUME NEW x \in Kinds, StartList(x) PROVE Fresh(e)'
  <2>1. CASE x = k
    BY <1>0, <1>7, <2>1, StartListFresh
  <2>2. CASE x # k
    BY <1>0, <1>7, <2>2, OtherFresh DEF StartList, TypeOK, source
  <2> QED BY <2>1, <2>2
<1>8. ASSUME NEW x \in Kinds, StartWatch(x) PROVE Fresh(e)'
  <2>1. CASE x = k
    BY <1>0, <1>8, <2>1, StartWatchFresh
  <2>2. CASE x # k
    BY <1>0, <1>8, <2>2, OtherFresh DEF StartWatch, TypeOK, source, history
  <2> QED BY <2>1, <2>2
<1>9. ASSUME NEW x \in Kinds, Expired(x) PROVE Fresh(e)'
  <2>1. CASE x = k
    BY <1>0, <1>9, <2>1, ExpiredFresh
  <2>2. CASE x # k
    BY <1>0, <1>9, <2>2, OtherFresh DEF Expired, TypeOK, source, history
  <2> QED BY <2>1, <2>2
<1>10. ASSUME NEW x \in Kinds, ReadListed(x) PROVE Fresh(e)'
  <2>1. CASE x = k
    BY <1>0, <1>10, <2>1, ReadListedFresh
  <2>2. CASE x # k
    <3>1. cursor'[k] = cursor[k] /\ out'[k] = out[k] /\ todo'[k] = todo[k]
      BY <1>10, <2>2 DEF ReadListed, Take, TypeOK
    <3> QED BY <1>0, <1>10, <3>1, OtherFresh DEF ReadListed, source, history
  <2> QED BY <2>1, <2>2
<1>11. ASSUME NEW x \in Kinds, ReadEvent(x) PROVE Fresh(e)'
  <2>1. CASE x = k
    BY <1>0, <1>11, <2>1, ReadEventFresh
  <2>2. CASE x # k
    <3>1. cursor'[k] = cursor[k] /\ out'[k] = out[k] /\ tail'[k] = tail[k]
      BY <1>11, <2>2 DEF ReadEvent, Take, TypeOK
    <3> QED BY <1>0, <1>11, <3>1, OtherFresh DEF ReadEvent, source, history
  <2> QED BY <2>1, <2>2
<1>12. ASSUME NEW x \in Kinds, Send(x) PROVE Fresh(e)'
  BY <1>0, <1>12, SendFresh
<1>13. ASSUME NEW x \in Kinds, Bookmark(x) PROVE Fresh(e)'
  <2>1. CASE x = k
    BY <1>0, <1>13, <2>1, BookmarkFresh
  <2>2. CASE x # k
    <3>1. cursor'[k] = cursor[k] /\ tail'[k] = tail[k]
      BY <1>13, <2>2 DEF Bookmark, TypeOK
    <3> QED BY <1>0, <1>13, <3>1, OtherFresh DEF Bookmark, source
  <2> QED BY <2>1, <2>2
<1>14. ASSUME NEW x \in Kinds, WatchFails(x) PROVE Fresh(e)'
  BY <1>0, <1>14, OtherFresh DEF WatchFails, source, monitor, history
<1>15. ASSUME NEW x \in Kinds, WatchEnds(x) PROVE Fresh(e)'
  <2>1. CASE x = k
    BY <1>0, <1>15, <2>1, WatchEndsFresh
  <2>2. CASE x # k
    BY <1>0, <1>15, <2>2, OtherFresh DEF WatchEnds, TypeOK, source
  <2> QED BY <2>1, <2>2
<1>16. CASE UNCHANGED vars
  BY <1>0, <1>16, OtherFresh DEF vars, source, monitor, history
<1> QED
  BY <1>1, <1>2, <1>3, <1>4, <1>5, <1>6, <1>7, <1>8, <1>9, <1>10, <1>11, <1>12, <1>13, <1>14, <1>15,
     <1>16 DEF Next, Monitor

LEMMA IInvInit == Init => IInv
  <1> SUFFICES ASSUME Init PROVE FreshInv
    BY TypeInit, StandingInit DEF IInv
  <1> SUFFICES ASSUME NEW e \in Elements PROVE LastEvent(e[1]) = 0
    BY DEF FreshInv, Fresh
  <1>1. log = <<>>
    BY DEF Init
  <1>2. Len(log) = 0
    BY <1>1
  <1>3. LastEvent(e[1]) \in 0..0
    BY <1>2, TypeInit, ElementType
  <1> QED BY <1>3

LEMMA IInvStep == IInv /\ [Next]_vars => IInv'
  <1> SUFFICES ASSUME IInv, [Next]_vars PROVE IInv'
    OBVIOUS
  <1>1. TypeOK /\ (\A k \in Kinds : Standing(k)) /\ FreshInv
    BY DEF IInv
  <1>2. TypeOK'
    BY <1>1, TypeStep
  <1>3. \A k \in Kinds : Standing(k)'
    BY <1>1, <1>2, StandingStep
  <1>4. FreshInv'
    BY <1>1, <1>2, FreshStep
  <1> QED BY <1>2, <1>3, <1>4 DEF IInv

\* Every variable of the reactivator holds a value the code can give it: the channel is
\* never fuller than its capacity, and every message is one of the source's.
THEOREM TypeCorrect == Spec => []TypeOK
  <1>1. IInv => TypeOK
    BY DEF IInv
  <1> QED BY <1>1, IInvInit, IInvStep, PTL DEF Spec

\* The monitors, the channel and the loop lose the last version of an element for the
\* reasons of Excused and no other, whatever fails, expires or is started again.
THEOREM ChangesAreAccounted == Spec => []Accounted
  <1>1. IInv => Accounted
    <2> SUFFICES ASSUME IInv, NEW e \in Elements,
                        LastEvent(e[1]) # 0, ~Unread(KindOf[e[1]], LastEvent(e[1])),
                        ~Excused(e, LastEvent(e[1])), view[e] # LastEvent(e[1])
                 PROVE  <<e, LastEvent(e[1])>> \in InFlight
      BY DEF Accounted
    <2>1. TypeOK /\ Newest(e, LastEvent(e[1])) /\ KindOf[e[1]] \in Kinds
      BY ElementType DEF IInv, FreshInv, Fresh
    <2>2. PICK m \in Of(e, out[KindOf[e[1]]]) \cup Of(e, chan) \cup Of(e, hand) : m[2] = LastEvent(e[1])
      BY <2>1 DEF Newest
    <2>3. m \in InFlight /\ m[1] = e
      BY <2>1, <2>2 DEF Of, InFlight
    <2>4. m \in Messages
      BY <2>1, <2>3, InFlightType
    <2> QED BY <2>2, <2>3, <2>4 DEF Messages
  <1> QED BY <1>1, IInvInit, IInvStep, PTL DEF Spec

(***************************************************************************)
(* How much a restart may lose.                                            *)
(***************************************************************************)

LossInv == IsFiniteSet(dropped) /\ LossIsBounded

\* What is on its way behind a cursor that was loaded is in the channel or in the hand
\* of the loop: a monitor that is still sending has not stored the cursor it moved.
LEMMA LostIsSent ==
  ASSUME IInv, NEW m \in InFlight, Behind(m), KindOf[m[1][1]] \notin unloaded
  PROVE  m \in Range(chan) \cup Range(hand)
  <1> SUFFICES ASSUME NEW k \in Kinds, m \in Range(out[k]) PROVE FALSE
    BY DEF InFlight
  <1>1. TypeOK /\ Standing(k)
    BY DEF IInv
  <1>2. m[2] = cursor[k] /\ KindOf[m[1][1]] = k
    BY <1>1 DEF Standing, Watch
  <1>3. out[k] # <<>>
    BY RangeEmpty
  <1>4. m \in Messages
    BY <1>1, InFlightType
  <1>5. m[2] \in Nat \ {0} /\ saved[k] \in Nat /\ horizon \in Nat
    BY <1>1, <1>4, MonitorType DEF Messages
  <1>6. m[2] <= saved[k] /\ saved[k] >= horizon
    BY <1>2 DEF Behind
  <1>7. saved[k] < cursor[k]
    BY <1>1, <1>2, <1>3, <1>5, <1>6 DEF Standing, Durable
  <1> QED BY <1>2, <1>5, <1>6, <1>7

\* A set of at most one message.
LEMMA OneMessage ==
  ASSUME NEW s \in Seq(Messages), Len(s) <= 1
  PROVE  IsFiniteSet(Range(s)) /\ Cardinality(Range(s)) <= 1 /\ Cardinality(Range(s)) \in Nat
  <1>1. CASE s = <<>>
    BY <1>1, RangeEmpty, FS_EmptySet
  <1>2. CASE s # <<>>
    <2>1. Range(s) = {Head(s)}
      BY <1>2, RangeOne
    <2>2. IsFiniteSet({Head(s)}) /\ Cardinality({Head(s)}) = 1
      BY FS_Singleton
    <2> QED BY <2>1, <2>2
  <1> QED BY <1>1, <1>2

LEMMA LossRestart ==
  ASSUME IInv, LossInv, Restart
  PROVE  /\ IsFiniteSet(dropped') /\ Cardinality(dropped) \in Nat
         /\ Cardinality(dropped') \in Nat
         /\ Cardinality(dropped') <= Cardinality(dropped) + 2
         /\ hand = <<>> => Cardinality(dropped') <= Cardinality(dropped) + 1
  <1> DEFINE C == Range(chan)
             H == Range(hand)
             D == dropped \cup C
             L == {m \in InFlight : Behind(m) /\ KindOf[m[1][1]] \notin unloaded}
  <1>1. /\ IsFiniteSet(C) /\ Cardinality(C) <= 1 /\ Cardinality(C) \in Nat
        /\ IsFiniteSet(H) /\ Cardinality(H) <= 1 /\ Cardinality(H) \in Nat
    BY OneMessage DEF IInv, TypeOK, Capacity
  <1>2. dropped' = dropped \cup L /\ L \subseteq C \cup H
    BY LostIsSent DEF Restart
  <1>3. IsFiniteSet(dropped) /\ Cardinality(dropped) \in Nat
    BY FS_CardinalityType DEF LossInv
  <1> HIDE DEF C, H, L
  <1>4. /\ IsFiniteSet(D) /\ Cardinality(D) \in Nat
        /\ Cardinality(D) <= Cardinality(dropped) + Cardinality(C)
    <2>1. IsFiniteSet(D) /\ Cardinality(D) = Cardinality(dropped) + Cardinality(C) - Cardinality(dropped \cap C)
      BY <1>1, <1>3, FS_Union
    <2>2. Cardinality(dropped \cap C) \in Nat
      BY <1>1, <1>3, FS_Intersection, FS_CardinalityType
    <2> QED BY <1>1, <1>3, <2>1, <2>2, FS_CardinalityType
  <1> HIDE DEF D
  <1>5. /\ IsFiniteSet(D \cup H) /\ Cardinality(D \cup H) \in Nat
        /\ Cardinality(D \cup H) <= Cardinality(D) + Cardinality(H)
    <2>1. IsFiniteSet(D \cup H) /\ Cardinality(D \cup H) = Cardinality(D) + Cardinality(H) - Cardinality(D \cap H)
      BY <1>1, <1>4, FS_Union
    <2>2. Cardinality(D \cap H) \in Nat
      BY <1>1, <1>4, FS_Intersection, FS_CardinalityType
    <2> QED BY <1>1, <1>4, <2>1, <2>2, FS_CardinalityType
  <1>6. dropped' \subseteq D \cup H
    BY <1>2 DEF D
  <1>7. IsFiniteSet(dropped') /\ Cardinality(dropped') <= Cardinality(D \cup H) /\ Cardinality(dropped') \in Nat
    BY <1>5, <1>6, FS_Subset, FS_CardinalityType
  <1>8. Cardinality(dropped') <= Cardinality(dropped) + 2
    BY <1>1, <1>3, <1>4, <1>5, <1>7
  <1>9. ASSUME hand = <<>> PROVE Cardinality(dropped') <= Cardinality(dropped) + 1
    <2>1. D \cup H = D
      BY <1>9, RangeEmpty DEF H
    <2> QED BY <1>1, <1>3, <1>4, <1>7, <2>1
  <1> QED BY <1>3, <1>7, <1>8, <1>9

\* A crash loses behind the durable cursors at most the message being published and the
\* one in the channel, a termination only the latter.
THEOREM LossesAreBounded == Spec => []LossIsBounded
<1>1. Init => LossInv
  <2> SUFFICES ASSUME Init PROVE LossInv
    OBVIOUS
  <2>1. dropped = {} /\ crashes = 0 /\ terminations = 0
    BY DEF Init
  <2> QED BY <2>1, FS_EmptySet DEF LossInv, LossIsBounded, Capacity
<1>2. IInv /\ LossInv /\ [Next]_vars => LossInv'
  <2> SUFFICES ASSUME IInv, LossInv, [Next]_vars PROVE LossInv'
    OBVIOUS
  <2>0. crashes \in Nat /\ terminations \in Nat /\ Cardinality(dropped) <= 2 * crashes + terminations
    BY DEF IInv, TypeOK, LossInv, LossIsBounded, Capacity
  <2>1. CASE PublishFails \/ Crash
    <3>1. Restart /\ crashes' = crashes + 1 /\ terminations' = terminations
      BY <2>1 DEF PublishFails, Crash
    <3>2. Cardinality(dropped') <= 2 * crashes' + terminations'
      BY <2>0, <3>1, LossRestart
    <3>3. IsFiniteSet(dropped') /\ (1 + 1) * crashes' + 1 * terminations' = 2 * crashes' + terminations'
      BY <2>0, <3>1, LossRestart
    <3> QED BY <3>2, <3>3 DEF LossInv, LossIsBounded, Capacity
  <2>2. CASE Terminate
    <3>1. Restart /\ hand = <<>> /\ crashes' = crashes /\ terminations' = terminations + 1
      BY <2>2 DEF Terminate
    <3>2. Cardinality(dropped') <= 2 * crashes' + terminations'
      BY <2>0, <3>1, LossRestart
    <3>3. IsFiniteSet(dropped') /\ (1 + 1) * crashes' + 1 * terminations' = 2 * crashes' + terminations'
      BY <2>0, <3>1, LossRestart
    <3> QED BY <3>2, <3>3 DEF LossInv, LossIsBounded, Capacity
  <2>3. CASE UNCHANGED <<dropped, crashes, terminations>>
    BY <2>3 DEF LossInv, LossIsBounded
  <2>4. ~(PublishFails \/ Crash \/ Terminate) => UNCHANGED <<dropped, crashes, terminations>>
    BY DEF Next, Monitor, Commit, Compact, NextChange, Publish, Deprovision, StartList, StartWatch,
           Expired, ReadListed, ReadEvent, Send, Bookmark, WatchFails, WatchEnds, Fail, bounds,
           history, vars
  <2> QED BY <2>1, <2>2, <2>3, <2>4
<1>3. LossInv => LossIsBounded
  BY DEF LossInv
<1> QED BY <1>1, <1>2, <1>3, IInvInit, IInvStep, PTL DEF Spec

=============================================================================
