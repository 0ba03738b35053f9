------------------------ MODULE ChangeRoutingProofs ------------------------
(***************************************************************************)
(* Proofs about ChangeRouting, for every set of queries, nodes, labels and *)
(* faults and every bound.                                                 *)
(***************************************************************************)
EXTENDS ChangeRouting, TLAPS, FiniteSetTheorems, SequenceTheorems, WellFoundedInduction

(***************************************************************************)
(* Inductive invariants.                                                   *)
(***************************************************************************)

Carried(m) == m \in DOMAIN topic /\ topic[m].kind = "change"

\* What is dispatched or in a stream is a change of the topic that the router was given,
\* and the source made every change that is in the topic.
PathInv ==
  /\ \A m \in DOMAIN topic : topic[m].kind = "change" => topic[m].n <= Len(source)
  /\ \A d \in DOMAIN dispatch : Carried(dispatch[d].m) /\ dispatch[d].m < rnext
  /\ \A c \in Nodes : \A p \in DOMAIN stream[c] : Carried(stream[c][p].m) /\ stream[c][p].m < rnext
  /\ rback \subseteq delayed

\* The last request of a query that runs is a subscription, and it comes before every
\* change the query's snapshot lacks.
SubscribedInv ==
  \A q \in Queries :
    /\ qpc[q] # "off" => Controls(q) # {} /\ topic[Max(Controls(q))].kind = "sub"
    /\ qpc[q] = "live" =>
         \A m \in DOMAIN topic :
           topic[m].kind = "change" /\ topic[m].n > snap[q] => Max(Controls(q)) < m

\* The router that runs has the labels of each subscription it was given.
RoutedInv ==
  up => \A q \in Queries :
          qpc[q] # "off" /\ q \notin exposed /\ Max(Controls(q)) < rnext =>
            \A l \in LabelsOf[q] : q \in labelMap[l]

\* Of two dispatched messages the first is the older one, unless the second was delayed;
\* the same for a message that arrived and one the dispatcher is still to be given.
OrderInv ==
  /\ \A d \in DOMAIN dispatch : \A b \in 1 .. (d - 1) :
       dispatch[b].m >= dispatch[d].m => dispatch[d].m \in delayed
  /\ \A d \in dback : dispatch[d].m \in delayed
  /\ \A c \in Nodes : \A p \in DOMAIN stream[c] : \A d \in DOMAIN dispatch :
       d >= dnext /\ stream[c][p].m >= dispatch[d].m => dispatch[d].m \in delayed
  /\ ArrivesInOrder

(***************************************************************************)
(* Facts about sets of numbers, and about the messages of the topic.       *)
(***************************************************************************)

\* A nonempty set of numbers has a least element.
LEMMA LeastExists ==
  ASSUME NEW T \in SUBSET Nat, T # {}
  PROVE  \E x \in T : \A y \in T : x <= y
  <1>1. PICK x \in T : \A y \in T : ~ (<<y, x>> \in OpToRel(<, Nat))
    BY NatLessThanWellFounded, WFMin
  <1>2. \A y \in T : x <= y
    <2> TAKE y \in T
    <2>1. y < x => <<y, x>> \in OpToRel(<, Nat)
      BY DEF OpToRel
    <2>2. ~(y < x)
      BY <1>1, <2>1, Zenon
    <2> QED BY <2>2
  <1> QED BY <1>2

\* Max picks the greatest element of a nonempty set of numbers with a bound.
LEMMA MaxIs ==
  ASSUME NEW n \in Nat, NEW S \in SUBSET (0..n), S # {}
  PROVE  Max(S) \in S /\ \A j \in S : j <= Max(S)
  <1> DEFINE T == {n - i : i \in S}
  <1>1. T \in SUBSET Nat /\ T # {}
    <2>1. \A i \in S : n - i \in Nat
      OBVIOUS
    <2> QED BY <2>1
  <1>2. PICK x \in T : \A y \in T : x <= y
    BY <1>1, LeastExists
  <1>3. PICK i \in S : x = n - i
    OBVIOUS
  <1>4. \A j \in S : j <= i
    <2> TAKE j \in S
    <2>1. x <= n - j
      BY <1>2
    <2> QED BY <2>1, <1>3
  <1>5. \E i1 \in S : \A j \in S : i1 >= j
    BY <1>4
  <1> QED BY <1>5 DEF Max

LEMMA TopIs ==
  ASSUME NEW n \in Nat, NEW S \in SUBSET (0..n), n \in S
  PROVE  Max(S) = n
  <1>1. Max(S) \in S /\ \A j \in S : j <= Max(S)
    BY MaxIs
  <1>2. Max(S) \in 0..n /\ n <= Max(S)
    BY <1>1
  <1> QED BY <1>2

LEMMA BelowGrows ==
  ASSUME NEW a \in Nat, NEW b \in Nat, a <= b
  PROVE  /\ \A i \in 1..(a - 1) : i \in 1..(b - 1)
         /\ \A i \in Nat \ {0} : i < b => i \in 1..(b - 1)
  OBVIOUS

LEMMA MessageType ==
  ASSUME NEW x \in Message
  PROVE  /\ x.kind \in {"sub", "unsub", "change"}
         /\ x.kind = "change" => x.n \in 1..MaxChanges
         /\ x.kind # "change" => x.q \in Queries
  BY DEF Message

\* What the changes sent so far are counted by.
LEMMA SentType == TypeOK => Cardinality(Sent) \in Nat
  <1> SUFFICES ASSUME TypeOK PROVE Cardinality(Sent) \in Nat
    OBVIOUS
  <1>1. \A m \in DOMAIN topic : topic[m] \in Message
    BY DEF TypeOK
  <1>2. Sent \subseteq 1..MaxChanges
    BY <1>1, MessageType DEF Sent
  <1>3. IsFiniteSet(1..MaxChanges)
    BY FS_Interval, RoutingAssumption
  <1>4. IsFiniteSet(Sent)
    BY <1>2, <1>3, FS_Subset
  <1> QED BY <1>4, FS_CardinalityType

\* The messages the router may be given.
LEMMA RouterMessageType ==
  ASSUME TypeOK, NEW m \in RouterMessages
  PROVE  /\ m \in 1..Len(topic) /\ m \in DOMAIN topic /\ topic[m] \in Message /\ m <= rnext
         /\ m # rnext => m \in rback
  BY DEF TypeOK, RouterMessages

LEMMA AnswerType ==
  ASSUME TypeOK, NEW m \in RouterMessages, Acknowledge(m) \/ PutBack(m)
  PROVE  /\ rnext' \in 1..(Len(topic) + 1) /\ rback' \subseteq 1..(rnext' - 1) /\ delayed' \subseteq Nat
         /\ rnext <= rnext' /\ delayed \subseteq delayed' /\ m < rnext'
         /\ \A i \in Nat : i < rnext' => i < rnext \/ i = m
  <1>1. m \in 1..Len(topic) /\ m <= rnext /\ rnext \in 1..(Len(topic) + 1) /\ Len(topic) \in Nat
        /\ rback \subseteq 1..(rnext - 1) /\ delayed \subseteq Nat
    <2>1. m \in 1..Len(topic) /\ m <= rnext
      BY RouterMessageType
    <2> QED BY <2>1 DEF TypeOK
  <1>2. rnext' = (IF m = rnext THEN m + 1 ELSE rnext) /\ rback' \subseteq rback \cup {m}
        /\ delayed' \subseteq delayed \cup {m} /\ delayed \subseteq delayed'
    BY DEF Acknowledge, PutBack, Advance
  <1>3. rnext' \in 1..(Len(topic) + 1) /\ rnext <= rnext' /\ m < rnext'
        /\ \A i \in Nat : i < rnext' => i < rnext \/ i = m
    BY <1>1, <1>2
  <1>4. \A i \in rback \cup {m} : i \in 1..(rnext' - 1)
    <2>1. \A i \in rback : i \in 1..(rnext - 1)
      BY <1>1
    <2>0. rnext \in Nat /\ rnext' \in Nat /\ rnext <= rnext' /\ m \in Nat \ {0} /\ m < rnext'
      BY <1>1, <1>3
    <2>2. \A i \in 1..(rnext - 1) : i \in 1..(rnext' - 1)
      BY <2>0, BelowGrows
    <2>3. m \in 1..(rnext' - 1)
      BY <2>0, BelowGrows
    <2> QED BY <2>1, <2>2, <2>3
  <1> QED BY <1>1, <1>2, <1>3, <1>4

LEMMA FailType ==
  ASSUME TypeOK
  PROVE  /\ \A f : Fail(f) => faults' \in 0..MaxFaults /\ crashes' = crashes
         /\ UNCHANGED bounds => faults' = faults /\ crashes' = crashes
  BY RoutingAssumption DEF TypeOK, Fail, bounds

LEMMA SubscribersType ==
  ASSUME TypeOK, NEW ls \in SUBSET Labels
  PROVE  GetSubscribersForLabels(ls) \subseteq Queries
  BY DEF TypeOK, GetSubscribersForLabels

LEMMA ForwardType ==
  ASSUME TypeOK, NEW m \in DOMAIN topic, topic[m].kind = "change", topic[m].n <= Len(source), Forward(m)
  PROVE  /\ dispatch' \in Seq(Entry) /\ Len(dispatch') = Len(dispatch) + 1
         /\ \A d \in 1..Len(dispatch) : dispatch'[d] = dispatch[d]
         /\ dispatch'[Len(dispatch) + 1] = [m |-> m, subs |-> GetSubscribersForLabels(source[topic[m].n])]
         /\ Len(dispatch) \in Nat /\ source[topic[m].n] \in SUBSET Labels
  <1>1. topic[m] \in Message /\ m \in Nat
    BY DEF TypeOK
  <1>2. topic[m].n \in 1..MaxChanges
    BY <1>1, MessageType
  <1>3. topic[m].n \in 1..Len(source)
    BY <1>2, RoutingAssumption DEF TypeOK
  <1>4. source[topic[m].n] \in ChangeLabels
    BY <1>3 DEF TypeOK
  <1>5. source[topic[m].n] \in SUBSET Labels
    BY <1>4, RoutingAssumption
  <1> DEFINE x == [m |-> m, subs |-> GetSubscribersForLabels(source[topic[m].n])]
  <1>6. x \in Entry
    BY <1>1, <1>5, SubscribersType DEF Entry
  <1>7. dispatch \in Seq(Entry)
    BY DEF TypeOK
  <1>8. dispatch' = Append(dispatch, x)
    BY DEF Forward
  <1> HIDE DEF x
  <1>9. /\ dispatch' \in Seq(Entry) /\ Len(dispatch') = Len(dispatch) + 1
        /\ \A d \in 1..Len(dispatch) : dispatch'[d] = dispatch[d]
        /\ dispatch'[Len(dispatch) + 1] = x /\ Len(dispatch) \in Nat
    BY <1>6, <1>7, <1>8
  <1> QED BY <1>5, <1>9 DEF x

\* What a call of the publish API of the nodes cs appends to their streams.
LEMMA PublishApiType ==
  ASSUME TypeOK, NEW d \in DOMAIN dispatch, NEW cs, PublishApi(d, cs)
  PROVE  /\ stream' \in [Nodes -> Seq(Item)]
         /\ \A c \in Nodes :
              /\ Len(stream[c]) \in Nat /\ DOMAIN stream[c] = 1..Len(stream[c])
              /\ DOMAIN stream'[c] = 1..Len(stream'[c])
              /\ \A p \in 1..Len(stream[c]) : stream'[c][p] = stream[c][p]
              /\ c \notin cs => stream'[c] = stream[c]
              /\ c \in cs => /\ Len(stream'[c]) = Len(stream[c]) + 1
                             /\ stream'[c][Len(stream[c]) + 1] =
                                  [m |-> dispatch[d].m, qs |-> {q \in dispatch[d].subs : NodeOf[q] = c}]
  <1> DEFINE x(c) == [m |-> dispatch[d].m, qs |-> {q \in dispatch[d].subs : NodeOf[q] = c}]
  <1>1. dispatch[d] \in Entry
    BY DEF TypeOK
  <1>2. \A c \in Nodes : x(c) \in Item
    BY <1>1 DEF Entry, Item
  <1>3. stream \in [Nodes -> Seq(Item)]
    BY DEF TypeOK
  <1>4. stream' = [c \in Nodes |-> IF c \notin cs THEN stream[c] ELSE Append(stream[c], x(c))]
    BY DEF PublishApi
  <1> HIDE DEF x
  <1>5. ASSUME NEW c \in Nodes
        PROVE  /\ stream'[c] \in Seq(Item)
               /\ Len(stream[c]) \in Nat /\ DOMAIN stream[c] = 1..Len(stream[c])
               /\ DOMAIN stream'[c] = 1..Len(stream'[c])
               /\ \A p \in 1..Len(stream[c]) : stream'[c][p] = stream[c][p]
               /\ c \notin cs => stream'[c] = stream[c]
               /\ c \in cs => /\ Len(stream'[c]) = Len(stream[c]) + 1
                              /\ stream'[c][Len(stream[c]) + 1] = x(c)
    <2>1. stream[c] \in Seq(Item) /\ x(c) \in Item
      BY <1>2, <1>3
    <2>2. CASE c \in cs
      <3>1. stream'[c] = Append(stream[c], x(c))
        BY <1>4, <2>2
      <3> QED BY <2>1, <2>2, <3>1
    <2>3. CASE c \notin cs
      <3>1. stream'[c] = stream[c]
        BY <1>4, <2>3
      <3> QED BY <2>1, <2>3, <3>1
    <2> QED BY <2>2, <2>3
  <1>6. stream' \in [Nodes -> Seq(Item)]
    BY <1>4, <1>5
  <1> QED BY <1>5, <1>6 DEF x

(***************************************************************************)
(* Types.                                                                  *)
(***************************************************************************)

\* A message is published at the end of the topic.
LEMMA TopicAppend ==
  ASSUME TypeOK, NEW x \in Message, topic' = Append(topic, x)
  PROVE  /\ topic' \in Seq(Message) /\ Len(topic') = Len(topic) + 1 /\ Len(topic) \in Nat
         /\ \A i \in 1..Len(topic) : topic'[i] = topic[i]
         /\ topic'[Len(topic) + 1] = x
         /\ DOMAIN topic = 1..Len(topic) /\ DOMAIN topic' = 1..(Len(topic) + 1)
         /\ rnext \in 1..(Len(topic') + 1)
  BY DEF TypeOK

LEMMA ControlType ==
  ASSUME NEW kind \in {"sub", "unsub"}, NEW q \in Queries
  PROVE  [kind |-> kind, q |-> q] \in Message
  BY DEF Message

LEMMA ChangeType ==
  ASSUME TypeOK, PublishChange
  PROVE  [kind |-> "change", n |-> Cardinality(Sent) + 1] \in Message
  <1>1. Cardinality(Sent) \in Nat /\ Cardinality(Sent) < Len(source) /\ Len(source) <= MaxChanges
        /\ Len(source) \in Nat
    BY SentType DEF PublishChange, TypeOK
  <1>2. Cardinality(Sent) + 1 \in 1..MaxChanges
    BY <1>1, RoutingAssumption
  <1> QED BY <1>2 DEF Message

LEMMA TypeInit == Init => TypeOK
  <1> SUFFICES ASSUME Init PROVE TypeOK
    OBVIOUS
  <1>1. \A S : <<>> \in Seq(S)
    OBVIOUS
  <1>2. Len(<<>>) = 0
    OBVIOUS
  <1>3. /\ source \in Seq(ChangeLabels) /\ Len(source) <= MaxChanges /\ topic \in Seq(Message)
        /\ rnext \in 1 .. (Len(topic) + 1) /\ rback \subseteq 1 .. (rnext - 1)
        /\ dispatch \in Seq(Entry) /\ dnext \in 1 .. (Len(dispatch) + 1) /\ dback \subseteq 1 .. (dnext - 1)
    BY <1>1, <1>2, RoutingAssumption DEF Init
  <1>4. /\ up \in BOOLEAN
    BY Zenon DEF Init
  <1>5. /\ labelMap \in [Labels -> SUBSET Queries] /\ store \subseteq Queries
        /\ stream \in [Nodes -> Seq(Item)]
    BY <1>1 DEF Init
  <1>6. /\ qpc \in [Queries -> {"off", "acquiring", "live"}] /\ snap \in [Queries -> 0 .. MaxChanges]
        /\ short \subseteq Queries /\ exposed \subseteq Queries /\ delayed \subseteq Nat
        /\ faults \in 0 .. MaxFaults /\ crashes \in 0 .. MaxCrashes
    BY RoutingAssumption DEF Init
  <1> QED BY <1>3, <1>4, <1>5, <1>6 DEF TypeOK

LEMMA OffType ==
  ASSUME TypeOK, NEW q \in Queries, Off(q)
  PROVE  /\ qpc' \in [Queries -> {"off", "acquiring", "live"}] /\ snap' \in [Queries -> 0..MaxChanges]
         /\ short' \subseteq Queries /\ exposed' \subseteq Queries
  BY RoutingAssumption DEF TypeOK, Off

LEMMA LoadedType == \A S : S \subseteq Queries => Loaded(S) \in [Labels -> SUBSET Queries]
  BY DEF Loaded

\* The dispatcher as AnswerType for the router.
LEMMA DispatchedType ==
  ASSUME TypeOK, NEW d \in DOMAIN dispatch, Dispatch(d)
  PROVE  /\ dnext' \in 1..(Len(dispatch) + 1) /\ dback' \subseteq 1..(dnext' - 1)
         /\ dnext <= dnext' /\ d < dnext' /\ d <= dnext /\ d \in Nat /\ dnext \in Nat
         /\ d # dnext => d \in dback
         /\ \A i \in Nat : i < dnext' => i < dnext \/ i = d
  <1>1. /\ d \in 1..Len(dispatch) /\ dnext \in 1..(Len(dispatch) + 1) /\ Len(dispatch) \in Nat
        /\ dback \subseteq 1..(dnext - 1) /\ (d # dnext => d \in dback)
    BY DEF Dispatch, TypeOK
  <1>2. d <= dnext
    BY <1>1
  <1>3. dnext' = (IF d = dnext THEN d + 1 ELSE dnext) /\ dback' \subseteq dback \cup {d}
    BY DEF Dispatch
  <1>4. /\ dnext' \in 1..(Len(dispatch) + 1) /\ dnext <= dnext' /\ d < dnext'
        /\ \A i \in Nat : i < dnext' => i < dnext \/ i = d
    BY <1>1, <1>2, <1>3
  <1>5. dnext \in Nat /\ dnext' \in Nat /\ dnext <= dnext' /\ d \in Nat \ {0} /\ d < dnext'
    BY <1>1, <1>4
  <1>6. \A i \in dback : i \in 1..(dnext' - 1)
    BY <1>1, <1>5, BelowGrows
  <1>7. d \in 1..(dnext' - 1)
    BY <1>5, BelowGrows
  <1> QED BY <1>1, <1>2, <1>3, <1>4, <1>5, <1>6, <1>7

LEMMA TypeStep ==
  ASSUME TypeOK, PathInv, [Next]_vars
  PROVE  TypeOK'
<1> USE RoutingAssumption DEF routerVars, dispatcherVars, queryVars
<1>1. CASE Commit
  <2>1. PICK ls \in ChangeLabels : source' = Append(source, ls)
    BY <1>1 DEF Commit
  <2>2. source' \in Seq(ChangeLabels) /\ Len(source') = Len(source) + 1 /\ Len(source) \in Nat
    BY <2>1 DEF TypeOK
  <2>3. Len(source') <= MaxChanges
    BY <1>1, <2>2 DEF Commit
  <2> QED BY <1>1, <2>2, <2>3, FailType DEF Commit, TypeOK
<1>2. CASE PublishChange
  <2>1. topic' \in Seq(Message) /\ rnext \in 1..(Len(topic') + 1)
    BY <1>2, ChangeType, TopicAppend DEF PublishChange
  <2> QED BY <1>2, <2>1, FailType DEF PublishChange, TypeOK
<1>3. ASSUME NEW q \in Queries, Subscribe(q) PROVE TypeOK'
  <2>1. topic' \in Seq(Message) /\ rnext \in 1..(Len(topic') + 1)
    BY <1>3, ControlType, TopicAppend DEF Subscribe, Control
  <2>2. qpc' \in [Queries -> {"off", "acquiring", "live"}]
    BY <1>3 DEF Subscribe, TypeOK
  <2> QED BY <1>3, <2>1, <2>2, FailType DEF Subscribe, TypeOK
<1>4. ASSUME NEW q \in Queries, Acquire(q) PROVE TypeOK'
  <2>1. UNCHANGED <<source, topic, rnext, rback, up, labelMap, store, dispatch, dnext, dback, stream, delayed>>
    BY <1>4 DEF Acquire
  <2>2. /\ qpc' \in [Queries -> {"off", "acquiring", "live"}] /\ snap' \in [Queries -> 0..MaxChanges]
        /\ short' \subseteq Queries /\ exposed' \subseteq Queries
        /\ faults' \in 0..MaxFaults /\ crashes' = crashes
    <3>1. CASE Off(q) /\ Fail("acquire")
      BY <3>1, OffType, FailType
    <3>2. CASE (StreamResources(q) \/ StreamBreaks(q)) /\ qpc' = [qpc EXCEPT ![q] = "live"] /\ UNCHANGED exposed
      <4>1. Len(source) \in 0..MaxChanges
        BY DEF TypeOK
      <4>2. snap' = [snap EXCEPT ![q] = Len(source)] /\ (short' = short \/ short' = short \cup {q})
        BY <3>2 DEF StreamResources, StreamBreaks
      <4>3. faults' \in 0..MaxFaults /\ crashes' = crashes
        BY <3>2, FailType DEF StreamResources, StreamBreaks, TypeOK
      <4>4. qpc' \in [Queries -> {"off", "acquiring", "live"}]
        BY <3>2 DEF TypeOK
      <4>5. snap' \in [Queries -> 0..MaxChanges]
        BY <4>1, <4>2 DEF TypeOK
      <4>6. short' \subseteq Queries /\ exposed' \subseteq Queries
        BY <3>2, <4>2 DEF TypeOK
      <4> QED BY <4>3, <4>4, <4>5, <4>6
    <3> QED BY <1>4, <3>1, <3>2 DEF Acquire
  <2> QED BY <2>1, <2>2 DEF TypeOK
<1>5. ASSUME NEW q \in Queries, Unsubscribe(q) PROVE TypeOK'
  <2>1. UNCHANGED <<source, rnext, rback, up, labelMap, store, dispatch, dnext, dback, stream, delayed>> /\ Off(q)
    BY <1>5 DEF Unsubscribe
  <2>2. topic' \in Seq(Message) /\ rnext \in 1..(Len(topic') + 1)
    <3>1. CASE Control("unsub", q)
      BY <3>1, ControlType, TopicAppend DEF Control
    <3>2. CASE UNCHANGED topic
      BY <3>2 DEF TypeOK
    <3> QED BY <1>5, <3>1, <3>2 DEF Unsubscribe
  <2>3. faults' \in 0..MaxFaults /\ crashes' = crashes
    BY <1>5, FailType DEF Unsubscribe, TypeOK
  <2> QED BY <2>1, <2>2, <2>3, OffType DEF TypeOK
<1>6. CASE StartRouter
  <2>1. up' \in BOOLEAN
    BY <1>6, Zenon DEF StartRouter
  <2>2. labelMap' \in [Labels -> SUBSET Queries]
    BY <1>6, LoadedType DEF StartRouter, TypeOK
  <2>3. exposed' \subseteq Queries
    BY <1>6 DEF StartRouter, TypeOK
  <2>4. faults' \in 0..MaxFaults /\ crashes' = crashes
    BY <1>6, FailType DEF StartRouter, TypeOK
  <2>5. UNCHANGED <<source, topic, rnext, rback, store, dispatch, dnext, dback, stream, qpc, snap, short, delayed>>
    BY <1>6 DEF StartRouter
  <2> QED BY <2>1, <2>2, <2>3, <2>4, <2>5 DEF TypeOK
<1>7. CASE CrashRouter
  <2>1. up' \in BOOLEAN
    BY <1>7, Zenon DEF CrashRouter
  <2>2. labelMap' \in [Labels -> SUBSET Queries]
    BY <1>7, LoadedType DEF CrashRouter
  <2>3. rnext' \in 1..(Len(topic) + 1) /\ rback' \subseteq 1..(rnext' - 1) /\ delayed' \subseteq Nat
    <3>1. CASE UNCHANGED <<rnext, rback, delayed>>
      BY <3>1 DEF TypeOK
    <3>2. CASE \E m \in RouterMessages : PutBack(m)
      BY <3>2, AnswerType
    <3> QED BY <1>7, <3>1, <3>2 DEF CrashRouter
  <2>4. crashes' \in 0..MaxCrashes
    BY <1>7 DEF CrashRouter, TypeOK
  <2>5. UNCHANGED <<source, topic, store, dispatch, dnext, dback, stream, qpc, snap, short, exposed, faults>>
    BY <1>7 DEF CrashRouter
  <2> QED BY <2>1, <2>2, <2>3, <2>4, <2>5 DEF TypeOK
<1>8. ASSUME NEW m \in DOMAIN topic, RouteSubscription(m) PROVE TypeOK'
  <2>1. m \in RouterMessages /\ (Acknowledge(m) \/ PutBack(m))
    BY <1>8 DEF RouteSubscription
  <2>2. topic[m].q \in Queries
    BY <1>8, <2>1, RouterMessageType, MessageType DEF RouteSubscription
  <2>3. labelMap' \in [Labels -> SUBSET Queries]
    BY <1>8, <2>2 DEF RouteSubscription, AddLabels, TypeOK
  <2>4. store' \subseteq Queries
    BY <1>8, <2>2 DEF RouteSubscription, SaveState, TypeOK
  <2>5. faults' \in 0..MaxFaults /\ crashes' = crashes
    BY <1>8, FailType DEF RouteSubscription, TypeOK
  <2>6. UNCHANGED <<source, topic, up, dispatch, dnext, dback, stream, qpc, snap, short, exposed>>
    BY <1>8 DEF RouteSubscription
  <2>7. rnext' \in 1..(Len(topic) + 1) /\ rback' \subseteq 1..(rnext' - 1) /\ delayed' \subseteq Nat
    BY <2>1, AnswerType
  <2> QED BY <2>3, <2>4, <2>5, <2>6, <2>7 DEF TypeOK
<1>9. ASSUME NEW m \in DOMAIN topic, RouteUnsubscription(m) PROVE TypeOK'
  <2>1. m \in RouterMessages /\ (Acknowledge(m) \/ PutBack(m))
    BY <1>9 DEF RouteUnsubscription
  <2>4. store' \subseteq Queries
    BY <1>9 DEF RouteUnsubscription, DeleteState, TypeOK
  <2>5. faults' \in 0..MaxFaults /\ crashes' = crashes
    BY <1>9, FailType DEF RouteUnsubscription, TypeOK
  <2>6. UNCHANGED <<source, topic, up, labelMap, dispatch, dnext, dback, stream, qpc, snap, short, exposed>>
    BY <1>9 DEF RouteUnsubscription
  <2>7. rnext' \in 1..(Len(topic) + 1) /\ rback' \subseteq 1..(rnext' - 1) /\ delayed' \subseteq Nat
    BY <2>1, AnswerType
  <2> QED BY <2>4, <2>5, <2>6, <2>7 DEF TypeOK
<1>10. ASSUME NEW m \in DOMAIN topic, RouteChange(m) PROVE TypeOK'
  <2>1. m \in RouterMessages /\ (Acknowledge(m) \/ PutBack(m)) /\ topic[m].kind = "change"
    BY <1>10 DEF RouteChange
  <2>2. topic[m].n <= Len(source)
    BY <2>1 DEF PathInv
  <2>3. dispatch' \in Seq(Entry) /\ dnext \in 1..(Len(dispatch') + 1)
    <3>1. CASE Forward(m)
      <4>1. dispatch' \in Seq(Entry) /\ Len(dispatch') = Len(dispatch) + 1 /\ Len(dispatch) \in Nat
        BY <2>1, <2>2, <3>1, ForwardType
      <4>2. dnext \in 1..(Len(dispatch) + 1)
        BY DEF TypeOK
      <4> QED BY <4>1, <4>2
    <3>2. CASE UNCHANGED dispatch
      BY <3>2 DEF TypeOK
    <3> QED BY <1>10, <3>1, <3>2 DEF RouteChange
  <2>5. faults' \in 0..MaxFaults /\ crashes' = crashes
    BY <1>10, FailType DEF RouteChange, TypeOK
  <2>6. UNCHANGED <<source, topic, up, labelMap, store, dnext, dback, stream, qpc, snap, short, exposed>>
    BY <1>10 DEF RouteChange
  <2>7. rnext' \in 1..(Len(topic) + 1) /\ rback' \subseteq 1..(rnext' - 1) /\ delayed' \subseteq Nat
    BY <2>1, AnswerType
  <2> QED BY <2>3, <2>5, <2>6, <2>7 DEF TypeOK
<1>11. ASSUME NEW d \in DOMAIN dispatch, Dispatch(d) PROVE TypeOK'
  <2>1. \E cs \in SUBSET Targets(d) : PublishApi(d, cs)
    BY <1>11 DEF Dispatch
  <2>2. stream' \in [Nodes -> Seq(Item)]
    BY <2>1, PublishApiType
  <2>3. /\ dnext' \in 1..(Len(dispatch) + 1) /\ dback' \subseteq 1..(dnext' - 1)
    BY <1>11, DispatchedType
  <2>4. delayed' \subseteq Nat
    <3>1. dispatch[d] \in Entry
      BY DEF TypeOK
    <3>2. dispatch[d].m \in Nat
      BY <3>1 DEF Entry
    <3> QED BY <1>11, <3>2 DEF Dispatch, TypeOK
  <2>5. faults' \in 0..MaxFaults /\ crashes' = crashes
    BY <1>11, FailType DEF Dispatch, TypeOK
  <2>6. UNCHANGED <<source, topic, rnext, rback, up, labelMap, store, dispatch, qpc, snap, short, exposed>>
    BY <1>11 DEF Dispatch
  <2> QED BY <2>2, <2>3, <2>4, <2>5, <2>6 DEF TypeOK
<1>12. CASE UNCHANGED vars
  BY <1>12, FailType DEF vars, TypeOK
<1> QED
  BY <1>1, <1>2, <1>3, <1>4, <1>5, <1>6, <1>7, <1>8, <1>9, <1>10, <1>11, <1>12 DEF Next, Route

(***************************************************************************)
(* What a step adds to the source, the topic, the dispatched messages and  *)
(* the streams.                                                            *)
(***************************************************************************)

\* The source and the topic only grow, the topic at its end.
LEMMA TopicStep ==
  ASSUME TypeOK, [Next]_vars
  PROVE  /\ \A i \in DOMAIN topic : i \in DOMAIN topic' /\ topic'[i] = topic[i]
         /\ \A i \in DOMAIN topic' \ DOMAIN topic :
              /\ i = Len(topic) + 1
              /\ topic'[i].kind = "change" =>
                   topic'[i].n = Cardinality(Sent) + 1 /\ Cardinality(Sent) < Len(source)
         /\ Len(source) <= Len(source')
         /\ \A i \in 1..Len(source) : source'[i] = source[i]
<1>1. CASE Commit
  <2>1. PICK ls \in ChangeLabels : source' = Append(source, ls)
    BY <1>1 DEF Commit
  <2>2. topic' = topic
    BY <1>1 DEF Commit
  <2> QED BY <2>1, <2>2 DEF TypeOK
<1>2. ASSUME NEW x \in Message, topic' = Append(topic, x), UNCHANGED source,
             x.kind = "change" => x.n = Cardinality(Sent) + 1 /\ Cardinality(Sent) < Len(source)
      PROVE  /\ \A i \in DOMAIN topic : i \in DOMAIN topic' /\ topic'[i] = topic[i]
             /\ \A i \in DOMAIN topic' \ DOMAIN topic :
                  /\ i = Len(topic) + 1
                  /\ topic'[i].kind = "change" =>
                       topic'[i].n = Cardinality(Sent) + 1 /\ Cardinality(Sent) < Len(source)
             /\ Len(source) <= Len(source')
             /\ \A i \in 1..Len(source) : source'[i] = source[i]
  <2>1. /\ Len(topic) \in Nat /\ \A i \in 1..Len(topic) : topic'[i] = topic[i]
        /\ topic'[Len(topic) + 1] = x
        /\ DOMAIN topic = 1..Len(topic) /\ DOMAIN topic' = 1..(Len(topic) + 1)
    BY <1>2, TopicAppend
  <2>2. Len(source) \in Nat
    BY DEF TypeOK
  <2> QED BY <1>2, <2>1, <2>2
<1>3. CASE PublishChange
  BY <1>2, <1>3, ChangeType DEF PublishChange
<1>4. ASSUME NEW q \in Queries, Subscribe(q) \/ (Unsubscribe(q) /\ ~UNCHANGED topic)
      PROVE  \E kind \in {"sub", "unsub"} : topic' = Append(topic, [kind |-> kind, q |-> q]) /\ UNCHANGED source
  BY <1>4 DEF Subscribe, Unsubscribe, Control
<1>5. ASSUME NEW q \in Queries, NEW kind \in {"sub", "unsub"},
             topic' = Append(topic, [kind |-> kind, q |-> q]), UNCHANGED source
      PROVE  /\ \A i \in DOMAIN topic : i \in DOMAIN topic' /\ topic'[i] = topic[i]
             /\ \A i \in DOMAIN topic' \ DOMAIN topic :
                  /\ i = Len(topic) + 1
                  /\ topic'[i].kind = "change" =>
                       topic'[i].n = Cardinality(Sent) + 1 /\ Cardinality(Sent) < Len(source)
             /\ Len(source) <= Len(source')
             /\ \A i \in 1..Len(source) : source'[i] = source[i]
  BY <1>2, <1>5, ControlType
<1>6. CASE UNCHANGED <<topic, source>>
  BY <1>6 DEF TypeOK
<1>7. \/ Commit \/ PublishChange
      \/ \E q \in Queries : Subscribe(q) \/ (Unsubscribe(q) /\ ~UNCHANGED topic)
      \/ UNCHANGED <<topic, source>>
  BY DEF Next, Route, Acquire, Unsubscribe, StartRouter, CrashRouter, RouteSubscription,
         RouteUnsubscription, RouteChange, Dispatch, vars
<1> QED BY <1>1, <1>3, <1>4, <1>5, <1>6, <1>7

LEMMA CarriedStays ==
  ASSUME TypeOK, [Next]_vars, NEW m, Carried(m)
  PROVE  Carried(m)' /\ topic'[m] = topic[m]
  BY TopicStep DEF Carried

\* Only the router changes what it was given; an answer moves it on by the message.
LEMMA RouterStep ==
  ASSUME TypeOK, [Next]_vars
  PROVE  /\ rnext \in Nat /\ rnext' \in Nat /\ rnext <= rnext' /\ delayed \subseteq delayed'
         /\ \/ UNCHANGED <<rnext, rback>>
            \/ \E m \in RouterMessages : Acknowledge(m) \/ PutBack(m)
  <1>1. rnext \in Nat
    BY DEF TypeOK
  <1>2. \/ UNCHANGED <<rnext, rback, delayed>>
        \/ UNCHANGED <<rnext, rback>> /\ delayed \subseteq delayed'
        \/ \E m \in RouterMessages : Acknowledge(m) \/ PutBack(m)
    BY DEF Next, Route, Commit, PublishChange, Subscribe, Acquire, Unsubscribe, StartRouter,
           CrashRouter, RouteSubscription, RouteUnsubscription, RouteChange, Dispatch, vars, routerVars
  <1>3. ASSUME NEW m \in RouterMessages, Acknowledge(m) \/ PutBack(m)
        PROVE  rnext' \in Nat /\ rnext <= rnext' /\ delayed \subseteq delayed'
    <2>1. rnext' \in 1..(Len(topic) + 1) /\ rnext <= rnext' /\ delayed \subseteq delayed'
      BY <1>3, AnswerType
    <2> QED BY <2>1
  <1> QED BY <1>1, <1>2, <1>3

\* The router appends to the dispatched messages the change it is given.
LEMMA DispatchStep ==
  ASSUME TypeOK, PathInv, [Next]_vars
  PROVE  /\ \A d \in DOMAIN dispatch : d \in DOMAIN dispatch' /\ dispatch'[d] = dispatch[d]
         /\ \A d \in DOMAIN dispatch' \ DOMAIN dispatch :
              /\ d = Len(dispatch) + 1 /\ Len(dispatch) \in Nat
              /\ \E m \in RouterMessages :
                   /\ Carried(m) /\ dispatch'[d].m = m /\ m < rnext' /\ m <= rnext
                   /\ m \notin delayed' => m = rnext
  <1>1. CASE UNCHANGED dispatch
    BY <1>1
  <1>2. ASSUME NEW m \in RouterMessages, Forward(m), RouteChange(m)
        PROVE  /\ \A d \in DOMAIN dispatch : d \in DOMAIN dispatch' /\ dispatch'[d] = dispatch[d]
               /\ \A d \in DOMAIN dispatch' \ DOMAIN dispatch :
                    /\ d = Len(dispatch) + 1 /\ Len(dispatch) \in Nat
                    /\ Carried(m) /\ dispatch'[d].m = m /\ m < rnext' /\ m <= rnext
                    /\ m \notin delayed' => m = rnext
    <2>1. m \in DOMAIN topic /\ topic[m].kind = "change" /\ m <= rnext /\ (m # rnext => m \in rback)
      BY <1>2, RouterMessageType DEF RouteChange
    <2>2. topic[m].n <= Len(source)
      BY <2>1 DEF PathInv
    <2>3. /\ dispatch' \in Seq(Entry) /\ Len(dispatch') = Len(dispatch) + 1
          /\ \A d \in 1..Len(dispatch) : dispatch'[d] = dispatch[d]
          /\ dispatch'[Len(dispatch) + 1] = [m |-> m, subs |-> GetSubscribersForLabels(source[topic[m].n])]
          /\ Len(dispatch) \in Nat
      BY <1>2, <2>1, <2>2, ForwardType
    <2>4. DOMAIN dispatch = 1..Len(dispatch) /\ DOMAIN dispatch' = 1..(Len(dispatch) + 1)
      BY <2>3 DEF TypeOK
    <2>5. m < rnext' /\ delayed \subseteq delayed'
      BY <1>2, AnswerType DEF RouteChange
    <2>6. dispatch'[Len(dispatch) + 1].m = m
      BY <2>3
    <2>7. m \notin delayed' => m = rnext
      BY <2>1, <2>5 DEF PathInv
    <2>8. \A d \in DOMAIN dispatch' \ DOMAIN dispatch : d = Len(dispatch) + 1
      BY <2>3, <2>4
    <2> QED BY <2>1, <2>3, <2>4, <2>5, <2>6, <2>7, <2>8 DEF Carried
  <1>3. UNCHANGED dispatch \/ \E m \in RouterMessages : Forward(m) /\ RouteChange(m)
    BY DEF Next, Route, Commit, PublishChange, Subscribe, Acquire, Unsubscribe, StartRouter,
           CrashRouter, RouteSubscription, RouteUnsubscription, RouteChange, Dispatch, vars
  <1> QED BY <1>1, <1>2, <1>3

\* The dispatcher appends to the streams the message it handles.
LEMMA StreamStep ==
  ASSUME TypeOK, [Next]_vars, NEW c \in Nodes
  PROVE  /\ \A p \in DOMAIN stream[c] : p \in DOMAIN stream'[c] /\ stream'[c][p] = stream[c][p]
         /\ \A p \in DOMAIN stream'[c] \ DOMAIN stream[c] :
              /\ p = Len(stream[c]) + 1 /\ Len(stream[c]) \in Nat /\ DOMAIN stream[c] = 1..Len(stream[c])
              /\ \E d \in DOMAIN dispatch : Dispatch(d) /\ stream'[c][p].m = dispatch[d].m
  <1>1. CASE UNCHANGED stream
    BY <1>1
  <1>2. ASSUME NEW d \in DOMAIN dispatch, NEW cs, PublishApi(d, cs), Dispatch(d)
        PROVE  /\ \A p \in DOMAIN stream[c] : p \in DOMAIN stream'[c] /\ stream'[c][p] = stream[c][p]
               /\ \A p \in DOMAIN stream'[c] \ DOMAIN stream[c] :
                    /\ p = Len(stream[c]) + 1 /\ Len(stream[c]) \in Nat /\ DOMAIN stream[c] = 1..Len(stream[c])
                    /\ stream'[c][p].m = dispatch[d].m
    <2>1. /\ Len(stream[c]) \in Nat /\ DOMAIN stream[c] = 1..Len(stream[c])
          /\ DOMAIN stream'[c] = 1..Len(stream'[c])
          /\ \A p \in 1..Len(stream[c]) : stream'[c][p] = stream[c][p]
          /\ c \notin cs => stream'[c] = stream[c]
          /\ c \in cs => /\ Len(stream'[c]) = Len(stream[c]) + 1
                         /\ stream'[c][Len(stream[c]) + 1] =
                              [m |-> dispatch[d].m, qs |-> {q \in dispatch[d].subs : NodeOf[q] = c}]
      BY <1>2, PublishApiType
    <2>2. c \in cs => stream'[c][Len(stream[c]) + 1].m = dispatch[d].m
      BY <2>1
    <2> QED BY <2>1, <2>2
  <1>3. UNCHANGED stream \/ \E d \in DOMAIN dispatch : Dispatch(d) /\ \E cs \in SUBSET Targets(d) : PublishApi(d, cs)
    BY DEF Next, Route, Commit, PublishChange, Subscribe, Acquire, Unsubscribe, StartRouter,
           CrashRouter, RouteSubscription, RouteUnsubscription, RouteChange, Dispatch, vars
  <1> QED BY <1>1, <1>2, <1>3

(***************************************************************************)
(* The type invariant.                                                     *)
(***************************************************************************)

LEMMA PathInit == Init => PathInv
  BY DEF Init, PathInv

\* A message put back counts as delayed.
LEMMA BackIsDelayed ==
  ASSUME TypeOK, [Next]_vars, rback \subseteq delayed
  PROVE  rback' \subseteq delayed'
  <1>1. CASE UNCHANGED <<rnext, rback>>
    BY <1>1, RouterStep
  <1>2. ASSUME NEW m \in RouterMessages, Acknowledge(m) \/ PutBack(m) PROVE rback' \subseteq delayed'
    BY <1>2 DEF Acknowledge, PutBack
  <1> QED BY <1>1, <1>2, RouterStep

LEMMA PathStep ==
  ASSUME TypeOK, PathInv, [Next]_vars
  PROVE  PathInv'
<1>0. rnext \in Nat /\ rnext' \in Nat /\ rnext <= rnext'
  BY RouterStep
<1>1. ASSUME NEW m \in DOMAIN topic', topic'[m].kind = "change" PROVE topic'[m].n <= Len(source')
  <2>0. TypeOK'
    BY TypeStep
  <2>1. Len(source) \in Nat /\ Len(source') \in Nat /\ Len(source) <= Len(source')
    <3>1. source \in Seq(ChangeLabels) /\ source' \in Seq(ChangeLabels)
      BY <2>0 DEF TypeOK
    <3> QED BY <3>1, TopicStep
  <2>2. CASE m \in DOMAIN topic
    <3>1. topic'[m] = topic[m] /\ topic[m] \in Message
      BY <2>2, TopicStep DEF TypeOK
    <3>2. topic[m].n <= Len(source) /\ topic[m].n \in 1..MaxChanges
      BY <1>1, <2>2, <3>1, MessageType DEF PathInv
    <3> QED BY <2>1, <3>1, <3>2, RoutingAssumption
  <2>3. CASE m \notin DOMAIN topic
    <3>1. topic'[m].n = Cardinality(Sent) + 1 /\ Cardinality(Sent) < Len(source)
      BY <1>1, <2>3, TopicStep
    <3> QED BY <2>1, <3>1, SentType
  <2> QED BY <2>2, <2>3
<1>2. ASSUME NEW m, Carried(m), m < rnext PROVE m \in DOMAIN topic' /\ topic'[m].kind = "change" /\ m < rnext'
  <2>1. Carried(m)'
    BY <1>2, CarriedStays
  <2>2. m \in Nat
    BY <1>2 DEF Carried, TypeOK
  <2> QED BY <1>0, <1>2, <2>1, <2>2 DEF Carried
<1>3. ASSUME NEW d \in DOMAIN dispatch'
      PROVE  /\ dispatch'[d].m \in DOMAIN topic' /\ topic'[dispatch'[d].m].kind = "change"
             /\ dispatch'[d].m < rnext'
  <2>1. CASE d \in DOMAIN dispatch
    <3>1. dispatch'[d] = dispatch[d] /\ Carried(dispatch[d].m) /\ dispatch[d].m < rnext
      BY <2>1, DispatchStep DEF PathInv
    <3> QED BY <1>2, <3>1
  <2>2. CASE d \notin DOMAIN dispatch
    <3>1. PICK m \in RouterMessages : Carried(m) /\ dispatch'[d].m = m /\ m < rnext'
      BY <2>2, DispatchStep
    <3>2. Carried(m)'
      BY <3>1, CarriedStays
    <3> QED BY <3>1, <3>2 DEF Carried
  <2> QED BY <2>1, <2>2
<1>4. ASSUME NEW c \in Nodes, NEW p \in DOMAIN stream'[c]
      PROVE  /\ stream'[c][p].m \in DOMAIN topic' /\ topic'[stream'[c][p].m].kind = "change"
             /\ stream'[c][p].m < rnext'
  <2>1. CASE p \in DOMAIN stream[c]
    <3>1. stream'[c][p] = stream[c][p] /\ Carried(stream[c][p].m) /\ stream[c][p].m < rnext
      BY <2>1, StreamStep DEF PathInv
    <3> QED BY <1>2, <3>1
  <2>2. CASE p \notin DOMAIN stream[c]
    <3>1. PICK d \in DOMAIN dispatch : stream'[c][p].m = dispatch[d].m
      BY <2>2, StreamStep
    <3>2. Carried(dispatch[d].m) /\ dispatch[d].m < rnext
      BY DEF PathInv
    <3> QED BY <1>2, <3>1, <3>2
  <2> QED BY <2>1, <2>2
<1>5. rback' \subseteq delayed'
  BY BackIsDelayed DEF PathInv
<1> QED BY <1>1, <1>3, <1>4, <1>5 DEF PathInv, Carried

\* Every variable of the router, the dispatcher, the query API and the streams keeps a
\* value the code can give it; what is dispatched or streamed is a change of the topic.
THEOREM TypeCorrect == Spec => []TypeOK
<1>1. Init => TypeOK /\ PathInv
  BY TypeInit, PathInit
<1>2. TypeOK /\ PathInv /\ [Next]_vars => TypeOK' /\ PathInv'
  BY TypeStep, PathStep
<1> QED BY <1>1, <1>2, PTL DEF Spec

(***************************************************************************)
(* The order of arrival.                                                   *)
(***************************************************************************)

LEMMA OrderInit == Init => OrderInv
  BY DEF Init, OrderInv, ArrivesInOrder

\* The dispatcher moves on; a message it is to be given again is delayed.
LEMMA DispatcherStep ==
  ASSUME TypeOK, [Next]_vars
  PROVE  /\ dnext \in Nat /\ dnext' \in Nat /\ dnext <= dnext'
         /\ \A d \in dback' : d \in DOMAIN dispatch /\ (d \notin dback => dispatch[d].m \in delayed')
  <1>1. dnext \in Nat
    BY DEF TypeOK
  <1>2. \A d \in dback : d \in DOMAIN dispatch
    <2> TAKE d \in dback
    <2>1. d \in 1..(dnext - 1) /\ dnext \in 1..(Len(dispatch) + 1) /\ Len(dispatch) \in Nat
          /\ DOMAIN dispatch = 1..Len(dispatch)
      BY DEF TypeOK
    <2> QED BY <2>1
  <1>3. CASE UNCHANGED dispatcherVars
    BY <1>1, <1>2, <1>3 DEF dispatcherVars
  <1>4. ASSUME NEW d \in DOMAIN dispatch, Dispatch(d)
        PROVE  /\ dnext' \in Nat /\ dnext <= dnext'
               /\ \A e \in dback' : e \in DOMAIN dispatch /\ (e \notin dback => dispatch[e].m \in delayed')
    <2>1. dnext' \in 1..(Len(dispatch) + 1) /\ dnext <= dnext'
      BY <1>4, DispatchedType
    <2>2. \/ dback' = dback \ {d}
          \/ dback' = dback \cup {d} /\ dispatch[d].m \in delayed'
      BY <1>4 DEF Dispatch
    <2> QED BY <1>2, <2>1, <2>2
  <1>5. UNCHANGED dispatcherVars \/ \E d \in DOMAIN dispatch : Dispatch(d)
    BY DEF Next, Route, Commit, PublishChange, Subscribe, Acquire, Unsubscribe, StartRouter,
           CrashRouter, RouteSubscription, RouteUnsubscription, RouteChange, vars
  <1> QED BY <1>1, <1>3, <1>4, <1>5

LEMMA OrderStep ==
  ASSUME TypeOK, PathInv, OrderInv, [Next]_vars
  PROVE  OrderInv'
<1>0. TypeOK' /\ PathInv'
  BY TypeStep, PathStep
<1>1. /\ dispatch \in Seq(Entry) /\ DOMAIN dispatch = 1..Len(dispatch) /\ Len(dispatch) \in Nat
      /\ dispatch' \in Seq(Entry) /\ DOMAIN dispatch' = 1..Len(dispatch') /\ Len(dispatch') \in Nat
      /\ rnext \in Nat /\ dnext \in Nat /\ dnext' \in Nat /\ dnext <= dnext' /\ delayed \subseteq delayed'
  <2>1. dispatch \in Seq(Entry)
    BY DEF TypeOK
  <2>2. dispatch' \in Seq(Entry)
    BY <1>0 DEF TypeOK
  <2> QED BY <2>1, <2>2, DispatcherStep, RouterStep
<1>2. /\ \A d \in DOMAIN dispatch : dispatch[d].m \in Nat /\ dispatch[d].m < rnext
      /\ \A d \in DOMAIN dispatch' : dispatch'[d].m \in Nat
  <2>1. \A d \in DOMAIN dispatch : dispatch[d] \in Entry
    BY <1>1
  <2>2. \A d \in DOMAIN dispatch' : dispatch'[d] \in Entry
    BY <1>1
  <2> QED BY <2>1, <2>2 DEF Entry, PathInv
<1>3. ASSUME NEW d \in DOMAIN dispatch', d \notin DOMAIN dispatch, dispatch'[d].m \notin delayed'
      PROVE  d = Len(dispatch) + 1 /\ dispatch'[d].m = rnext
  BY <1>3, DispatchStep
<1>4. \A d \in DOMAIN dispatch : d \in DOMAIN dispatch' /\ dispatch'[d] = dispatch[d]
  BY DispatchStep
<1>5. ASSUME NEW d \in DOMAIN dispatch', NEW b \in 1..(d - 1), dispatch'[b].m >= dispatch'[d].m,
             dispatch'[d].m \notin delayed'
      PROVE  FALSE
  <2>1. CASE d \in DOMAIN dispatch
    <3>1. b \in DOMAIN dispatch
      BY <1>1, <2>1
    <3>2. dispatch[b].m >= dispatch[d].m /\ dispatch[d].m \notin delayed
      BY <1>1, <1>4, <1>5, <2>1, <3>1
    <3> QED BY <2>1, <3>2 DEF OrderInv
  <2>2. CASE d \notin DOMAIN dispatch
    <3>1. d = Len(dispatch) + 1 /\ dispatch'[d].m = rnext
      BY <1>3, <1>5, <2>2
    <3>2. b \in DOMAIN dispatch
      BY <1>1, <3>1
    <3>3. dispatch'[b].m < rnext /\ dispatch'[b].m \in Nat
      BY <1>2, <1>4, <3>2
    <3> QED BY <1>1, <1>5, <3>1, <3>3
  <2> QED BY <2>1, <2>2
<1>6. ASSUME NEW d \in dback' PROVE dispatch'[d].m \in delayed'
  <2>1. d \in DOMAIN dispatch /\ (d \notin dback => dispatch[d].m \in delayed')
    BY DispatcherStep
  <2>2. d \in dback => dispatch[d].m \in delayed
    BY DEF OrderInv
  <2> QED BY <1>1, <1>4, <2>1, <2>2
<1>7. ASSUME NEW c \in Nodes, NEW p \in DOMAIN stream'[c]
      PROVE  \/ p \in DOMAIN stream[c] /\ stream'[c][p] = stream[c][p]
             \/ p \notin DOMAIN stream[c] /\ \E e \in DOMAIN dispatch : Dispatch(e) /\ stream'[c][p].m = dispatch[e].m
  BY StreamStep
<1>8. ASSUME NEW c \in Nodes, NEW p \in DOMAIN stream'[c]
      PROVE  stream'[c][p].m \in Nat /\ stream'[c][p].m < rnext
  <2>1. CASE p \in DOMAIN stream[c] /\ stream'[c][p] = stream[c][p]
    BY <2>1 DEF PathInv, Carried, TypeOK
  <2>2. CASE \E e \in DOMAIN dispatch : stream'[c][p].m = dispatch[e].m
    BY <1>2, <2>2
  <2> QED BY <1>7, <2>1, <2>2
<1>9. ASSUME NEW c \in Nodes, NEW p \in DOMAIN stream'[c], NEW d \in DOMAIN dispatch', d >= dnext',
             stream'[c][p].m >= dispatch'[d].m, dispatch'[d].m \notin delayed'
      PROVE  FALSE
  <2>1. CASE d \notin DOMAIN dispatch
    <3>1. dispatch'[d].m = rnext
      BY <1>3, <1>9, <2>1
    <3> QED BY <1>1, <1>8, <1>9, <3>1
  <2>2. CASE d \in DOMAIN dispatch /\ p \in DOMAIN stream[c] /\ stream'[c][p] = stream[c][p]
    <3>1. dispatch'[d] = dispatch[d] /\ d >= dnext /\ dispatch[d].m \notin delayed
      BY <1>1, <1>4, <1>9, <2>2
    <3>2. stream[c][p].m >= dispatch[d].m
      BY <1>9, <2>2, <3>1
    <3> QED BY <2>2, <3>1, <3>2 DEF OrderInv
  <2>3. ASSUME d \in DOMAIN dispatch, NEW e \in DOMAIN dispatch, Dispatch(e), stream'[c][p].m = dispatch[e].m
        PROVE  FALSE
    <3>1. e < dnext' /\ e \in Nat
      BY <2>3, DispatchedType
    <3>2. e \in 1..(d - 1)
      BY <1>1, <1>9, <2>3, <3>1
    <3>3. dispatch'[d] = dispatch[d] /\ dispatch[d].m \notin delayed
      BY <1>1, <1>4, <1>9, <2>3
    <3>4. dispatch[e].m >= dispatch[d].m
      BY <1>9, <2>3, <3>3
    <3> QED BY <2>3, <3>2, <3>3, <3>4 DEF OrderInv
  <2> QED BY <1>7, <2>1, <2>2, <2>3
<1>10. ASSUME NEW c \in Nodes, NEW r \in DOMAIN stream'[c], NEW p \in 1..(r - 1),
              stream'[c][p].m > stream'[c][r].m, stream'[c][r].m \notin delayed'
       PROVE  FALSE
  <2>0. DOMAIN stream[c] = 1..Len(stream[c]) /\ Len(stream[c]) \in Nat
        /\ DOMAIN stream'[c] = 1..Len(stream'[c]) /\ Len(stream'[c]) \in Nat
    <3>1. stream[c] \in Seq(Item) /\ stream'[c] \in Seq(Item)
      BY <1>0 DEF TypeOK
    <3> QED BY <3>1
  <2>1. CASE r \in DOMAIN stream[c] /\ stream'[c][r] = stream[c][r]
    <3>1. p \in DOMAIN stream[c]
      BY <2>0, <2>1
    <3>2. stream'[c][p] = stream[c][p]
      BY <3>1, StreamStep
    <3>3. stream[c][p].m > stream[c][r].m /\ stream[c][r].m \notin delayed
      BY <1>1, <1>10, <2>1, <3>2
    <3> QED BY <2>1, <3>3 DEF OrderInv, ArrivesInOrder
  <2>2. ASSUME r \notin DOMAIN stream[c], NEW e \in DOMAIN dispatch, Dispatch(e), stream'[c][r].m = dispatch[e].m
        PROVE  FALSE
    <3>1. r = Len(stream[c]) + 1
      BY <2>2, StreamStep
    <3>2. p \in DOMAIN stream[c]
      BY <2>0, <3>1
    <3>3. stream'[c][p] = stream[c][p]
      BY <3>2, StreamStep
    <3>4. stream[c][p].m >= dispatch[e].m
      <4>1. stream[c][p].m \in Nat /\ dispatch[e].m \in Nat
        BY <1>2, <3>2 DEF PathInv, Carried, TypeOK
      <4> QED BY <1>10, <2>2, <3>3, <4>1
    <3>5. e \notin dback
      BY <1>1, <1>10, <2>2 DEF OrderInv
    <3>6. e >= dnext
      <4>1. e <= dnext /\ (e # dnext => e \in dback) /\ e \in Nat
        BY <2>2, DispatchedType
      <4> QED BY <1>1, <3>5, <4>1
    <3>7. dispatch[e].m \in delayed
      BY <3>2, <3>4, <3>6 DEF OrderInv
    <3> QED BY <1>1, <1>10, <2>2, <3>7
  <2> QED BY <1>7, <2>1, <2>2
<1>11. ArrivesInOrder'
  BY <1>10 DEF ArrivesInOrder
<1> QED BY <1>5, <1>6, <1>9, <1>11 DEF OrderInv

\* The streams of the query nodes hold the changes in the order of the topic, but for
\* those that were delivered again by one of the two topics.
THEOREM ChangesArriveInOrder == Spec => []ArrivesInOrder
<1>1. Init => TypeOK /\ PathInv /\ OrderInv
  BY TypeInit, PathInit, OrderInit
<1>2. TypeOK /\ PathInv /\ OrderInv /\ [Next]_vars => (TypeOK /\ PathInv /\ OrderInv)'
  BY TypeStep, PathStep, OrderStep
<1>3. OrderInv => ArrivesInOrder
  BY DEF OrderInv
<1> QED BY <1>1, <1>2, <1>3, PTL DEF Spec

(***************************************************************************)
(* Subscriptions stay in the store of the router.                          *)
(***************************************************************************)

\* The last request of a query.
LEMMA LastControl ==
  ASSUME TypeOK, NEW q, Controls(q) # {}
  PROVE  /\ Max(Controls(q)) \in Controls(q) /\ Max(Controls(q)) \in 1..Len(topic)
         /\ \A i \in Controls(q) : i <= Max(Controls(q)) /\ i \in Nat
  <1>1. Len(topic) \in Nat /\ DOMAIN topic = 1..Len(topic)
    BY DEF TypeOK
  <1>2. Controls(q) \in SUBSET (0..Len(topic))
    BY <1>1 DEF Controls
  <1>3. Max(Controls(q)) \in Controls(q) /\ \A i \in Controls(q) : i <= Max(Controls(q))
    BY <1>1, <1>2, MaxIs
  <1> QED BY <1>1, <1>3 DEF Controls

\* A step leaves the requests of a query alone, or adds one as the last message of the
\* topic, which the router was not given yet.
LEMMA ControlsStep ==
  ASSUME TypeOK, [Next]_vars, NEW q
  PROVE  \/ Controls(q)' = Controls(q) /\ (\A i \in Controls(q) : topic'[i] = topic[i])
         \/ /\ Controls(q)' = Controls(q) \cup {Len(topic) + 1} /\ Max(Controls(q)') = Len(topic) + 1
            /\ rnext' <= Len(topic) + 1 /\ UNCHANGED <<rnext, source>>
            /\ topic'[Len(topic) + 1].kind # "change"
  <1>0. Len(topic) \in Nat /\ DOMAIN topic = 1..Len(topic) /\ rnext \in 1..(Len(topic) + 1)
    BY DEF TypeOK
  <1>1. /\ \A i \in DOMAIN topic : i \in DOMAIN topic' /\ topic'[i] = topic[i]
        /\ \A i \in DOMAIN topic' \ DOMAIN topic : i = Len(topic) + 1
    BY TopicStep
  <1>2. CASE Len(topic) + 1 \in Controls(q)'
    <2>1. topic'[Len(topic) + 1].kind # "change" /\ Len(topic) + 1 \in DOMAIN topic'
      BY <1>2 DEF Controls
    <2>2. topic' # topic
      BY <1>0, <2>1
    <2>3. \/ PublishChange \/ \E p \in Queries : Subscribe(p) \/ Unsubscribe(p)
      BY <2>2 DEF Next, Route, Commit, Acquire, StartRouter, CrashRouter, RouteSubscription,
                  RouteUnsubscription, RouteChange, Dispatch, vars
    <2>4. ~PublishChange
      <3> SUFFICES ASSUME PublishChange PROVE FALSE
        OBVIOUS
      <3>1. topic'[Len(topic) + 1] = [kind |-> "change", n |-> Cardinality(Sent) + 1]
        BY ChangeType, TopicAppend DEF PublishChange
      <3> QED BY <2>1, <3>1
    <2>5. UNCHANGED <<rnext, source>>
      BY <2>3, <2>4 DEF Subscribe, Unsubscribe, routerVars
    <2>6. Controls(q)' = Controls(q) \cup {Len(topic) + 1}
      BY <1>1, <1>2 DEF Controls
    <2>7. Max(Controls(q)') = Len(topic) + 1
      <3>1. Controls(q) \subseteq 0..(Len(topic) + 1) /\ Len(topic) + 1 \in Nat
        BY <1>0 DEF Controls
      <3>2. Controls(q)' \in SUBSET (0..(Len(topic) + 1)) /\ Len(topic) + 1 \in Controls(q)'
        BY <2>6, <3>1
      <3> QED BY <3>1, <3>2, TopIs
    <2> QED BY <1>0, <2>1, <2>5, <2>6, <2>7
  <1>3. CASE Len(topic) + 1 \notin Controls(q)'
    <2>1. Controls(q)' = Controls(q)
      BY <1>1, <1>3 DEF Controls
    <2> QED BY <1>1, <2>1 DEF Controls
  <1> QED BY <1>2, <1>3

LEMMA SurvivesStep ==
  ASSUME TypeOK, PathInv, SubscriptionSurvives, [Next]_vars
  PROVE  SubscriptionSurvives'
<1>0. TypeOK' /\ PathInv'
  BY TypeStep, PathStep
<1>1. SUFFICES ASSUME NEW q \in Queries, NEW m, m = Max(Controls(q)'), Controls(q)' # {},
                      topic'[m].kind = "sub", m < rnext', m \notin rback',
                      \A i \in Controls(q)' \cap (delayed' \cup rback') : topic'[i].kind = "sub"
               PROVE  q \in store'
  BY DEF SubscriptionSurvives
<1>2. Len(topic) \in Nat /\ DOMAIN topic = 1..Len(topic) /\ rnext \in 1..(Len(topic) + 1)
  BY DEF TypeOK
<1>3. Controls(q)' = Controls(q) /\ (\A i \in Controls(q) : topic'[i] = topic[i])
  BY <1>1, <1>2, ControlsStep
<1>4. /\ Controls(q) # {} /\ m = Max(Controls(q)) /\ m \in Controls(q) /\ m \in 1..Len(topic)
      /\ \A i \in Controls(q) : i <= m /\ i \in Nat
  BY <1>1, <1>3, LastControl
<1>5. topic[m].kind = "sub" /\ topic[m].q = q
  BY <1>1, <1>3, <1>4 DEF Controls
<1>6. delayed \subseteq delayed' /\ rback \subseteq delayed /\ rback' \subseteq delayed'
  BY <1>0, RouterStep DEF PathInv
<1>7. \A i \in Controls(q) \cap (delayed \cup rback) : topic[i].kind = "sub"
  BY <1>1, <1>3, <1>6
<1>8. m < rnext /\ m \notin rback => q \in store
  BY <1>4, <1>5, <1>7 DEF SubscriptionSurvives
<1>9. ASSUME NEW j \in RouterMessages, Acknowledge(j) \/ PutBack(j), j # m
      PROVE  m < rnext /\ m \notin rback
  <2>1. \A i \in Nat : i < rnext' => i < rnext \/ i = j
    BY <1>9, AnswerType
  <2> QED BY <1>1, <1>4, <1>9, <2>1 DEF Acknowledge, PutBack
<1>10. ASSUME NEW j \in RouterMessages, RouteSubscription(j) PROVE q \in store'
  <2>1. store \subseteq store' /\ (Acknowledge(j) \/ PutBack(j))
    BY <1>10 DEF RouteSubscription, SaveState
  <2>2. CASE j = m
    <3>1. ~PutBack(j)
      BY <1>1, <2>2 DEF PutBack
    <3> QED BY <1>5, <1>10, <2>2, <3>1 DEF RouteSubscription, SaveState
  <2>3. CASE j # m
    BY <1>8, <1>9, <2>1, <2>3
  <2> QED BY <2>2, <2>3
<1>11. ASSUME NEW j \in RouterMessages, RouteUnsubscription(j) PROVE q \in store'
  <2>1. topic[j].kind = "unsub" /\ (Acknowledge(j) \/ PutBack(j)) /\ j # m
    BY <1>5, <1>11 DEF RouteUnsubscription
  <2>2. m < rnext /\ m \notin rback
    BY <1>9, <2>1
  <2>3. q \in store
    BY <1>8, <2>2
  <2>4. topic[j].q # q
    <3> SUFFICES ASSUME topic[j].q = q PROVE FALSE
      OBVIOUS
    <3>1. j \in DOMAIN topic /\ (j # rnext => j \in rback)
      BY RouterMessageType
    <3>2. j \in Controls(q)
      BY <2>1, <3>1 DEF Controls
    <3>3. j # rnext
      BY <1>2, <1>4, <2>2, <3>2
    <3> QED BY <1>7, <2>1, <3>1, <3>2, <3>3
  <2> QED BY <1>11, <2>3, <2>4 DEF RouteUnsubscription, DeleteState
<1>12. ASSUME UNCHANGED store,
              \/ UNCHANGED <<rnext, rback>>
              \/ \E j \in RouterMessages : Acknowledge(j) /\ j # m
              \/ \E j \in RouterMessages : PutBack(j)
       PROVE  q \in store'
  <2>1. CASE UNCHANGED <<rnext, rback>>
    BY <1>1, <1>8, <1>12, <2>1
  <2>2. ASSUME NEW j \in RouterMessages, Acknowledge(j), j # m PROVE q \in store'
    BY <1>8, <1>9, <1>12, <2>2
  <2>3. ASSUME NEW j \in RouterMessages, PutBack(j) PROVE q \in store'
    <3>1. j # m
      BY <1>1, <2>3 DEF PutBack
    <3> QED BY <1>8, <1>9, <1>12, <2>3, <3>1
  <2> QED BY <1>12, <2>1, <2>2, <2>3
<1>13. ASSUME NEW j \in RouterMessages, RouteChange(j) PROVE q \in store'
  <2>1. j # m /\ UNCHANGED store /\ (Acknowledge(j) \/ PutBack(j))
    BY <1>5, <1>13 DEF RouteChange
  <2> QED BY <1>12, <2>1
<1>14. CASE CrashRouter
  BY <1>12, <1>14 DEF CrashRouter
<1>15. \/ UNCHANGED <<store, rnext, rback>> \/ CrashRouter
       \/ \E j \in RouterMessages : RouteSubscription(j) \/ RouteUnsubscription(j) \/ RouteChange(j)
  BY DEF Next, Route, Commit, PublishChange, Subscribe, Acquire, Unsubscribe, StartRouter,
         RouteSubscription, RouteUnsubscription, RouteChange, Dispatch, vars, routerVars
<1> QED BY <1>10, <1>11, <1>12, <1>13, <1>14, <1>15

\* A subscription that was answered with success is in the router's state store, through
\* failed calls and crashes, as long as no unsubscription of the query comes again after it.
THEOREM SubscriptionsSurvive == Spec => []SubscriptionSurvives
<1>1. Init => TypeOK /\ PathInv /\ SubscriptionSurvives
  <2>1. Init => SubscriptionSurvives
    BY DEF Init, SubscriptionSurvives, Controls
  <2> QED BY <2>1, TypeInit, PathInit
<1>2. TypeOK /\ PathInv /\ SubscriptionSurvives /\ [Next]_vars => (TypeOK /\ PathInv /\ SubscriptionSurvives)'
  BY TypeStep, PathStep, SurvivesStep
<1> QED BY <1>1, <1>2, PTL DEF Spec

(***************************************************************************)
(* No gap between the snapshot and the changes.                            *)
(***************************************************************************)

\* What a step does to a query that runs after it: it ran before, or just subscribed.
LEMMA QueryStep ==
  ASSUME TypeOK, [Next]_vars, NEW q \in Queries, qpc'[q] # "off"
  PROVE  \/ /\ qpc[q] # "off" /\ Controls(q)' = Controls(q) /\ \A i \in Controls(q) : topic'[i] = topic[i]
            /\ q \in exposed => q \in exposed'
            /\ qpc'[q] = "live" => \/ /\ qpc[q] = "live" /\ snap'[q] = snap[q]
                                      /\ q \in short => q \in short'
                                   \/ snap'[q] = Len(source) /\ UNCHANGED <<topic, source>>
         \/ /\ qpc'[q] = "acquiring" /\ Controls(q)' # {} /\ Max(Controls(q)') = Len(topic) + 1
            /\ rnext' <= Len(topic) + 1 /\ topic'[Len(topic) + 1].kind = "sub"
<1>0. /\ qpc \in [Queries -> {"off", "acquiring", "live"}] /\ snap \in [Queries -> 0..MaxChanges]
      /\ Len(topic) \in Nat /\ DOMAIN topic = 1..Len(topic)
  BY DEF TypeOK
<1>1. ASSUME NEW p \in Queries, p # q, NEW kind \in {"sub", "unsub"}, Control(kind, p)
      PROVE  Controls(q)' = Controls(q) /\ \A i \in Controls(q) : topic'[i] = topic[i]
  <2>1. /\ \A i \in 1..Len(topic) : topic'[i] = topic[i]
        /\ topic'[Len(topic) + 1] = [kind |-> kind, q |-> p] /\ DOMAIN topic' = 1..(Len(topic) + 1)
    BY <1>1, ControlType, TopicAppend DEF Control
  <2>2. topic'[Len(topic) + 1].q # q
    BY <1>1, <2>1
  <2>3. Len(topic) + 1 \notin Controls(q)'
    BY <2>2 DEF Controls
  <2> QED BY <2>3, ControlsStep
<1>2. CASE UNCHANGED <<topic, qpc, snap, short>> /\ exposed \subseteq exposed'
  BY <1>2 DEF Controls
<1>3. CASE Commit
  BY <1>2, <1>3 DEF Commit, queryVars
<1>4. CASE PublishChange
  <2>1. topic'[Len(topic) + 1] = [kind |-> "change", n |-> Cardinality(Sent) + 1]
    BY <1>4, ChangeType, TopicAppend DEF PublishChange
  <2>2. Len(topic) + 1 \notin Controls(q)'
    BY <2>1 DEF Controls
  <2>3. Controls(q)' = Controls(q) /\ \A i \in Controls(q) : topic'[i] = topic[i]
    BY <2>2, ControlsStep
  <2> QED BY <1>4, <2>3 DEF PublishChange, queryVars
<1>5. ASSUME Subscribe(q)
      PROVE  /\ qpc'[q] = "acquiring" /\ Controls(q)' # {} /\ Max(Controls(q)') = Len(topic) + 1
             /\ rnext' <= Len(topic) + 1 /\ topic'[Len(topic) + 1].kind = "sub"
  <2>1. topic'[Len(topic) + 1] = [kind |-> "sub", q |-> q] /\ DOMAIN topic' = 1..(Len(topic) + 1)
    BY <1>5, ControlType, TopicAppend DEF Subscribe, Control
  <2>2. Len(topic) + 1 \in Controls(q)' /\ Len(topic) + 1 \notin Controls(q)
    BY <1>0, <2>1 DEF Controls
  <2>3. Max(Controls(q)') = Len(topic) + 1 /\ rnext' <= Len(topic) + 1
    BY <2>2, ControlsStep
  <2> QED BY <1>0, <1>5, <2>1, <2>2, <2>3 DEF Subscribe
<1>6. ASSUME NEW p \in Queries, p # q, Subscribe(p)
      PROVE  /\ Controls(q)' = Controls(q) /\ \A i \in Controls(q) : topic'[i] = topic[i]
             /\ qpc'[q] = qpc[q] /\ snap'[q] = snap[q] /\ UNCHANGED <<short, exposed>>
  BY <1>0, <1>1, <1>6 DEF Subscribe
<1>7. ASSUME NEW p \in Queries, p # q, Acquire(p)
      PROVE  /\ Controls(q)' = Controls(q) /\ \A i \in Controls(q) : topic'[i] = topic[i]
             /\ qpc'[q] = qpc[q] /\ snap'[q] = snap[q]
             /\ (q \in short => q \in short') /\ (q \in exposed => q \in exposed')
  <2>1. UNCHANGED topic
    BY <1>7 DEF Acquire
  <2>2. qpc'[q] = qpc[q] /\ snap'[q] = snap[q]
    BY <1>0, <1>7 DEF Acquire, StreamResources, StreamBreaks, Off
  <2>3. (q \in short => q \in short') /\ (q \in exposed => q \in exposed')
    BY <1>7 DEF Acquire, StreamResources, StreamBreaks, Off
  <2> QED BY <2>1, <2>2, <2>3 DEF Controls
<1>8. ASSUME NEW p \in Queries, p # q, Unsubscribe(p)
      PROVE  /\ Controls(q)' = Controls(q) /\ \A i \in Controls(q) : topic'[i] = topic[i]
             /\ qpc'[q] = qpc[q] /\ snap'[q] = snap[q]
             /\ (q \in short => q \in short') /\ (q \in exposed => q \in exposed')
  <2>1. Controls(q)' = Controls(q) /\ \A i \in Controls(q) : topic'[i] = topic[i]
    <3>1. CASE UNCHANGED topic
      BY <3>1 DEF Controls
    <3> QED BY <1>1, <1>8, <3>1 DEF Unsubscribe
  <2> QED BY <1>0, <1>8, <2>1 DEF Unsubscribe, Off
<1>9. ASSUME Acquire(q)
      PROVE  qpc[q] # "off" /\ UNCHANGED <<topic, source, exposed>> /\ snap'[q] = Len(source)
  BY <1>0, <1>9 DEF Acquire, StreamResources, StreamBreaks, Off
<1>10. ~Unsubscribe(q)
  BY <1>0 DEF Unsubscribe, Off
<1>11. \/ UNCHANGED <<topic, qpc, snap, short>> /\ exposed \subseteq exposed'
       \/ Commit \/ PublishChange \/ \E p \in Queries : Subscribe(p) \/ Acquire(p) \/ Unsubscribe(p)
  BY DEF Next, Route, StartRouter, CrashRouter, RouteSubscription,
         RouteUnsubscription, RouteChange, Dispatch, vars, queryVars
<1>12. CASE Acquire(q)
  BY <1>9, <1>12 DEF Controls
<1>13. CASE \E p \in Queries : p # q /\ (Subscribe(p) \/ Acquire(p) \/ Unsubscribe(p))
  BY <1>6, <1>7, <1>8, <1>13
<1> QED BY <1>2, <1>3, <1>4, <1>5, <1>10, <1>11, <1>12, <1>13

LEMMA SubscribedStep ==
  ASSUME TypeOK, PathInv, SubscribedInv, [Next]_vars
  PROVE  SubscribedInv'
<1>0. PathInv' /\ Len(topic) \in Nat /\ DOMAIN topic = 1..Len(topic)
  BY PathStep DEF TypeOK
<1>1. ASSUME NEW q \in Queries, qpc'[q] # "off"
      PROVE  Controls(q)' # {} /\ topic'[Max(Controls(q)')].kind = "sub"
  <2>1. CASE qpc[q] # "off" /\ Controls(q)' = Controls(q) /\ \A i \in Controls(q) : topic'[i] = topic[i]
    <3>1. Controls(q) # {} /\ topic[Max(Controls(q))].kind = "sub"
      BY <2>1 DEF SubscribedInv
    <3>2. Max(Controls(q)) \in Controls(q)
      BY <3>1, LastControl
    <3> QED BY <2>1, <3>1, <3>2
  <2> QED BY <1>1, <2>1, QueryStep
<1>2. ASSUME NEW q \in Queries, qpc'[q] = "live", NEW m \in DOMAIN topic', topic'[m].kind = "change",
             topic'[m].n > snap'[q]
      PROVE  Max(Controls(q)') < m
  <2>1. CASE snap'[q] = Len(source) /\ UNCHANGED <<topic, source>>
    <3>1. topic[m].n <= Len(source) /\ topic[m].n > Len(source)
      BY <1>2, <2>1 DEF PathInv
    <3>2. topic[m].n \in 1..MaxChanges /\ Len(source) \in Nat
      BY <1>2, <2>1, MessageType DEF TypeOK
    <3> QED BY <3>1, <3>2, RoutingAssumption
  <2>2. CASE qpc[q] = "live" /\ snap'[q] = snap[q] /\ Controls(q)' = Controls(q)
    <3>1. Controls(q) # {}
      BY <2>2 DEF SubscribedInv
    <3>2. Max(Controls(q)) \in 1..Len(topic)
      BY <3>1, LastControl
    <3>3. CASE m \in DOMAIN topic
      <4>1. topic'[m] = topic[m]
        BY <3>3, TopicStep
      <4> QED BY <1>2, <2>2, <3>3, <4>1 DEF SubscribedInv
    <3>4. CASE m \notin DOMAIN topic
      <4>1. m = Len(topic) + 1
        BY <3>4, TopicStep
      <4> QED BY <1>0, <2>2, <3>2, <4>1
    <3> QED BY <3>3, <3>4
  <2> QED BY <1>2, <2>1, <2>2, QueryStep
<1> QED BY <1>1, <1>2 DEF SubscribedInv

LEMMA RoutedStep ==
  ASSUME TypeOK, SubscribedInv, RoutedInv, [Next]_vars
  PROVE  RoutedInv'
<1>0. Len(topic) \in Nat /\ rnext \in Nat /\ rnext' \in Nat
  BY RouterStep DEF TypeOK
<1>1. SUFFICES ASSUME up', NEW q \in Queries, qpc'[q] # "off", q \notin exposed', Max(Controls(q)') < rnext',
                      NEW l \in LabelsOf[q]
               PROVE  q \in labelMap'[l]
  BY DEF RoutedInv
<1>2. l \in Labels
  BY RoutingAssumption
<1>3. qpc[q] # "off" /\ Controls(q)' = Controls(q) /\ q \notin exposed
  BY <1>0, <1>1, QueryStep
<1>4. Controls(q) # {} /\ topic[Max(Controls(q))].kind = "sub"
  BY <1>3 DEF SubscribedInv
<1>5. Max(Controls(q)) \in Controls(q) /\ Max(Controls(q)) \in Nat
  BY <1>4, LastControl
<1>6. CASE StartRouter
  BY <1>1, <1>3, <1>6 DEF StartRouter
<1>7. ASSUME up, Max(Controls(q)) < rnext, labelMap[l] \subseteq labelMap'[l]
      PROVE  q \in labelMap'[l]
  BY <1>3, <1>7 DEF RoutedInv
<1>8. ASSUME NEW j \in RouterMessages, up, Acknowledge(j) \/ PutBack(j), j # Max(Controls(q)),
             labelMap[l] \subseteq labelMap'[l]
      PROVE  q \in labelMap'[l]
  <2>1. \A i \in Nat : i < rnext' => i < rnext \/ i = j
    BY <1>8, AnswerType
  <2> QED BY <1>1, <1>3, <1>5, <1>7, <1>8, <2>1
<1>9. ASSUME NEW j \in RouterMessages, RouteSubscription(j) PROVE q \in labelMap'[l]
  <2>1. up /\ (Acknowledge(j) \/ PutBack(j)) /\ labelMap' = AddLabels(labelMap, topic[j].q)
    BY <1>9 DEF RouteSubscription
  <2>2. labelMap[l] \subseteq labelMap'[l]
    BY <1>2, <2>1 DEF AddLabels
  <2>3. CASE j = Max(Controls(q))
    <3>1. topic[j].q = q
      BY <1>5, <2>3 DEF Controls
    <3> QED BY <1>1, <1>2, <2>1, <3>1 DEF AddLabels
  <2> QED BY <1>8, <2>1, <2>2, <2>3
<1>10. ASSUME NEW j \in RouterMessages, RouteUnsubscription(j) \/ RouteChange(j) PROVE q \in labelMap'[l]
  <2>1. up /\ (Acknowledge(j) \/ PutBack(j)) /\ UNCHANGED labelMap /\ topic[j].kind # "sub"
    BY <1>10 DEF RouteUnsubscription, RouteChange
  <2> QED BY <1>4, <1>8, <2>1
<1>11. CASE UNCHANGED <<up, rnext, labelMap>>
  BY <1>1, <1>3, <1>7, <1>11
<1>12. ~CrashRouter
  BY <1>1 DEF CrashRouter
<1>13. \/ UNCHANGED <<up, rnext, labelMap>> \/ StartRouter \/ CrashRouter
       \/ \E j \in RouterMessages : RouteSubscription(j) \/ RouteUnsubscription(j) \/ RouteChange(j)
  BY DEF Next, Route, Commit, PublishChange, Subscribe, Acquire, Unsubscribe,
         RouteSubscription, RouteUnsubscription, RouteChange, Dispatch, vars, routerVars
<1> QED BY <1>6, <1>9, <1>10, <1>11, <1>12, <1>13

\* A message comes to the topic behind those the router was given.
LEMMA NewIsAhead ==
  ASSUME TypeOK, [Next]_vars, NEW m \in DOMAIN topic', m \notin DOMAIN topic
  PROVE  m >= rnext'
  <1>1. m = Len(topic) + 1 /\ topic' # topic
    BY TopicStep
  <1>2. UNCHANGED rnext
    BY <1>1 DEF Next, Route, Commit, PublishChange, Subscribe, Acquire, Unsubscribe, StartRouter,
                CrashRouter, RouteSubscription, RouteUnsubscription, RouteChange, Dispatch, vars, routerVars
  <1>3. rnext \in 1..(Len(topic) + 1) /\ Len(topic) \in Nat
    BY DEF TypeOK
  <1> QED BY <1>1, <1>2, <1>3

\* The numbers of the changes in the topic.
LEMMA CarrierType ==
  ASSUME TypeOK, PathInv, NEW n, NEW m \in Carriers(n)
  PROVE  /\ m \in DOMAIN topic /\ m \in Nat /\ m <= Len(topic) /\ Len(topic) \in Nat
         /\ topic[m].kind = "change" /\ topic[m].n = n /\ n \in 1..Len(source) /\ Len(source) \in Nat
  <1>1. m \in DOMAIN topic /\ topic[m].kind = "change" /\ topic[m].n = n
    BY DEF Carriers
  <1>2. topic[m] \in Message /\ m \in Nat /\ m <= Len(topic) /\ Len(topic) \in Nat /\ Len(source) \in Nat
    BY <1>1 DEF TypeOK
  <1>3. n \in 1..MaxChanges /\ n <= Len(source)
    BY <1>1, <1>2, MessageType DEF PathInv
  <1> QED BY <1>1, <1>2, <1>3, RoutingAssumption

\* A change that is in the topic, and due after a step, was due before.
LEMMA DueBefore ==
  ASSUME TypeOK, PathInv, [Next]_vars, NEW q \in Queries, NEW n, Carriers(n) # {}, Due(q, n)'
  PROVE  Due(q, n) /\ source'[n] = source[n]
<1>1. PICK c \in Carriers(n) : TRUE
  OBVIOUS
<1>2. n \in 1..Len(source) /\ Len(source) \in Nat /\ c <= Len(topic) /\ c \in Nat /\ Len(topic) \in Nat
  BY <1>1, CarrierType
<1>3. source'[n] = source[n]
  BY <1>2, TopicStep
<1>4. Carriers(n) \subseteq Carriers(n)'
  BY TopicStep DEF Carriers
<1>5. /\ qpc'[q] = "live" /\ q \notin short' /\ q \notin exposed' /\ n > snap'[q] /\ snap'[q] \in Nat
      /\ source[n] \cap LabelsOf[q] # {}
  <2>1. TypeOK'
    BY TypeStep
  <2>2. snap'[q] \in Nat
    BY <2>1 DEF TypeOK
  <2>3. Len(source') \in Nat
    BY <2>1 DEF TypeOK
  <2> QED BY <1>2, <1>3, <2>2, <2>3 DEF Due
<1>6. qpc[q] = "live" /\ snap'[q] = snap[q] /\ q \notin short /\ q \notin exposed
  BY <1>2, <1>5, QueryStep
<1>7. ASSUME NEW l \in source[n] PROVE Known(l, n)
  <2>1. Known(l, n)'
    BY <1>3 DEF Due
  <2>2. PICK p \in Queries : /\ l \in LabelsOf[p] /\ qpc'[p] # "off" /\ p \notin exposed'
                             /\ \A m \in Carriers(n)' : Max(Controls(p)') < m
    BY <2>1 DEF Known
  <2>3. Max(Controls(p)') < c
    BY <1>4, <2>2
  <2>4. qpc[p] # "off" /\ Controls(p)' = Controls(p) /\ p \notin exposed
    BY <1>2, <2>2, <2>3, QueryStep
  <2>5. \A m \in Carriers(n) : Max(Controls(p)) < m
    BY <1>4, <2>2, <2>4
  <2> QED BY <2>2, <2>4, <2>5 DEF Known
<1>8. n \in (snap[q] + 1)..Len(source)
  BY <1>2, <1>5, <1>6
<1> QED BY <1>3, <1>5, <1>6, <1>7, <1>8 DEF Due

\* The router forwards a change that is due, with the query among the subscribers.
LEMMA DueIsForwarded ==
  ASSUME TypeOK, PathInv, SubscribedInv, RoutedInv, NEW q \in Queries, NEW n, Due(q, n),
         NEW m \in Carriers(n), m \in RouterMessages, up
  PROVE  HasSubscribers(source[n]) /\ q \in GetSubscribersForLabels(source[n])
<1>1. /\ m \in DOMAIN topic /\ topic[m].kind = "change" /\ topic[m].n = n /\ m <= rnext
      /\ m \in Nat /\ rnext \in Nat /\ n \in 1..Len(source)
  <2>1. m \in DOMAIN topic /\ topic[m].kind = "change" /\ topic[m].n = n /\ m \in Nat /\ n \in 1..Len(source)
    BY CarrierType
  <2>2. m <= rnext
    BY RouterMessageType
  <2>3. rnext \in Nat
    BY DEF TypeOK
  <2> QED BY <2>1, <2>2, <2>3
<1>2. ASSUME NEW p \in Queries, qpc[p] # "off", p \notin exposed, Max(Controls(p)) < m
      PROVE  \A l \in LabelsOf[p] : p \in labelMap[l]
  <2>1. Controls(p) # {}
    BY <1>2 DEF SubscribedInv
  <2>2. Max(Controls(p)) \in Nat
    BY <2>1, LastControl
  <2>3. Max(Controls(p)) < rnext
    BY <1>1, <1>2, <2>2
  <2> QED BY <1>2, <2>3 DEF RoutedInv
<1>3. \A l \in source[n] : labelMap[l] # {}
  <2> TAKE l \in source[n]
  <2>1. Known(l, n)
    BY DEF Due
  <2>2. PICK p \in Queries : /\ l \in LabelsOf[p] /\ qpc[p] # "off" /\ p \notin exposed
                             /\ \A i \in Carriers(n) : Max(Controls(p)) < i
    BY <2>1 DEF Known
  <2>3. p \in labelMap[l]
    BY <1>2, <2>2
  <2> QED BY <2>3
<1>4. q \in GetSubscribersForLabels(source[n])
  <2>1. PICK l \in source[n] : l \in LabelsOf[q]
    BY DEF Due
  <2>2. qpc[q] = "live" /\ q \notin exposed /\ n > snap[q]
    BY <1>1 DEF Due, TypeOK
  <2>3. Max(Controls(q)) < m
    BY <1>1, <2>2 DEF SubscribedInv
  <2>4. q \in labelMap[l]
    BY <1>2, <2>1, <2>2, <2>3
  <2> QED BY <2>1, <2>4 DEF GetSubscribersForLabels
<1> QED BY <1>3, <1>4 DEF HasSubscribers

LEMMA NoGapStep ==
  ASSUME TypeOK, PathInv, SubscribedInv, RoutedInv, NoGap, [Next]_vars
  PROVE  NoGap'
<1>0. TypeOK' /\ PathInv'
  BY TypeStep, PathStep
<1>1. SUFFICES ASSUME NEW q \in Queries, NEW n \in 1..MaxChanges, Due(q, n)'
               PROVE  HasArrived(q, n)' \/ OnItsWay(q, n)'
  BY DEF NoGap
<1>2. CASE Carriers(n) = {}
  <2>1. ASSUME NEW m \in Carriers(n)' PROVE m >= rnext'
    <3>1. m \in DOMAIN topic' /\ topic'[m].kind = "change" /\ topic'[m].n = n
      BY DEF Carriers
    <3>2. m \notin DOMAIN topic
      BY <1>2, <3>1, TopicStep DEF Carriers
    <3> QED BY <3>1, <3>2, NewIsAhead
  <2> QED BY <2>1 DEF OnItsWay
<1>3. CASE Carriers(n) # {}
  <2>1. Due(q, n) /\ source'[n] = source[n]
    BY <1>1, <1>3, DueBefore
  <2>2. HasArrived(q, n) \/ OnItsWay(q, n)
    BY <2>1 DEF NoGap
  <2>3. /\ Carriers(n) \subseteq Carriers(n)'
        /\ \A m \in DOMAIN topic : m \in DOMAIN topic' /\ topic'[m] = topic[m]
    BY TopicStep DEF Carriers
  <2>4. NodeOf[q] \in Nodes
    BY RoutingAssumption
  <2>5. CASE HasArrived(q, n)
    <3>1. PICK p \in DOMAIN stream[NodeOf[q]] :
            q \in stream[NodeOf[q]][p].qs /\ topic[stream[NodeOf[q]][p].m].n = n
      BY <2>5 DEF HasArrived
    <3>2. p \in DOMAIN stream'[NodeOf[q]] /\ stream'[NodeOf[q]][p] = stream[NodeOf[q]][p]
      BY <2>4, <3>1, StreamStep
    <3>3. topic'[stream[NodeOf[q]][p].m] = topic[stream[NodeOf[q]][p].m]
      BY <2>3, <2>4, <3>1 DEF PathInv, Carried
    <3>4. HasArrived(q, n)'
      BY <3>1, <3>2, <3>3 DEF HasArrived
    <3> QED BY <3>4
  <2>6. ASSUME NEW m \in Carriers(n), m >= rnext \/ m \in rback
        PROVE  OnItsWay(q, n)'
    <3>1. m \in DOMAIN topic /\ m \in Nat /\ topic[m].kind = "change" /\ topic[m].n = n /\ n \in 1..Len(source)
      BY CarrierType
    <3>2. CASE m >= rnext' \/ m \in rback'
      BY <2>3, <3>2 DEF OnItsWay
    <3>3. CASE ~(m >= rnext') /\ m \notin rback'
      <4>1. rnext \in Nat /\ rnext' \in Nat
        BY RouterStep
      <4>2. \/ UNCHANGED <<rnext, rback>> \/ \E i \in RouterMessages : PutBack(i)
            \/ \E i \in RouterMessages : Acknowledge(i) /\ Route(i)
        BY DEF Next, Route, Commit, PublishChange, Subscribe, Acquire, Unsubscribe, StartRouter,
               CrashRouter, RouteSubscription, RouteUnsubscription, RouteChange, Dispatch, vars, routerVars
      <4>3. PICK i \in RouterMessages : (Acknowledge(i) \/ PutBack(i)) /\ (PutBack(i) \/ Route(i))
        BY <2>6, <3>3, <4>2
      <4>4. m = i
        <5>1. \A k \in Nat : k < rnext' => k < rnext \/ k = i
          BY <4>3, AnswerType
        <5>2. m \in rback => m = i
          BY <3>3, <4>3 DEF Acknowledge, PutBack
        <5> QED BY <2>6, <3>1, <3>3, <4>1, <5>1, <5>2
      <4>5. RouteChange(m) /\ ~PutBack(m)
        BY <3>1, <3>3, <4>3, <4>4 DEF Route, RouteSubscription, RouteUnsubscription, PutBack
      <4>6. m \in RouterMessages /\ up
        BY <4>5 DEF RouteChange
      <4>7. HasSubscribers(source[n]) /\ q \in GetSubscribersForLabels(source[n])
        BY <2>1, <4>6, DueIsForwarded
      <4>8. Forward(m) /\ UNCHANGED <<dnext, topic>>
        BY <3>1, <4>5, <4>7 DEF RouteChange, dispatcherVars
      <4>9. topic[m].n <= Len(source)
        BY <3>1 DEF PathInv
      <4>10. /\ Len(dispatch') = Len(dispatch) + 1 /\ Len(dispatch) \in Nat /\ dispatch' \in Seq(Entry)
             /\ dispatch'[Len(dispatch) + 1] = [m |-> m, subs |-> GetSubscribersForLabels(source[topic[m].n])]
        BY <3>1, <4>8, <4>9, ForwardType
      <4> DEFINE d == Len(dispatch) + 1
      <4>11. dispatch'[d].m = m /\ q \in dispatch'[d].subs
        BY <3>1, <4>7, <4>10
      <4>12. d \in DOMAIN dispatch'
        BY <4>10
      <4>13. d >= dnext'
        BY <4>8, <4>10 DEF TypeOK
      <4>14. topic'[dispatch'[d].m].n = n
        BY <3>1, <4>8, <4>11
      <4> HIDE DEF d
      <4> QED BY <4>11, <4>12, <4>13, <4>14 DEF OnItsWay
    <3> QED BY <3>2, <3>3
  <2>7. ASSUME NEW d \in DOMAIN dispatch, topic[dispatch[d].m].n = n, q \in dispatch[d].subs,
               d >= dnext \/ d \in dback
        PROVE  HasArrived(q, n)' \/ OnItsWay(q, n)'
    <3>1. d \in DOMAIN dispatch' /\ dispatch'[d] = dispatch[d]
      BY DispatchStep
    <3>2. topic'[dispatch[d].m] = topic[dispatch[d].m]
      BY <2>3 DEF PathInv, Carried
    <3>3. CASE d >= dnext' \/ d \in dback'
      BY <2>7, <3>1, <3>2, <3>3 DEF OnItsWay
    <3>4. CASE ~(d >= dnext') /\ d \notin dback'
      <4>1. PICK e \in DOMAIN dispatch : Dispatch(e)
        <5>1. ~UNCHANGED <<dnext, dback>>
          BY <2>7, <3>4
        <5> QED BY <5>1 DEF Next, Route, Commit, PublishChange, Subscribe, Acquire, Unsubscribe, StartRouter,
                  CrashRouter, RouteSubscription, RouteUnsubscription, RouteChange, vars, dispatcherVars
      <4>2. d = e
        <5>1. dnext \in Nat /\ dnext' \in Nat /\ d \in Nat
          BY DispatcherStep DEF TypeOK
        <5>2. \A i \in Nat : i < dnext' => i < dnext \/ i = e
          BY <4>1, DispatchedType
        <5>3. d \in dback => d = e
          BY <3>4, <4>1 DEF Dispatch
        <5> QED BY <2>7, <3>4, <5>1, <5>2, <5>3
      <4>3. PublishApi(d, Targets(d))
        BY <3>4, <4>1, <4>2 DEF Dispatch
      <4>4. NodeOf[q] \in Targets(d)
        BY <2>7 DEF Targets
      <4> DEFINE c == NodeOf[q]
                 p == Len(stream[c]) + 1
      <4>5. /\ Len(stream[c]) \in Nat /\ DOMAIN stream'[c] = 1..Len(stream'[c]) /\ Len(stream'[c]) = p
            /\ stream'[c][p] = [m |-> dispatch[d].m, qs |-> {r \in dispatch[d].subs : NodeOf[r] = c}]
        BY <2>4, <4>3, <4>4, PublishApiType
      <4>6. p \in DOMAIN stream'[c] /\ stream'[c][p].m = dispatch[d].m
        BY <4>5
      <4>7. q \in stream'[c][p].qs
        BY <2>7, <4>5
      <4>8. topic'[stream'[c][p].m].n = n
        BY <2>7, <3>2, <4>6
      <4> HIDE DEF p
      <4>9. HasArrived(q, n)'
        BY <4>6, <4>7, <4>8 DEF HasArrived
      <4> QED BY <4>9
    <3> QED BY <3>3, <3>4
  <2> QED BY <1>3, <2>2, <2>5, <2>6, <2>7 DEF OnItsWay
<1> QED BY <1>2, <1>3

\* A query that runs on a full snapshot gets every change the snapshot lacks, in its
\* stream or still on its way, whichever calls fail, repeat or are cut off by a crash,
\* unless a router started without its subscription or dropped the change for a label
\* nobody known to it asks for.
THEOREM SnapshotLeavesNoGap == Spec => []NoGap
<1> DEFINE IInv == TypeOK /\ PathInv /\ SubscribedInv /\ RoutedInv /\ NoGap
<1>1. Init => IInv
  <2>1. Init => SubscribedInv /\ RoutedInv
    BY DEF Init, SubscribedInv, RoutedInv
  <2>2. Init => NoGap
    BY DEF Init, NoGap, Due
  <2> QED BY <2>1, <2>2, TypeInit, PathInit
<1>2. IInv /\ [Next]_vars => IInv'
  BY TypeStep, PathStep, SubscribedStep, RoutedStep, NoGapStep
<1> QED BY <1>1, <1>2, PTL DEF Spec

=============================================================================
