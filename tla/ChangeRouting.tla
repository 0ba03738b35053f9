--------------------------- MODULE ChangeRouting ---------------------------
(***************************************************************************)
(* The path of a change from its source to the queries: the reactivator    *)
(* publishes it to the topic <source>-change, the change router looks up   *)
(* the subscribed queries and publishes to <source>-dispatch, the change   *)
(* dispatcher calls the publish API of each query node, which appends to   *)
(* the node's stream.  Queries subscribe through the query API: it         *)
(* publishes the subscription to <source>-change and then hands the query  *)
(* a snapshot that the source's proxy takes.                               *)
(*                                                                         *)
(* The topics are Dapr pub/sub components with concurrency 1: a subscriber *)
(* handles one message at a time, new ones in order, and a message it did  *)
(* not answer with success is delivered again later, when newer ones may   *)
(* have overtaken it.  A label stands for a node label or a relation       *)
(* label: the router keeps a map for each, alike and never mixed.          *)
(***************************************************************************)
EXTENDS Integers, Sequences, FiniteSets, FiniteSetsExt

CONSTANTS
  Queries,       \* continuous queries
  Nodes,         \* query nodes (query containers)
  NodeOf,        \* node of each query
  Labels,        \* labels of elements
  LabelsOf,      \* labels each query subscribes to
  ChangeLabels,  \* sets of labels an element that changes may have
  Faults,        \* the calls that may fail in this model
  MaxChanges,    \* bound: changes of the source
  MaxControls,   \* bound: subscriptions and unsubscriptions
  MaxFaults,     \* bound: failed calls
  MaxCrashes     \* bound: crashes of the router

FaultKinds == {"control", "acquire", "list", "stream", "save", "delete", "publish", "invoke", "answer",
               "load"}

ASSUME RoutingAssumption ==
  /\ NodeOf \in [Queries -> Nodes] /\ LabelsOf \in [Queries -> SUBSET Labels]
  /\ ChangeLabels \subseteq SUBSET Labels /\ Faults \subseteq FaultKinds
  /\ MaxChanges \in Nat /\ MaxControls \in Nat /\ MaxFaults \in Nat /\ MaxCrashes \in Nat

VARIABLES
  source,    \* labels of the element of each change the source made
  topic,     \* <source>-change
  rnext,     \* router: first message never delivered
  rback,     \* router: messages to be delivered again
  up,        \* the router runs
  labelMap,  \* Subscriber: queries by label
  store,     \* state store: queries with a SourceSubscription entry
  dispatch,  \* <source>-dispatch
  dnext, dback,   \* dispatcher: as rnext and rback
  stream,    \* the stream <node>-publish of each query node
  qpc,       \* query host: "off", "acquiring" or "live"
  snap,      \* changes the query's snapshot includes
  short,     \* queries with a truncated snapshot
  exposed,   \* queries whose delivered subscription a router did not find when it started
  delayed,   \* messages of topic that were delivered again, or whose dispatch was
  faults, crashes   \* bound counters

routerVars     == <<rnext, rback, up, labelMap, store>>
dispatcherVars == <<dnext, dback>>
queryVars      == <<qpc, snap, short>>
bounds         == <<faults, crashes>>
vars == <<source, topic, routerVars, dispatch, dispatcherVars, stream, queryVars, exposed,
          delayed, bounds>>

Message == [kind : {"sub", "unsub"}, q : Queries] \cup [kind : {"change"}, n : 1 .. MaxChanges]
\* A routed change, the message it comes from and the queries it is for, as dispatched and
\* as in the stream of a node.
Entry == [m : Nat, subs : SUBSET Queries]
Item  == [m : Nat, qs : SUBSET Queries]

Controls(q) == {m \in DOMAIN topic : topic[m].kind # "change" /\ topic[m].q = q}
Sent == {topic[m].n : m \in {i \in DOMAIN topic : topic[i].kind = "change"}}

Init ==
  /\ source = <<>> /\ topic = <<>>
  /\ rnext = 1 /\ rback = {} /\ up = FALSE
  /\ labelMap = [l \in Labels |-> {}] /\ store = {}
  /\ dispatch = <<>> /\ dnext = 1 /\ dback = {}
  /\ stream = [c \in Nodes |-> <<>>]
  /\ qpc = [q \in Queries |-> "off"] /\ snap = [q \in Queries |-> 0] /\ short = {}
  /\ exposed = {} /\ delayed = {} /\ faults = 0 /\ crashes = 0

Fail(kind) ==
  /\ kind \in Faults /\ faults < MaxFaults
  /\ faults' = faults + 1 /\ UNCHANGED crashes

-----------------------------------------------------------------------------
(***************************************************************************)
(* The source and its reactivator.                                         *)
(***************************************************************************)

Commit ==
  /\ Len(source) < MaxChanges
  /\ \E ls \in ChangeLabels : source' = Append(source, ls)
  /\ UNCHANGED <<topic, routerVars, dispatch, dispatcherVars, stream, queryVars, exposed,
                 delayed, bounds>>

\* The reactivator publishes the changes in order, some time after they were made.
PublishChange ==
  /\ Cardinality(Sent) < Len(source)
  /\ topic' = Append(topic, [kind |-> "change", n |-> Cardinality(Sent) + 1])
  /\ UNCHANGED <<source, routerVars, dispatch, dispatcherVars, stream, queryVars, exposed,
                 delayed, bounds>>

-----------------------------------------------------------------------------
(***************************************************************************)
(* The query API, called by the query host.                                *)
(***************************************************************************)

Control(kind, q) == topic' = Append(topic, [kind |-> kind, q |-> q])

CanControl == Cardinality(UNION {Controls(q) : q \in Queries}) < MaxControls

\* The subscription is published before the snapshot is asked for.  When the message
\* cannot be published the request fails and nothing happened.
Subscribe(q) ==
  /\ qpc[q] = "off" /\ CanControl /\ Control("sub", q)
  /\ qpc' = [qpc EXCEPT ![q] = "acquiring"]
  /\ UNCHANGED <<source, routerVars, dispatch, dispatcherVars, stream, snap, short, exposed,
                 delayed, bounds>>

\* The query has failed or is deleted: what was said of its snapshot is void.
Off(q) ==
  /\ qpc' = [qpc EXCEPT ![q] = "off"] /\ snap' = [snap EXCEPT ![q] = 0]
  /\ short' = short \ {q} /\ exposed' = exposed \ {q}

\* Mutant: the snapshot is taken to include the change to come.
AcquireAhead(q) ==
  /\ qpc[q] = "acquiring"
  /\ qpc' = [qpc EXCEPT ![q] = "live"] /\ snap' = [snap EXCEPT ![q] = Len(source) + 1]
  /\ UNCHANGED <<source, topic, routerVars, dispatch, dispatcherVars, stream, short, exposed,
                 delayed, bounds>>

\* The proxy lists the resources as they are; a list that fails inside the proxy
\* only ends the snapshot early.
StreamResources(q) ==
  /\ snap' = [snap EXCEPT ![q] = Len(source)]
  /\ \/ UNCHANGED <<short, bounds>>
     \/ short' = short \cup {q} /\ Fail("list")

\* The stream between the proxy and the query host breaks off, which ends it early.
StreamBreaks(q) ==
  snap' = [snap EXCEPT ![q] = Len(source)] /\ short' = short \cup {q} /\ Fail("stream")

\* acquire or acquire-stream of the proxy.  An error of the call fails the bootstrap.
Acquire(q) ==
  /\ qpc[q] = "acquiring"
  /\ \/ /\ StreamResources(q) \/ StreamBreaks(q)
        /\ qpc' = [qpc EXCEPT ![q] = "live"] /\ UNCHANGED exposed
     \/ Off(q) /\ Fail("acquire")
  /\ UNCHANGED <<source, topic, routerVars, dispatch, dispatcherVars, stream, delayed>>

\* The query host deletes the query; an error of the call is only logged there.
Unsubscribe(q) ==
  /\ qpc[q] = "live" /\ Off(q)
  /\ \/ CanControl /\ Control("unsub", q) /\ UNCHANGED bounds
     \/ UNCHANGED topic /\ Fail("control")
  /\ UNCHANGED <<source, routerVars, dispatch, dispatcherVars, stream, delayed>>

-----------------------------------------------------------------------------
(***************************************************************************)
(* The change router.                                                      *)
(***************************************************************************)

AddLabels(map, q) == [l \in Labels |-> IF l \in LabelsOf[q] THEN map[l] \cup {q} ELSE map[l]]

\* The map after every subscription of the set was added.
Loaded(qs) == [l \in Labels |-> {q \in qs : l \in LabelsOf[q]}]

\* Nothing when a label has no entry at all.
HasSubscribers(ls) == \A l \in ls : labelMap[l] # {}
GetSubscribersForLabels(ls) == UNION {labelMap[l] : l \in ls}

\* main: an error of the state query counts as no subscriptions.
StartRouter ==
  /\ ~up /\ up' = TRUE
  /\ \/ labelMap' = Loaded(store) /\ UNCHANGED bounds
     \/ labelMap' = Loaded({}) /\ Fail("load")
  /\ exposed' = exposed \cup
       {q \in Queries : /\ qpc[q] # "off" /\ Max(Controls(q)) < rnext
                        /\ \E l \in LabelsOf[q] : q \notin labelMap'[l]}
  /\ UNCHANGED <<source, topic, rnext, rback, store, dispatch, dispatcherVars, stream,
                 queryVars, delayed>>

\* What Dapr may deliver next: the first new message, or one that comes again.
RouterMessages == rback \cup ({rnext} \cap DOMAIN topic)

\* The handler's answer to m: success, or an error (or none) and it comes again.
Advance(m) == rnext' = IF m = rnext THEN m + 1 ELSE rnext
Acknowledge(m) == Advance(m) /\ rback' = rback \ {m} /\ UNCHANGED delayed
PutBack(m) == Advance(m) /\ rback' = rback \cup {m} /\ delayed' = delayed \cup {m}

\* The state manager of the router.
SaveState(q) == store' = store \cup {q}
DeleteState(q) == store' = store \ {q}

\* Mutant: the state store first, the maps only when the subscription is stored.
RouteSubscriptionStoresFirst(m) ==
  /\ up /\ m \in RouterMessages /\ topic[m].kind = "sub"
  /\ \/ /\ labelMap' = AddLabels(labelMap, topic[m].q) /\ store' = store \cup {topic[m].q}
        /\ Acknowledge(m) /\ UNCHANGED bounds
     \/ UNCHANGED <<labelMap, store>> /\ PutBack(m) /\ Fail("save")
  /\ UNCHANGED <<source, topic, up, dispatch, dispatcherVars, stream, queryVars, exposed>>

\* Mutant: an error of the state store is only logged.
RouteSubscriptionIgnoresErrors(m) ==
  /\ up /\ m \in RouterMessages /\ topic[m].kind = "sub" /\ Acknowledge(m)
  /\ labelMap' = AddLabels(labelMap, topic[m].q)
  /\ \/ store' = store \cup {topic[m].q} /\ UNCHANGED bounds
     \/ UNCHANGED store /\ Fail("save")
  /\ UNCHANGED <<source, topic, up, dispatch, dispatcherVars, stream, queryVars, exposed>>

\* Op "i": the maps in memory first, then the state store.
RouteSubscription(m) ==
  /\ up /\ m \in RouterMessages /\ topic[m].kind = "sub"
  /\ labelMap' = AddLabels(labelMap, topic[m].q)
  /\ \/ SaveState(topic[m].q) /\ Acknowledge(m) /\ UNCHANGED bounds
     \/ SaveState(topic[m].q) /\ PutBack(m) /\ Fail("answer")
     \/ UNCHANGED store /\ PutBack(m) /\ Fail("save")
  /\ UNCHANGED <<source, topic, up, dispatch, dispatcherVars, stream, queryVars, exposed>>

\* Mutant: a subscription that is already deleted is an error.
RouteUnsubscriptionStrict(m) ==
  /\ up /\ m \in RouterMessages /\ topic[m].kind = "unsub"
  /\ \/ topic[m].q \in store /\ store' = store \ {topic[m].q} /\ PutBack(m) /\ Fail("answer")
     \/ topic[m].q \in store /\ store' = store \ {topic[m].q} /\ Acknowledge(m) /\ UNCHANGED bounds
     \/ topic[m].q \notin store /\ UNCHANGED <<store, bounds>> /\ PutBack(m)
  /\ UNCHANGED <<source, topic, up, labelMap, dispatch, dispatcherVars, stream, queryVars,
                 exposed>>

\* Op "d": the state store only; the maps keep the query until the router restarts.
RouteUnsubscription(m) ==
  /\ up /\ m \in RouterMessages /\ topic[m].kind = "unsub"
  /\ \/ DeleteState(topic[m].q) /\ Acknowledge(m) /\ UNCHANGED bounds
     \/ DeleteState(topic[m].q) /\ PutBack(m) /\ Fail("answer")
     \/ UNCHANGED store /\ PutBack(m) /\ Fail("delete")
  /\ UNCHANGED <<source, topic, up, labelMap, dispatch, dispatcherVars, stream, queryVars,
                 exposed>>

Forward(m) ==
  dispatch' = Append(dispatch, [m |-> m, subs |-> GetSubscribersForLabels(source[topic[m].n])])

RouteChange(m) ==
  /\ up /\ m \in RouterMessages /\ topic[m].kind = "change"
  /\ \/ /\ ~HasSubscribers(source[topic[m].n])
        /\ Acknowledge(m) /\ UNCHANGED <<dispatch, bounds>>
     \/ /\ HasSubscribers(source[topic[m].n])
        /\ \/ Forward(m) /\ Acknowledge(m) /\ UNCHANGED bounds
           \/ Forward(m) /\ PutBack(m) /\ Fail("answer")
           \/ UNCHANGED dispatch /\ PutBack(m) /\ Fail("publish")
  /\ UNCHANGED <<source, topic, up, labelMap, store, dispatcherVars, stream, queryVars, exposed>>

\* The process ends, perhaps with a message in hand, which comes again.
CrashRouter ==
  /\ up /\ crashes < MaxCrashes /\ crashes' = crashes + 1
  /\ up' = FALSE /\ labelMap' = Loaded({})
  /\ \/ UNCHANGED <<rnext, rback, delayed>>
     \/ \E m \in RouterMessages : PutBack(m)
  /\ UNCHANGED <<source, topic, store, dispatch, dispatcherVars, stream, queryVars, exposed,
                 faults>>

-----------------------------------------------------------------------------
(***************************************************************************)
(* The change dispatcher and the publish API of the query nodes.           *)
(***************************************************************************)

\* The publish API of each node of cs appends the change, with the queries of its node.
PublishApi(d, cs) ==
  stream' = [c \in Nodes |-> IF c \notin cs THEN stream[c]
               ELSE Append(stream[c], [m |-> dispatch[d].m,
                                       qs |-> {q \in dispatch[d].subs : NodeOf[q] = c}])]

\* Mutant: a change that could not be given to every node is queued again at the end.
DispatchRequeues(d) ==
  /\ d \in dback \cup ({dnext} \cap DOMAIN dispatch)
  /\ dnext' = IF d = dnext THEN d + 1 ELSE dnext
  /\ dback' = dback \ {d} /\ UNCHANGED delayed
  /\ LET cs == {NodeOf[q] : q \in dispatch[d].subs}
     IN  \/ PublishApi(d, cs) /\ UNCHANGED <<dispatch, bounds>>
         \/ UNCHANGED stream /\ dispatch' = Append(dispatch, dispatch[d]) /\ Fail("invoke")
  /\ UNCHANGED <<source, topic, routerVars, queryVars, exposed>>

\* The query nodes of the subscribers.
Targets(d) == {NodeOf[q] : q \in dispatch[d].subs}

\* The nodes are called in the order of a hash set.  An error, or the end of the process,
\* leaves some of them called, and the whole message comes again.
Dispatch(d) ==
  /\ d \in dback \cup ({dnext} \cap DOMAIN dispatch)
  /\ dnext' = IF d = dnext THEN d + 1 ELSE dnext
  /\ \/ PublishApi(d, Targets(d)) /\ dback' = dback \ {d} /\ UNCHANGED <<delayed, bounds>>
     \/ /\ \E called \in SUBSET Targets(d) : PublishApi(d, called)
        /\ dback' = dback \cup {d} /\ delayed' = delayed \cup {dispatch[d].m}
        /\ Fail("invoke")
  /\ UNCHANGED <<source, topic, routerVars, dispatch, queryVars, exposed>>

-----------------------------------------------------------------------------
Route(m) == RouteSubscription(m) \/ RouteUnsubscription(m) \/ RouteChange(m)

Next ==
  \/ Commit \/ PublishChange
  \/ \E q \in Queries : Subscribe(q) \/ Acquire(q) \/ Unsubscribe(q)
  \/ StartRouter \/ CrashRouter \/ \E m \in DOMAIN topic : Route(m)
  \/ \E d \in DOMAIN dispatch : Dispatch(d)

\* The processes are restarted by Kubernetes; Dapr delivers again what was not answered
\* with success.
Fairness ==
  /\ WF_vars(PublishChange) /\ WF_vars(StartRouter) /\ WF_vars(\E m \in DOMAIN topic : Route(m))
  /\ WF_vars(\E d \in DOMAIN dispatch : Dispatch(d))

Spec == Init /\ [][Next]_vars /\ Fairness

-----------------------------------------------------------------------------
\* Every variable holds a value the code can give it.
TypeOK ==
  /\ source \in Seq(ChangeLabels) /\ Len(source) <= MaxChanges /\ topic \in Seq(Message)
  /\ rnext \in 1 .. (Len(topic) + 1) /\ rback \subseteq 1 .. (rnext - 1)
  /\ up \in BOOLEAN /\ labelMap \in [Labels -> SUBSET Queries] /\ store \subseteq Queries
  /\ dispatch \in Seq(Entry)
  /\ dnext \in 1 .. (Len(dispatch) + 1) /\ dback \subseteq 1 .. (dnext - 1)
  /\ stream \in [Nodes -> Seq(Item)]
  /\ qpc \in [Queries -> {"off", "acquiring", "live"}] /\ snap \in [Queries -> 0 .. MaxChanges]
  /\ short \subseteq Queries /\ exposed \subseteq Queries /\ delayed \subseteq Nat
  /\ faults \in 0 .. MaxFaults /\ crashes \in 0 .. MaxCrashes

\* The stream of q's node holds change n for q.
HasArrived(q, n) ==
  \E p \in DOMAIN stream[NodeOf[q]] :
    LET e == stream[NodeOf[q]][p] IN q \in e.qs /\ topic[e.m].n = n

\* The messages that carry change n: none or one.
Carriers(n) == {m \in DOMAIN topic : topic[m].kind = "change" /\ topic[m].n = n}

\* A query that asks for label l subscribed before change n was published, and no router
\* started without it since.
Known(l, n) ==
  \E q \in Queries : /\ l \in LabelsOf[q] /\ qpc[q] # "off" /\ q \notin exposed
                     /\ \A m \in Carriers(n) : Max(Controls(q)) < m

\* Change n is for q: q asked for a label of its element and has a full snapshot without
\* it.  The router drops the change when one label of its element has no subscriber.
Due(q, n) ==
  /\ qpc[q] = "live" /\ q \notin short \cup exposed
  /\ n \in (snap[q] + 1) .. Len(source) /\ source[n] \cap LabelsOf[q] # {}
  /\ \A l \in source[n] : Known(l, n)

\* Change n is still on its way to q.
OnItsWay(q, n) ==
  \/ Carriers(n) = {}
  \/ \E m \in Carriers(n) : m >= rnext \/ m \in rback
  \/ \E d \in DOMAIN dispatch :
       /\ topic[dispatch[d].m].n = n /\ q \in dispatch[d].subs
       /\ d >= dnext \/ d \in dback

\* No gap between the snapshot and the changes: a change that the snapshot lacks is
\* in the query's stream or on its way, whatever fails and whichever process restarts,
\* unless a router started without the query's subscription (query-api publishes the
\* subscription before it acquires the snapshot; the router adds it to its maps before
\* it tries to store it).
NoGap ==
  \A q \in Queries, n \in 1 .. MaxChanges : Due(q, n) => HasArrived(q, n) \/ OnItsWay(q, n)

\* A query's subscription is in the router's state store, if it is the last request of the
\* query, was answered with success, and no unsubscription of the query was delivered
\* again: no failed call and no crash between delivery and storage leaves it out.  (A
\* router that cannot read the store when it starts runs without it: see NoGap.)
SubscriptionSurvives ==
  \A q \in Queries :
    LET m == Max(Controls(q))
    IN  /\ Controls(q) # {} /\ topic[m].kind = "sub"
        /\ m < rnext /\ m \notin rback
        /\ \A i \in Controls(q) \cap (delayed \cup rback) : topic[i].kind = "sub"
        => q \in store

\* A query node is given the changes in the order the source made them; only a message
\* that was delivered again may come after a newer one.
ArrivesInOrder ==
  \A c \in Nodes : \A r \in DOMAIN stream[c] : \A p \in 1 .. (r - 1) :
    stream[c][p].m > stream[c][r].m => stream[c][r].m \in delayed

\* Every message is in the end handled by the router and every change dispatched, also
\* those that come again: with NoGap, every change a query is due arrives.
MessagesAreHandled ==
  []<>(/\ Len(source) = Cardinality(Sent)
       /\ rnext > Len(topic) /\ rback = {} /\ dnext > Len(dispatch) /\ dback = {})
=============================================================================
