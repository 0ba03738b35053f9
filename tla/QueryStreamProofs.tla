------------------------- MODULE QueryStreamProofs -------------------------
(***************************************************************************)
(* Proofs about QueryStream, for every kind of entry, buffer and batch     *)
(* size, set of faults and bound.                                          *)
(***************************************************************************)
EXTENDS QueryStream, TLAPS, FiniteSetTheorems, SequenceTheorems, WellFoundedInduction

(***************************************************************************)
(* What the entries on their way to the worker satisfy.                    *)
(***************************************************************************)

Increasing(s) == \A j, k \in 1..Len(s) : j < k => s[j] < s[k]
In(s) == {s[k] : k \in 1..Len(s)}

\* The entries the session holds: the item in hand, the channel and the batch.
Pipe == (IF unack = 0 THEN {} ELSE {unack}) \cup In(buffer) \cup In(batch)

\* The session holds delivered entries, in the order of the stream.
Ordered ==
  /\ Increasing(buffer) /\ Increasing(batch)
  /\ \A i \in In(buffer) : i \in 1..delivered /\ unack < i
  /\ \A i \in In(batch) : i \in 1..delivered /\ unack < i
  /\ \A i \in In(buffer), j \in In(batch) : i < j
  /\ unack \in 0..delivered

\* Where there is no session: no worker, or one that starts.
Idle == StartPc \cup {"down"}

\* Where fetcher and worker can be together.
Control ==
  /\ fetcher \in {"sendPending", "sendNew"} <=> batch # <<>>
  /\ loop \in Idle <=> fetcher = "off"
  /\ loop \in Idle => buffer = <<>> /\ batch = <<>> /\ unack = 0
  /\ loop \in {"process", "publish", "ack"} => unack # 0
  /\ ~group => delivered = 0

\* The pass over the pending entries: what it has passed, and only that, is held.
PassInv ==
  /\ startId <= delivered
  /\ fetcher \in {"pending", "sendPending"} =>
       /\ \A i \in pel : i <= startId => i \in Pipe
       /\ \A i \in Pipe : i <= startId

PipeInv == TypeOK /\ Ordered /\ Control /\ PassInv

\* Once the pass is over a new batch is read only when the last one was sent, so
\* what is pending and not held was taken by reads of sessions that are gone.
Unheld ==
  fetcher \in {"read", "sendNew"} => Cardinality(pel \ Pipe) <= FetchBatch * staleReads

BoundInv == PipeInv /\ Unheld /\ PendingBounded

\* While only sessions of the query itself read and acknowledge: entries are
\* acknowledged in the order of the stream, the session holds pending entries, and
\* the index stands at or past every change acknowledged, and at the item in hand
\* once that is to be acknowledged.  A query without a group has all of its
\* bootstrap.
Applied ==
  /\ \A i \in (1..delivered) \ pel, j \in pel : i < j
  /\ loaded => \A i \in Done : log[i] = "change" => i <= index
  /\ Pipe \subseteq pel
  /\ fetcher \in {"read", "sendNew"} => pel \subseteq Pipe
  /\ loop \in {"publish", "ack"} /\ log[unack] = "change" => index = unack
  /\ ~group /\ loaded => \A i \in 1..bootAt : log[i] = "change" => i <= index
  /\ leftover = "none"
AppliedInv == staleReads = 0 /\ deletes = 0 => Applied

(***************************************************************************)
(* Facts about sequences and about sets of numbers.                        *)
(***************************************************************************)

\* A nonempty set of numbers has a least element.
LEMMA LeastExists ==
  ASSUME NEW T \in SUBSET Nat, T # {}
  PROVE  \E x \in T : \A y \in T : x <= y
  <1>1. PICK x \in T : \A y \in T : ~ (<<y, x>> \in OpToRel(<, Nat))
    BY NatLessThanWellFounded, WFMin
  <1>2. \A y \in T : x <= y
    <2> TAKE y \in T
    <2>1. y < x => <<y, x>> \in OpToRel(<, Nat)
      BY DEF OpToRel
    <2>2. ~(y < x)
      BY <1>1, <2>1, Zenon
    <2> QED BY <2>2
  <1> QED BY <1>2

\* A nonempty set of numbers with a bound has a greatest element.
LEMMA GreatestExists ==
  ASSUME NEW n \in Nat, NEW S \in SUBSET (1..n), S # {}
  PROVE  \E i \in S : \A j \in S : j <= i
  <1> DEFINE T == {n - i : i \in S}
  <1>1. T \in SUBSET Nat /\ T # {}
    <2>1. \A i \in S : n - i \in Nat
      OBVIOUS
    <2> QED BY <2>1
  <1>2. PICK x \in T : \A y \in T : x <= y
    BY <1>1, LeastExists
  <1>3. PICK i \in S : x = n - i
    OBVIOUS
  <1>4. \A j \in S : j <= i
    <2> TAKE j \in S
    <2>1. x <= n - j
      BY <1>2
    <2> QED BY <2>1, <1>3
  <1> QED BY <1>4

\* The state of the sources is an entry of the stream, the last change in it.
LEMMA SnapshotIsLast ==
  ASSUME TypeOK
  PROVE  /\ Snapshot \in 0..Len(log)
         /\ \A i \in 1..Len(log) : log[i] = "change" => i <= Snapshot
  <1> DEFINE changes == {i \in 1..Len(log) : log[i] = "change"}
  <1>0. Len(log) \in Nat
    BY DEF TypeOK
  <1>1. CASE changes = {}
    BY <1>0, <1>1 DEF Snapshot
  <1>2. CASE changes # {}
    <2>1. \E i \in changes : \A j \in changes : j <= i
      BY <1>0, <1>2, GreatestExists
    <2>2. Snapshot \in changes /\ \A j \in changes : j <= Snapshot
      BY <1>2, <2>1 DEF Snapshot
    <2> QED BY <2>2
  <1> QED BY <1>1, <1>2

\* The counters stay numbers when a call fails or none does.
LEMMA CountersType ==
  ASSUME TypeOK, NEW kind, Fail(kind) \/ UNCHANGED bounds
  PROVE  faults' \in Nat /\ stops' \in Nat /\ crashes' \in Nat /\ deletes' \in Nat
  <1>1. faults \in Nat /\ stops \in Nat /\ crashes \in Nat /\ deletes \in Nat
    BY DEF TypeOK
  <1> QED BY <1>1 DEF Fail, bounds

\* What a send puts at the end of the channel.
LEMMA AppendIn ==
  ASSUME NEW S, NEW s \in Seq(S), NEW e \in S
  PROVE  /\ Append(s, e) \in Seq(S) /\ Len(Append(s, e)) = Len(s) + 1
         /\ In(Append(s, e)) = In(s) \cup {e}
  <1>1. /\ Append(s, e) \in Seq(S) /\ Len(Append(s, e)) = Len(s) + 1
        /\ \A k \in 1..Len(s) : Append(s, e)[k] = s[k]
        /\ Append(s, e)[Len(s) + 1] = e
    OBVIOUS
  <1>2. \A k \in 1..(Len(s) + 1) : k \in 1..Len(s) \/ k = Len(s) + 1
    OBVIOUS
  <1>3. \A i : i \in In(Append(s, e)) => i \in In(s) \cup {e}
    BY <1>1, <1>2 DEF In
  <1>4. \A i : i \in In(s) \cup {e} => i \in In(Append(s, e))
    BY <1>1 DEF In
  <1> QED BY <1>1, <1>3, <1>4

\* What remains of a sequence without its head.
LEMMA TailIn ==
  ASSUME NEW S, NEW s \in Seq(S), s # <<>>
  PROVE  /\ Tail(s) \in Seq(S) /\ Len(Tail(s)) = Len(s) - 1 /\ Len(s) \in Nat \ {0}
         /\ Head(s) \in S /\ Head(s) \in In(s)
         /\ In(s) = {Head(s)} \cup In(Tail(s))
  <1>1. /\ Tail(s) \in Seq(S) /\ Len(Tail(s)) = Len(s) - 1 /\ Len(s) \in Nat \ {0}
        /\ Head(s) = s[1] /\ Head(s) \in S
        /\ \A k \in 1..(Len(s) - 1) : Tail(s)[k] = s[k + 1]
    OBVIOUS
  <1>2. \A k \in 1..Len(s) : k = 1 \/ k - 1 \in 1..(Len(s) - 1)
    BY <1>1
  <1>3. \A i : i \in In(s) => i = Head(s) \/ i \in In(Tail(s))
    <2> TAKE i
    <2> HAVE i \in In(s)
    <2>1. PICK k \in 1..Len(s) : i = s[k]
      BY DEF In
    <2>2. CASE k = 1
      BY <1>1, <2>1, <2>2
    <2>3. CASE k # 1
      <3>1. (k - 1) \in 1..(Len(s) - 1) /\ Tail(s)[k - 1] = s[k]
        BY <1>1, <1>2, <2>3
      <3> QED BY <1>1, <2>1, <3>1 DEF In
    <2> QED BY <2>2, <2>3
  <1>4. \A i : i \in In(Tail(s)) => i \in In(s)
    <2> TAKE i
    <2> HAVE i \in In(Tail(s))
    <2>1. PICK k \in 1..(Len(s) - 1) : i = Tail(s)[k]
      BY <1>1 DEF In
    <2>2. k + 1 \in 1..Len(s) /\ i = s[k + 1]
      BY <1>1, <2>1
    <2> QED BY <2>2 DEF In
  <1>5. Head(s) \in In(s)
    BY <1>1 DEF In
  <1> QED BY <1>1, <1>3, <1>4, <1>5

\* An entry later than all the others may be sent after them.
LEMMA AppendIncreasing ==
  ASSUME NEW S \in SUBSET Nat, NEW s \in Seq(S), NEW e \in S,
         Increasing(s), \A i \in In(s) : i < e
  PROVE  Increasing(Append(s, e))
  <1>1. \A k \in 1..Len(s) : s[k] < e
    BY DEF In
  <1> QED BY <1>1 DEF Increasing

\* The head comes before the rest.
LEMMA TailIncreasing ==
  ASSUME NEW S \in SUBSET Nat, NEW s \in Seq(S), s # <<>>, Increasing(s)
  PROVE  Increasing(Tail(s)) /\ \A i \in In(Tail(s)) : Head(s) < i
  BY DEF Increasing, In

\* A batch of pending entries is in order if each is before the next.
LEMMA StepwiseIncreasing ==
  ASSUME NEW s, NEW m \in Nat, Len(s) = m, \A k \in 1..m : s[k] \in Nat,
         \A k \in 1..(m - 1) : s[k] < s[k + 1]
  PROVE  Increasing(s)
  <1> SUFFICES ASSUME NEW j \in 1..m, NEW k \in 1..m, j < k, ~(s[j] < s[k])
               PROVE  FALSE
    BY DEF Increasing
  <1> DEFINE T == {x \in 1..m : j < x /\ ~(s[j] < s[x])}
  <1>1. T \in SUBSET Nat /\ k \in T
    OBVIOUS
  <1>2. PICK x \in T : \A y \in T : x <= y
    BY <1>1, LeastExists
  <1>3. x - 1 \in 1..m /\ x - 1 \notin T
    BY <1>2
  <1>4. CASE x - 1 = j
    <2>1. s[x - 1] < s[(x - 1) + 1] /\ (x - 1) + 1 = x
      BY <1>2, <1>3
    <2> QED BY <1>2, <1>4, <2>1
  <1>5. CASE x - 1 # j
    <2>1. s[j] < s[x - 1]
      BY <1>2, <1>3, <1>5
    <2>2. s[x - 1] < s[(x - 1) + 1] /\ (x - 1) + 1 = x
      BY <1>2, <1>3
    <2>3. s[j] \in Nat /\ s[x - 1] \in Nat /\ s[x] \in Nat
      BY <1>2, <1>3
    <2> QED BY <1>2, <2>1, <2>2, <2>3
  <1> QED BY <1>4, <1>5

\* Nothing is in an empty sequence.
LEMMA InEmpty == In(<<>>) = {} /\ Increasing(<<>>)
  BY DEF In, Increasing

(***************************************************************************)
(* PipeInv is inductive.                                                   *)
(***************************************************************************)

LEMMA PipeInit == Init => PipeInv
  <1> SUFFICES ASSUME Init PROVE PipeInv
    OBVIOUS
  <1>1. TypeOK
    <2>1. <<>> \in Seq(EntryKinds) /\ Len(<<>>) = 0 /\ <<>> \in Seq(1..0) /\ BufferSize \in Nat
      BY StreamAssumption
    <2>2. log = <<>> /\ Len(log) = 0 /\ batch = <<>> /\ buffer = <<>>
      BY <2>1 DEF Init
    <2>3. log \in Seq(EntryKinds) /\ batch \in Seq(1..Len(log)) /\ buffer \in Seq(1..Len(log))
      BY <2>1, <2>2
    <2>4. /\ delivered \in 0..Len(log) /\ unack \in 0..Len(log) /\ index \in 0..Len(log) /\ view \in 0..Len(log)
          /\ startAt \in 0..Len(log) /\ bootAt \in 0..Len(log) /\ groupAt \in 0..Len(log)
      BY <2>2 DEF Init
    <2>5. pel \subseteq 1..delivered /\ Len(buffer) <= BufferSize
      BY <2>1, <2>2 DEF Init
    <2>6. /\ loop \in LoopPc /\ fetcher \in FetcherPc /\ loaded \in BOOLEAN /\ group \in BOOLEAN
          /\ leftover \in LeftoverPc /\ disturbed \in BOOLEAN
      BY DEF Init, LoopPc, FetcherPc, LeftoverPc
    <2>7. /\ stale \in Nat /\ staleReads \in Nat /\ startId \in Nat
          /\ faults \in Nat /\ stops \in Nat /\ crashes \in Nat /\ deletes \in Nat
      BY DEF Init
    <2> QED BY <2>3, <2>4, <2>5, <2>6, <2>7 DEF TypeOK
  <1>2. Ordered
    BY InEmpty DEF Init, Ordered
  <1>3. Control /\ PassInv
    BY DEF Init, Control, PassInv, Idle
  <1> QED BY <1>1, <1>2, <1>3 DEF PipeInv

\* However a session ends, what it held is dropped and stays pending.
LEMMA EndPipe ==
  ASSUME PipeInv, fetcher' = "off", startId' = 0, batch' = <<>>, buffer' = <<>>, unack' = 0,
         stale' \in Nat, loop' = "down", log' = log, group' = group, groupAt' = groupAt,
         delivered' = delivered, pel' \in SUBSET pel, staleReads' = staleReads,
         startAt' \in 0..Len(log), bootAt' \in 0..Len(log), leftover' \in LeftoverPc, disturbed' \in BOOLEAN,
         loaded' \in BOOLEAN, index' \in 0..Len(log), view' \in 0..Len(log),
         faults' \in Nat, stops' \in Nat, crashes' \in Nat, deletes' \in Nat
  PROVE  PipeInv'
  <1>0. /\ Len(log) \in Nat /\ BufferSize \in Nat /\ delivered \in Nat /\ 0 \in 0..Len(log)
        /\ <<>> \in Seq(1..Len(log)) /\ Len(<<>>) = 0
    BY StreamAssumption DEF PipeInv, TypeOK
  <1>p. pel' \in SUBSET (1..delivered)
    BY DEF PipeInv, TypeOK
  <1>1. TypeOK'
    BY <1>0, <1>p DEF PipeInv, TypeOK, LoopPc, FetcherPc
  <1>2. In(buffer') = {} /\ In(batch') = {} /\ Increasing(buffer') /\ Increasing(batch')
    BY InEmpty
  <1>3. Ordered'
    BY <1>0, <1>2 DEF Ordered
  <1>4. Control'
    BY DEF Control, PipeInv, Idle
  <1>5. PassInv'
    BY <1>1 DEF PassInv, PipeInv, TypeOK
  <1> QED BY <1>1, <1>3, <1>4, <1>5 DEF PipeInv

\* What dropping the stream leaves.
LEMMA Dropped ==
  ASSUME TypeOK, DropStream
  PROVE  fetcher' = "off" /\ startId' = 0 /\ batch' = <<>> /\ buffer' = <<>> /\ unack' = 0 /\ stale' \in Nat
  BY StreamAssumption DEF DropStream, TypeOK

\* A step outside the session: entries may become pending for nobody, or cease to be.
LEMMA AsidePipe ==
  ASSUME PipeInv, TypeOK', Control', UNCHANGED <<fetchVars, unack>>,
         delivered <= delivered', pel' \in SUBSET (pel \cup (delivered + 1)..delivered')
  PROVE  PipeInv' /\ Pipe' = Pipe
  <1>1. Pipe' = Pipe
    BY DEF Pipe, fetchVars
  <1>2. delivered \in Nat /\ delivered' \in Nat /\ startId \in Nat
    BY DEF PipeInv, TypeOK
  <1>3. Ordered'
    <2>1. (1..delivered) \subseteq 1..delivered' /\ (0..delivered) \subseteq 0..delivered'
      BY <1>2
    <2> QED BY <2>1 DEF PipeInv, Ordered, fetchVars
  <1>4. PassInv'
    <2>1. startId' <= delivered'
      BY <1>2 DEF PipeInv, PassInv, fetchVars
    <2>2. \A i \in pel' : i <= startId => i \in pel
      BY <1>2 DEF PipeInv, PassInv
    <2> QED BY <1>1, <2>1, <2>2 DEF PipeInv, PassInv, fetchVars
  <1> QED BY <1>1, <1>3, <1>4 DEF PipeInv

\* Steps of the worker that keep the session do not touch what is held.
LEMMA KeepPipe ==
  ASSUME PipeInv, log' = log, group' = group, groupAt' = groupAt, delivered' = delivered, pel' = pel,
         UNCHANGED <<fetchVars, startAt, leftover, bootAt, disturbed>>,
         unack' = unack, stale' \in Nat, staleReads' = staleReads,
         loop \notin Idle, loop' \in LoopPc \ Idle, loop' \in {"process", "publish", "ack"} => unack # 0,
         loaded' = loaded, index' \in 0..Len(log), view' \in 0..Len(log),
         faults' \in Nat, stops' \in Nat, crashes' \in Nat, deletes' \in Nat
  PROVE  PipeInv'
  <1>1. TypeOK'
    BY DEF PipeInv, TypeOK, fetchVars
  <1>2. Pipe' = Pipe
    BY DEF Pipe, fetchVars
  <1>3. Ordered' /\ Control' /\ PassInv'
    BY <1>2 DEF PipeInv, Ordered, Control, PassInv, fetchVars
  <1> QED BY <1>1, <1>3 DEF PipeInv

\* What a read for new entries delivers.
LEMMA NewEntriesFacts ==
  ASSUME TypeOK, DeliverNew
  PROVE  /\ Len(NewEntries) \in 1..FetchBatch /\ delivered + Len(NewEntries) <= Len(log)
         /\ NewEntries \in Seq(1..Len(log)) /\ Increasing(NewEntries)
         /\ In(NewEntries) = (delivered + 1)..(delivered + Len(NewEntries))
  <1> DEFINE n == IF Len(log) - delivered < FetchBatch THEN Len(log) - delivered ELSE FetchBatch
  <1>1. n \in 1..FetchBatch /\ delivered + n <= Len(log) /\ Len(log) \in Nat /\ delivered \in Nat
    BY StreamAssumption DEF TypeOK, DeliverNew
  <1>2. NewEntries = [k \in 1..n |-> delivered + k]
    BY DEF NewEntries
  <1> HIDE DEF n
  <1>3. NewEntries \in Seq(1..Len(log)) /\ Len(NewEntries) = n
    BY <1>1, <1>2
  <1>4. Increasing(NewEntries)
    BY <1>1, <1>2, <1>3 DEF Increasing
  <1>5. \A i : i \in In(NewEntries) <=> i \in (delivered + 1)..(delivered + n)
    <2> TAKE i
    <2>1. ASSUME i \in In(NewEntries) PROVE i \in (delivered + 1)..(delivered + n)
      BY <1>1, <1>2, <1>3, <2>1 DEF In
    <2>2. ASSUME i \in (delivered + 1)..(delivered + n) PROVE i \in In(NewEntries)
      <3>1. i - delivered \in 1..n /\ NewEntries[i - delivered] = i
        BY <1>1, <1>2, <2>2
      <3> QED BY <1>3, <3>1 DEF In
    <2> QED BY <2>1, <2>2
  <1> QED BY <1>1, <1>3, <1>4, <1>5

LEMMA DeliverType ==
  ASSUME TypeOK, DeliverNew,
         Len(NewEntries) \in 1..FetchBatch, delivered + Len(NewEntries) <= Len(log)
  PROVE  delivered' \in 0..Len(log) /\ pel' \in SUBSET (1..delivered')
  <1>1. delivered \in Nat /\ Len(log) \in Nat /\ pel \in SUBSET (1..delivered)
    BY DEF TypeOK
  <1>2. Len(NewEntries) \in Nat
    BY StreamAssumption
  <1>3. delivered' \in 0..Len(log) /\ delivered <= delivered'
    BY <1>1, <1>2 DEF DeliverNew
  <1>4. pel' = pel \cup (delivered + 1)..delivered'
    BY DEF DeliverNew
  <1>5. \A i \in pel : i \in 1..delivered'
    BY <1>1, <1>3
  <1>6. \A i \in (delivered + 1)..delivered' : i \in 1..delivered'
    BY <1>1, <1>3
  <1> QED BY <1>3, <1>4, <1>5, <1>6

LEMMA FetchNewPipe ==
  ASSUME PipeInv, FetchNew
  PROVE  PipeInv' /\ Pipe' = Pipe \cup (delivered + 1)..delivered'
  <1> USE DEF bounds, indexVars
  <1>0. TypeOK /\ DeliverNew
    BY DEF PipeInv, FetchNew
  <1>n. /\ Len(NewEntries) \in 1..FetchBatch /\ delivered + Len(NewEntries) <= Len(log)
        /\ NewEntries \in Seq(1..Len(log)) /\ Increasing(NewEntries)
        /\ In(NewEntries) = (delivered + 1)..(delivered + Len(NewEntries))
    BY <1>0, NewEntriesFacts
  <1>b. batch' = NewEntries /\ batch = <<>> /\ In(batch) = {} /\ NewEntries # <<>>
    BY <1>n, InEmpty DEF FetchNew, PipeInv, Control
  <1>f. delivered \in Nat /\ StreamAssumption
    BY StreamAssumption DEF PipeInv, TypeOK
  <1>d. delivered' \in 0..Len(log) /\ pel' \in SUBSET (1..delivered')
    BY <1>0, <1>n, DeliverType
  <1>1. TypeOK'
    BY <1>n, <1>b, <1>d DEF PipeInv, TypeOK, FetchNew, DeliverNew, FetcherPc
  <1>2. Pipe' = Pipe \cup (delivered + 1)..delivered'
    BY <1>n, <1>b DEF Pipe, FetchNew, DeliverNew
  <1>3. Ordered'
    <2>1. \A i \in In(buffer) : i \in 1..delivered
      BY DEF PipeInv, Ordered, TypeOK
    <2>2. unack \in 0..delivered
      BY DEF PipeInv, Ordered, TypeOK
    <2> QED BY <1>n, <1>b, <1>f, <2>1, <2>2 DEF PipeInv, Ordered, FetchNew, DeliverNew
  <1>4. Control'
    BY <1>b DEF PipeInv, Control, FetchNew, DeliverNew
  <1>5. PassInv'
    BY <1>n, <1>f DEF PipeInv, PassInv, FetchNew, DeliverNew, TypeOK
  <1> QED BY <1>1, <1>2, <1>3, <1>4, <1>5 DEF PipeInv

\* A read that no session of this worker receives.
LEMMA LostReadPipe ==
  ASSUME PipeInv, DeliverNew, UNCHANGED <<loop, startAt, fetchVars, unack, bootAt>>,
         stale' \in Nat, staleReads' = staleReads + 1, leftover' = leftover,
         loaded' = loaded, disturbed' \in BOOLEAN, index' = index, view' = view, UNCHANGED bounds
  PROVE  PipeInv' /\ Pipe' = Pipe
  <1> USE DEF bounds, fetchVars
  <1>0. TypeOK
    BY DEF PipeInv
  <1>n. Len(NewEntries) \in 1..FetchBatch /\ delivered + Len(NewEntries) <= Len(log)
    BY <1>0, NewEntriesFacts
  <1>d. delivered' \in 0..Len(log) /\ pel' \in SUBSET (1..delivered')
    BY <1>0, <1>n, DeliverType
  <1>1. TypeOK'
    BY <1>d DEF PipeInv, TypeOK, DeliverNew
  <1>2. Control'
    BY DEF PipeInv, Control, DeliverNew
  <1>3. delivered <= delivered' /\ pel' \in SUBSET (pel \cup (delivered + 1)..delivered')
    BY <1>0, <1>n, StreamAssumption DEF DeliverNew, TypeOK
  <1> QED BY <1>1, <1>2, <1>3, AsidePipe

LEMMA StaleReadPipe ==
  ASSUME PipeInv, StaleRead
  PROVE  PipeInv' /\ Pipe' = Pipe
  <1>1. stale' \in Nat
    BY DEF PipeInv, TypeOK, StaleRead
  <1>2. disturbed' \in BOOLEAN
    BY DEF PipeInv, TypeOK, StaleRead, indexVars
  <1> QED BY <1>1, <1>2, LostReadPipe DEF StaleRead, indexVars

LEMMA FetchPendingPipe ==
  ASSUME PipeInv, FetchPending
  PROVE  PipeInv' /\ (fetcher' = "read" => pel' \subseteq Pipe') /\ Pipe' \subseteq Pipe \cup pel
  <1> USE DEF bounds, indexVars, redis
  <1>1. PICK n \in 0..FetchBatch : \E b \in [1..n -> pel] :
          /\ IsPendingBatch(b)
          /\ IF n = 0 THEN fetcher' = "read" /\ UNCHANGED <<startId, batch>>
                      ELSE fetcher' = "sendPending" /\ startId' = b[n] /\ batch' = b
    BY DEF FetchPending
  <1>2. PICK b \in [1..n -> pel] :
          /\ IsPendingBatch(b)
          /\ IF n = 0 THEN fetcher' = "read" /\ UNCHANGED <<startId, batch>>
                      ELSE fetcher' = "sendPending" /\ startId' = b[n] /\ batch' = b
    BY <1>1
  <1>n. n \in Nat /\ FetchBatch \in Nat \ {0}
    BY StreamAssumption
  <1>p. /\ pel \in SUBSET (1..delivered) /\ delivered \in 0..Len(log) /\ Len(log) \in Nat
        /\ startId \in Nat /\ startId <= delivered /\ unack \in 0..delivered
    BY DEF PipeInv, TypeOK, PassInv, Ordered
  <1>l. Len(b) = n /\ b \in Seq(pel)
    BY <1>n
  <1>u. /\ fetcher = "pending" /\ batch = <<>> /\ In(batch) = {} /\ loop \notin Idle
        /\ log' = log /\ pel' = pel /\ delivered' = delivered /\ buffer' = buffer /\ unack' = unack
        /\ loop' = loop
    BY InEmpty DEF FetchPending, PipeInv, Control
  <1>c. (\A i \in pel : i <= startId => i \in Pipe) /\ (\A i \in Pipe : i <= startId)
    BY <1>u DEF PipeInv, PassInv
  <1>3. CASE n = 0
    <2>1. fetcher' = "read" /\ startId' = startId /\ batch' = batch
      BY <1>2, <1>3
    <2>2. \A i \in pel : ~(i > startId)
      BY <1>2, <1>3, <1>l, <1>n DEF IsPendingBatch
    <2>3. pel' \subseteq Pipe'
      BY <1>c, <1>p, <1>u, <2>1, <2>2 DEF Pipe
    <2>4. PipeInv'
      BY <1>u, <2>1 DEF PipeInv, TypeOK, Ordered, Control, PassInv, FetcherPc, FetchPending, Idle
    <2>5. Pipe' = Pipe
      BY <1>u, <2>1 DEF Pipe
    <2> QED BY <2>3, <2>4, <2>5
  <1>4. CASE n # 0
    <2>1. fetcher' = "sendPending" /\ startId' = b[n] /\ batch' = b
      BY <1>2, <1>4
    <2>2. \A k \in 1..n : b[k] \in pel /\ b[k] \in 1..delivered /\ b[k] > startId
      BY <1>2, <1>l, <1>p DEF IsPendingBatch
    <2>3. b \in Seq(1..Len(log)) /\ b # <<>>
      <3>0. \A i \in pel : i \in 1..Len(log)
        BY <1>p
      <3>1. b \in [1..n -> 1..Len(log)]
        BY <3>0
      <3>2. Len(<<>>) = 0
        OBVIOUS
      <3> QED BY <1>n, <1>4, <1>l, <3>1, <3>2
    <2>4. Increasing(b)
      <3>1. \A k \in 1..(n - 1) : b[k] < b[k + 1]
        BY <1>2, <1>l DEF IsPendingBatch
      <3> QED BY <3>1, <2>2, <1>l, <1>n, <1>p, StepwiseIncreasing
    <2>5. In(b) \subseteq pel /\ \A i \in In(b) : startId < i /\ i <= b[n]
      <3>1. \A k \in 1..n : b[k] <= b[n]
        BY <2>2, <2>4, <1>l, <1>n, <1>4, <1>p DEF Increasing
      <3> QED BY <2>2, <3>1, <1>l, <1>p DEF In
    <2>6. \A i \in pel : i > startId /\ i <= b[n] => i \in In(b)
      <3>1. \A i \in pel : i > startId /\ i < b[n] => \E k \in 1..n : b[k] = i
        BY <1>2, <1>l DEF IsPendingBatch
      <3>2. b[n] \in In(b)
        BY <1>n, <1>4, <1>l DEF In
      <3> QED BY <3>1, <3>2, <2>2, <1>n, <1>4, <1>l, <1>p DEF In
    <2>7. TypeOK'
      BY <1>u, <2>1, <2>2, <2>3, <1>n, <1>4 DEF PipeInv, TypeOK, FetcherPc, FetchPending
    <2>8. Ordered'
      <3>1. \A i \in In(buffer) : i \in Pipe /\ i \in 1..delivered /\ i <= startId
        BY <1>c, <1>p DEF PipeInv, Ordered, Pipe
      <3>2. unack <= startId
        <4>1. unack # 0 => unack \in Pipe
          BY DEF Pipe
        <4> QED BY <4>1, <1>c, <1>p
      <3>3. \A i \in In(b) : i \in 1..delivered
        BY <2>5, <1>p
      <3>4. \A i \in In(b) : unack < i /\ \A j \in In(buffer) : j < i
        BY <2>5, <3>1, <3>2, <3>3, <1>p
      <3> QED BY <1>u, <2>1, <2>4, <3>3, <3>4 DEF PipeInv, Ordered
    <2>9. Control'
      BY <1>u, <2>1, <2>3 DEF PipeInv, Control, FetchPending, Idle
    <2>10. PassInv'
      <3>1. Pipe' = Pipe \cup In(b)
        BY <1>u, <2>1 DEF Pipe
      <3>2. b[n] \in 1..delivered /\ startId < b[n]
        BY <2>2, <1>n, <1>4, <1>p
      <3>3. \A i \in pel : i <= b[n] => i \in Pipe'
        BY <3>1, <3>2, <1>c, <2>6, <1>p
      <3>4. \A i \in Pipe : i \in Nat
        BY <1>p DEF Pipe, PipeInv, Ordered
      <3>5. \A i \in Pipe' : i <= b[n]
        BY <3>1, <3>2, <3>4, <1>c, <2>5, <1>p
      <3> QED BY <1>u, <2>1, <3>2, <3>3, <3>5, <1>p DEF PassInv
    <2>11. Pipe' \subseteq Pipe \cup pel
      BY <1>u, <2>1, <2>5 DEF Pipe
    <2> QED BY <2>1, <2>7, <2>8, <2>9, <2>10, <2>11 DEF PipeInv
  <1> QED BY <1>3, <1>4

LEMMA SendBatchPipe ==
  ASSUME PipeInv, SendBatch
  PROVE  PipeInv' /\ Pipe' = Pipe /\ Len(batch) >= 1
  <1> USE DEF bounds, indexVars, redis
  <1> DEFINE S == 1..Len(log)
             h == Head(batch)
  <1>0. /\ batch \in Seq(S) /\ batch # <<>> /\ buffer \in Seq(S) /\ Len(log) \in Nat
        /\ Len(buffer) \in Nat /\ Len(buffer) < BufferSize /\ BufferSize \in Nat
    <2>1. batch # <<>>
      BY DEF PipeInv, Control, SendBatch
    <2>2. /\ batch \in Seq(S) /\ buffer \in Seq(S) /\ Len(log) \in Nat /\ Len(buffer) \in Nat
      BY DEF PipeInv, TypeOK
    <2>3. Len(buffer) < BufferSize /\ BufferSize \in Nat
      BY StreamAssumption DEF SendBatch
    <2> QED BY <2>1, <2>2, <2>3
  <1>t. /\ Tail(batch) \in Seq(S) /\ Len(Tail(batch)) = Len(batch) - 1 /\ Len(batch) \in Nat \ {0}
        /\ h \in S /\ h \in In(batch) /\ In(batch) = {h} \cup In(Tail(batch))
    BY <1>0, TailIn
  <1>i. Increasing(Tail(batch)) /\ \A i \in In(Tail(batch)) : h < i
    <2>1. S \in SUBSET Nat
      OBVIOUS
    <2> QED BY <1>0, <2>1, TailIncreasing DEF PipeInv, Ordered
  <1>a. /\ Append(buffer, h) \in Seq(S) /\ Len(Append(buffer, h)) = Len(buffer) + 1
        /\ In(Append(buffer, h)) = In(buffer) \cup {h}
    BY <1>0, <1>t, AppendIn
  <1>j. Increasing(Append(buffer, h))
    <2>1. S \in SUBSET Nat
      OBVIOUS
    <2>2. \A i \in In(buffer) : i < h
      BY <1>t DEF PipeInv, Ordered
    <2> QED BY <1>0, <1>t, <2>1, <2>2, AppendIncreasing DEF PipeInv, Ordered
  <1> HIDE DEF S, h
  <1>u. buffer' = Append(buffer, h) /\ batch' = Tail(batch) /\ unack' = unack /\ log' = log
        /\ pel' = pel /\ delivered' = delivered /\ loop' = loop /\ startId' = startId
    BY DEF SendBatch, h
  <1>1. TypeOK'
    BY <1>u, <1>t, <1>a, <1>0 DEF PipeInv, TypeOK, SendBatch, FetcherPc, S
  <1>2. Pipe' = Pipe
    BY <1>u, <1>t, <1>a DEF Pipe
  <1>3. Ordered'
    BY <1>u, <1>t, <1>a, <1>i, <1>j DEF PipeInv, Ordered
  <1>4. Control'
    <2>1. Tail(batch) # <<>> <=> Len(batch) > 1
      <3>1. Tail(batch) # <<>> => Len(Tail(batch)) \in Nat \ {0}
        BY <1>t, EmptySeq, Zenon
      <3>2. Tail(batch) = <<>> => Len(Tail(batch)) = 0
        BY EmptySeq, Zenon
      <3> QED BY <1>t, <3>1, <3>2
    <2> QED BY <1>u, <2>1 DEF PipeInv, Control, SendBatch
  <1>5. PassInv'
    BY <1>u, <1>2 DEF PipeInv, PassInv, SendBatch
  <1> QED BY <1>1, <1>2, <1>3, <1>4, <1>5, <1>t DEF PipeInv

\* recv takes the next entry out of the channel and holds on to it.
LEMMA TakePipe ==
  ASSUME PipeInv, unack = 0, buffer # <<>>, unack' = Head(buffer), buffer' = Tail(buffer),
         loop = "recv", loop' \in {"process", "ack"},
         UNCHANGED <<log, group, groupAt, delivered, pel, stale, staleReads, startAt, leftover,
                     fetcher, startId, batch, indexVars, view, bounds>>
  PROVE  PipeInv' /\ Pipe' = Pipe
  <1> USE DEF bounds, indexVars
  <1> DEFINE S == 1..Len(log)
             h == Head(buffer)
  <1>0. buffer \in Seq(S) /\ Len(log) \in Nat /\ Len(buffer) <= BufferSize /\ BufferSize \in Nat
    BY StreamAssumption DEF PipeInv, TypeOK
  <1>t. /\ Tail(buffer) \in Seq(S) /\ Len(Tail(buffer)) = Len(buffer) - 1 /\ Len(buffer) \in Nat \ {0}
        /\ h \in S /\ h \in In(buffer) /\ In(buffer) = {h} \cup In(Tail(buffer))
    BY <1>0, TailIn
  <1>i. Increasing(Tail(buffer)) /\ \A i \in In(Tail(buffer)) : h < i
    <2>1. S \in SUBSET Nat
      OBVIOUS
    <2> QED BY <1>0, <2>1, TailIncreasing DEF PipeInv, Ordered
  <1>h. h # 0 /\ h \in 0..Len(log)
    BY <1>t, <1>0
  <1> HIDE DEF S, h
  <1>u. unack' = h /\ buffer' = Tail(buffer)
    BY DEF h
  <1>1. TypeOK'
    BY <1>u, <1>t, <1>h, <1>0 DEF PipeInv, TypeOK, LoopPc, S
  <1>2. Pipe' = Pipe
    BY <1>u, <1>t, <1>h DEF Pipe
  <1>3. Ordered'
    BY <1>u, <1>t, <1>i DEF PipeInv, Ordered
  <1>4. Control' /\ PassInv'
    BY <1>u, <1>h, <1>2 DEF PipeInv, Control, PassInv, Idle, StartPc
  <1> QED BY <1>1, <1>2, <1>3, <1>4 DEF PipeInv

LEMMA RecvPipe ==
  ASSUME PipeInv, Recv
  PROVE  PipeInv' /\ (loop' # "down" => Pipe' = Pipe)
  <1> USE DEF bounds, indexVars
  <1>1. CASE unack # 0
    <2>1. /\ unack # 0 /\ loop' \in {"process", "ack"} /\ UNCHANGED <<fetchVars, unack, stale>>
          /\ loop = "recv"
          /\ UNCHANGED <<log, group, groupAt, delivered, pel, staleReads, startAt, leftover, indexVars, view, bounds>>
      BY <1>1 DEF Recv
    <2>2. PipeInv'
      BY <2>1, KeepPipe DEF PipeInv, TypeOK, LoopPc, Idle, StartPc
    <2> QED BY <2>1, <2>2 DEF Pipe, fetchVars
  <1>2. CASE unack = 0 /\ buffer # <<>> /\ ~Undecodable(Head(buffer))
    <2>1. /\ unack' = Head(buffer) /\ buffer' = Tail(buffer) /\ loop' \in {"process", "ack"}
          /\ loop = "recv"
          /\ UNCHANGED <<log, group, groupAt, delivered, pel, stale, staleReads, startAt, leftover,
                         fetcher, startId, batch, indexVars, view, bounds>>
      BY <1>2 DEF Recv
    <2> QED BY <1>2, <2>1, TakePipe
  <1>3. CASE unack = 0 /\ buffer # <<>> /\ Undecodable(Head(buffer))
    <2>1. /\ DropStream /\ loop' = "down"
          /\ UNCHANGED <<log, group, groupAt, delivered, pel, staleReads, startAt, leftover, indexVars, view, bounds>>
      BY <1>3 DEF Recv, EndWorker
    <2> QED BY <2>1, Dropped, EndPipe DEF PipeInv, TypeOK
  <1> QED BY <1>1, <1>2, <1>3 DEF Recv

LEMMA ProcessPipe ==
  ASSUME PipeInv, Process
  PROVE  PipeInv' /\ (loop' # "down" => Pipe' = Pipe)
  <1> USE DEF bounds, indexVars
  <1>0. /\ loop = "process" /\ unack # 0 /\ unack \in 0..Len(log) /\ index \in 0..Len(log)
        /\ UNCHANGED <<log, group, groupAt, delivered, pel, staleReads, startAt, leftover, loaded, bootAt, disturbed, view>>
    BY DEF Process, PipeInv, Control, TypeOK
  <1>1. CASE Converts(unack) /\ index' = unack /\ loop' = (IF index = unack THEN "ack" ELSE "publish")
             /\ UNCHANGED <<fetchVars, unack, stale, bounds>>
    <2>1. PipeInv'
      BY <1>0, <1>1, KeepPipe DEF PipeInv, TypeOK, LoopPc, Idle, StartPc
    <2> QED BY <1>1, <2>1 DEF Pipe, fetchVars
  <1>2. CASE Fail("process") /\ EndWorker /\ index' \in {index, unack}
    BY <1>0, <1>2, Dropped, EndPipe DEF PipeInv, TypeOK, Fail, EndWorker
  <1>3. CASE EndWorker /\ UNCHANGED <<index, bounds>>
    BY <1>0, <1>3, Dropped, EndPipe DEF PipeInv, TypeOK, EndWorker
  <1> QED BY <1>1, <1>2, <1>3 DEF Process

LEMMA PublishResultPipe ==
  ASSUME PipeInv, PublishResult
  PROVE  PipeInv' /\ (loop' # "down" => Pipe' = Pipe)
  <1> USE DEF bounds, indexVars
  <1>0. /\ loop = "publish" /\ unack # 0
        /\ UNCHANGED <<log, group, groupAt, delivered, pel, staleReads, startAt, leftover, indexVars>>
    BY DEF PublishResult, PipeInv, Control
  <1>1. CASE /\ loop' = "ack" /\ UNCHANGED <<fetchVars, unack, stale>> /\ view' \in {index, view}
             /\ (UNCHANGED bounds \/ Fail("status"))
    <2>0. faults' \in Nat /\ stops' \in Nat /\ crashes' \in Nat /\ deletes' \in Nat
      BY <1>1, CountersType DEF PipeInv
    <2>i. index' \in 0..Len(log) /\ view' \in 0..Len(log) /\ stale' \in Nat
      BY <1>0, <1>1 DEF PipeInv, TypeOK
    <2>c. loop \notin Idle /\ loop' \in LoopPc \ Idle
      BY <1>0, <1>1 DEF LoopPc, Idle, StartPc
    <2>1. PipeInv'
      BY <1>0, <1>1, <2>0, <2>i, <2>c, KeepPipe
    <2> QED BY <1>1, <2>1 DEF Pipe, fetchVars
  <1>2. CASE Fail("publish") /\ EndWorker /\ UNCHANGED view
    BY <1>0, <1>2, Dropped, EndPipe DEF PipeInv, TypeOK, Fail, EndWorker
  <1> QED BY <1>1, <1>2 DEF PublishResult

LEMMA AckPipe ==
  ASSUME PipeInv, Ack
  PROVE  /\ PipeInv'
         /\ \/ pel' = pel /\ unack' = unack /\ Pipe' = Pipe
            \/ pel' = pel \ {unack} /\ unack' = 0 /\ Pipe' = Pipe \ {unack} /\ unack \in Pipe
  <1> USE DEF bounds, indexVars
  <1>0. /\ loop = "ack" /\ loop' = "recv" /\ unack # 0 /\ unack \in Nat
        /\ UNCHANGED <<log, group, groupAt, delivered, stale, staleReads, startAt, leftover, fetchVars, indexVars, view>>
    BY DEF Ack, PipeInv, Control, TypeOK
  <1>1. CASE Fail("ack") /\ UNCHANGED <<pel, unack>>
    <2>1. PipeInv'
      BY <1>0, <1>1, KeepPipe DEF PipeInv, TypeOK, LoopPc, Idle, StartPc, Fail
    <2> QED BY <1>0, <1>1, <2>1 DEF Pipe, fetchVars
  <1>2. CASE pel' = pel \ {unack} /\ unack' = 0 /\ UNCHANGED bounds
    <2>1. TypeOK'
      BY <1>0, <1>2 DEF PipeInv, TypeOK, LoopPc, fetchVars
    <2>o. (\A i \in In(buffer) : i \in Nat /\ unack < i) /\ (\A i \in In(batch) : i \in Nat /\ unack < i)
      BY DEF PipeInv, Ordered
    <2>n. unack \notin In(buffer) /\ unack \notin In(batch)
      BY <2>o, <1>0
    <2>2. Pipe' = Pipe \ {unack} /\ unack \in Pipe
      BY <1>0, <1>2, <2>n DEF Pipe, fetchVars
    <2>3. Ordered'
      <3>1. \A i \in In(buffer) \cup In(batch) : 0 < i /\ i # unack
        BY <2>o, <1>0
      <3>2. 0 \in 0..delivered
        BY DEF PipeInv, TypeOK
      <3>3. /\ Increasing(buffer) /\ Increasing(batch)
            /\ \A i \in In(buffer) : i \in 1..delivered
            /\ \A i \in In(batch) : i \in 1..delivered
            /\ \A i \in In(buffer), j \in In(batch) : i < j
        BY DEF PipeInv, Ordered
      <3>4. UNCHANGED <<delivered, buffer, batch>> /\ unack' = 0
        BY <1>0, <1>2 DEF fetchVars
      <3> QED BY <3>1, <3>2, <3>3, <3>4 DEF Ordered
    <2>4. Control'
      BY <1>0, <1>2 DEF PipeInv, Control, fetchVars, Idle, StartPc
    <2>5. PassInv'
      BY <1>0, <1>2, <2>2 DEF PipeInv, PassInv, fetchVars
    <2> QED BY <1>2, <2>1, <2>2, <2>3, <2>4, <2>5 DEF PipeInv
  <1> QED BY <1>1, <1>2 DEF Ack

\* A worker that starts has no session.
LEMMA NoSession ==
  ASSUME PipeInv, loop \in Idle
  PROVE  buffer = <<>> /\ batch = <<>> /\ unack = 0 /\ In(buffer) = {} /\ In(batch) = {}
         /\ Pipe = {} /\ fetcher = "off"
  BY InEmpty DEF PipeInv, Control, Pipe

LEMMA StartPipe ==
  ASSUME PipeInv, Start \/ BeginBootstrap \/ Bootstrap
  PROVE  PipeInv' /\ Pipe' = {} /\ fetcher' = "off"
  <1> USE DEF bounds, redis, indexVars
  <1>s. Snapshot \in 0..Len(log) /\ Len(log) \in Nat /\ 0 \in 0..Len(log) /\ Len(log) \in 0..Len(log)
    BY SnapshotIsLast DEF PipeInv, TypeOK
  <1>0. loop \in Idle /\ loop' \in Idle /\ UNCHANGED <<redis, fetchVars, unack>>
    BY DEF Start, BeginBootstrap, Bootstrap, Idle, StartPc
  <1>1. /\ startAt' \in 0..Len(log) /\ bootAt' \in 0..Len(log) /\ index' \in 0..Len(log)
        /\ view' \in 0..Len(log) /\ UNCHANGED <<leftover, bounds>>
    BY <1>s DEF PipeInv, TypeOK, Start, BeginBootstrap, Bootstrap
  <1>2. loaded' \in BOOLEAN /\ disturbed' \in BOOLEAN
    BY DEF PipeInv, TypeOK, Start, BeginBootstrap, Bootstrap
  <1>3. TypeOK'
    BY <1>0, <1>1, <1>2 DEF PipeInv, TypeOK, fetchVars, LoopPc, Idle
  <1>4. Control'
    BY <1>0 DEF PipeInv, Control, fetchVars, Idle, StartPc
  <1>5. pel' \in SUBSET (pel \cup (delivered + 1)..delivered') /\ delivered <= delivered'
    BY <1>0 DEF PipeInv, TypeOK
  <1> QED BY <1>0, <1>3, <1>4, <1>5, AsidePipe, NoSession DEF fetchVars

LEMMA ConnectPipe ==
  ASSUME PipeInv, Connect
  PROVE  PipeInv' /\ Pipe' = {} /\ fetcher' \in {"off", "pending"}
  <1> USE DEF bounds, indexVars
  <1>0. /\ buffer = <<>> /\ batch = <<>> /\ unack = 0 /\ In(buffer) = {} /\ In(batch) = {}
        /\ Pipe = {} /\ fetcher = "off"
    BY NoSession DEF Connect, Idle, StartPc
  <1>u. /\ UNCHANGED <<log, pel, stale, staleReads, leftover, batch, buffer, unack, indexVars, view>>
        /\ startId' = 0 /\ startAt' = 0
        /\ \/ loop' = "recv" /\ fetcher' = "pending"
           \/ loop' = "down" /\ fetcher' = "off"
        /\ CreateGroup \/ KeepGroup
    BY DEF Connect
  <1>g. /\ delivered' \in 0..Len(log) /\ groupAt' \in 0..Len(log) /\ group' \in BOOLEAN
        /\ delivered <= delivered' /\ (~group' => delivered' = 0)
    <2>1. /\ delivered \in 0..Len(log) /\ startAt \in 0..Len(log) /\ groupAt \in 0..Len(log)
          /\ group \in BOOLEAN /\ Len(log) \in Nat /\ (~group => delivered = 0)
      BY DEF PipeInv, TypeOK, Control
    <2>2. CASE CreateGroup
      BY <2>1, <2>2 DEF CreateGroup
    <2>3. CASE KeepGroup
      BY <2>1, <2>3 DEF KeepGroup
    <2> QED BY <1>u, <2>2, <2>3
  <1>b. faults' \in Nat /\ stops' \in Nat /\ crashes' \in Nat /\ deletes' \in Nat
    <2>1. UNCHANGED bounds \/ Fail("group") \/ Fail("connect")
      BY DEF Connect
    <2> QED BY <2>1, CountersType DEF PipeInv
  <1>p. pel \in SUBSET (1..delivered')
    BY <1>g DEF PipeInv, TypeOK
  <1>1. TypeOK'
    BY <1>0, <1>u, <1>g, <1>b, <1>p DEF PipeInv, TypeOK, LoopPc, FetcherPc
  <1>2. Pipe' = {}
    BY <1>0, <1>u DEF Pipe
  <1>3. Ordered' /\ Control'
    BY <1>0, <1>u, <1>g, InEmpty DEF Ordered, Control, Idle, StartPc
  <1>4. PassInv'
    BY <1>2, <1>u, <1>g, <1>p DEF PassInv
  <1> QED BY <1>1, <1>2, <1>3, <1>4, <1>u DEF PipeInv

\* The publish API and Redis leave the session alone.
LEMMA PublishPipe ==
  ASSUME PipeInv, NEW kind \in EntryKinds, Publish(kind)
  PROVE  PipeInv' /\ Pipe' = Pipe
  <1> USE DEF bounds, indexVars, fetchVars
  <1>1. log' \in Seq(EntryKinds) /\ Len(log') = Len(log) + 1 /\ Len(log) \in Nat
    BY DEF PipeInv, TypeOK, Publish
  <1>2. (1..Len(log)) \subseteq 1..Len(log') /\ (0..Len(log)) \subseteq 0..Len(log')
    BY <1>1
  <1>3. batch \in Seq(1..Len(log')) /\ buffer \in Seq(1..Len(log'))
    BY <1>2, SeqMonotonic DEF PipeInv, TypeOK
  <1>4. TypeOK'
    BY <1>1, <1>2, <1>3 DEF PipeInv, TypeOK, Publish
  <1>5. Pipe' = Pipe
    BY DEF Pipe, Publish
  <1>6. Ordered' /\ Control' /\ PassInv'
    BY <1>5 DEF PipeInv, Ordered, Control, PassInv, Publish
  <1> QED BY <1>4, <1>5, <1>6 DEF PipeInv

LEMMA StaleGonePipe ==
  ASSUME PipeInv, StaleGone
  PROVE  PipeInv' /\ Pipe' = Pipe
  <1> USE DEF bounds, indexVars, fetchVars
  <1>1. TypeOK'
    BY DEF PipeInv, TypeOK, StaleGone
  <1>2. Pipe' = Pipe
    BY DEF Pipe, StaleGone
  <1> QED BY <1>1, <1>2 DEF PipeInv, Ordered, Control, PassInv, StaleGone

\* Shutdown, deletion and crash drop the session.
LEMMA StopPipe ==
  ASSUME PipeInv, Shutdown \/ Delete \/ Crash
  PROVE  PipeInv'
  <1> USE DEF bounds, indexVars, EndWorker, redis
  <1>0. Len(log) \in Nat /\ 0 \in 0..Len(log) /\ TypeOK
    BY DEF PipeInv, TypeOK
  <1>1. CASE Shutdown
    BY <1>1, Dropped, EndPipe DEF PipeInv, TypeOK, Shutdown
  <1>2. CASE Delete
    <2>1. loaded' \in BOOLEAN /\ disturbed' \in BOOLEAN /\ leftover' \in LeftoverPc
      BY <1>0, <1>2 DEF Delete, TypeOK, LeftoverPc
    <2>2. /\ faults' \in Nat /\ stops' \in Nat /\ crashes' \in Nat /\ deletes' \in Nat /\ stale' \in Nat
          /\ startAt' \in 0..Len(log) /\ bootAt' \in 0..Len(log) /\ index' \in 0..Len(log)
          /\ view' \in 0..Len(log) /\ pel' \in SUBSET pel
      BY <1>0, <1>2 DEF Delete, TypeOK
    <2> QED BY <1>2, <2>1, <2>2, EndPipe DEF Delete
  <1>3. CASE Crash
    <2>1. loaded' \in BOOLEAN /\ disturbed' \in BOOLEAN /\ leftover' \in LeftoverPc
      BY <1>0, <1>3 DEF Crash, TypeOK, LeftoverPc
    <2>2. /\ faults' \in Nat /\ stops' \in Nat /\ crashes' \in Nat /\ deletes' \in Nat
          /\ startAt' \in 0..Len(log) /\ bootAt' \in 0..Len(log) /\ index' \in 0..Len(log)
          /\ view' \in 0..Len(log) /\ pel' \in SUBSET pel
      BY <1>0, <1>3 DEF Crash, TypeOK
    <2> QED BY <1>0, <1>3, <2>1, <2>2, Dropped, EndPipe DEF Crash
  <1> QED BY <1>1, <1>2, <1>3

\* The worker left over does not touch the session of the one that runs.
LEMMA LeftoverPipe ==
  ASSUME PipeInv, Leftover
  PROVE  /\ PipeInv' /\ Pipe' = Pipe /\ fetcher' = fetcher /\ leftover # "none" /\ disturbed'
         /\ \/ pel' \in SUBSET pel /\ staleReads' = staleReads
            \/ DeliverNew /\ staleReads' = staleReads + 1
  <1> USE DEF bounds, redis, Disturb
  <1>t. TypeOK /\ Len(log) \in Nat /\ 0 \in 0..Len(log) /\ delivered \in Nat /\ MaxStale \in Nat
    BY StreamAssumption DEF PipeInv, TypeOK
  <1>s. Snapshot \in 0..Len(log)
    BY <1>t, SnapshotIsLast
  <1>f. ASSUME Disturb, UNCHANGED <<log, staleReads>>, pel' \in SUBSET pel, stale' \in Nat,
               leftover' \in LeftoverPc, loaded' \in BOOLEAN, index' \in 0..Len(log), view' \in 0..Len(log),
               delivered' \in 0..Len(log), groupAt' \in 0..Len(log), group' \in BOOLEAN,
               delivered <= delivered', ~group' => delivered' = 0,
               faults' \in Nat, stops' \in Nat, crashes' \in Nat, deletes' \in Nat
        PROVE  PipeInv' /\ Pipe' = Pipe /\ fetcher' = fetcher /\ disturbed'
    <2>1. pel' \in SUBSET (1..delivered')
      BY <1>f, <1>t DEF TypeOK
    <2>2. TypeOK'
      BY <1>f, <1>t, <2>1 DEF TypeOK, fetchVars
    <2>3. Control'
      BY <1>f DEF PipeInv, Control, fetchVars
    <2>4. pel' \in SUBSET (pel \cup (delivered + 1)..delivered')
      BY <1>f
    <2> QED BY <1>f, <2>2, <2>3, <2>4, AsidePipe DEF fetchVars
  <1>g. (~group => delivered = 0) /\ delivered \in 0..Len(log) /\ delivered <= delivered
    BY <1>t DEF PipeInv, Control, TypeOK
  <1>l. loaded' \in BOOLEAN
    BY <1>t DEF Leftover, LeftoverStarts, LeftoverWorks, LeftoverFetches, LeftoverEnds, LeftoverClears,
       LeftoverUnsubscribes, LeftoverSignals, SetState, TypeOK
  <1>1. CASE LeftoverStarts
    <2>1. /\ leftover = "starting" /\ Disturb /\ UNCHANGED <<log, pel, stale, staleReads, bounds>>
          /\ leftover' \in {leftover, "told"}
      BY <1>1 DEF LeftoverStarts
    <2>2. index' \in 0..Len(log) /\ view' \in 0..Len(log)
      BY <1>1, <1>s, <1>t DEF LeftoverStarts, TypeOK
    <2>3. /\ delivered' \in 0..Len(log) /\ groupAt' \in 0..Len(log) /\ group' \in BOOLEAN
          /\ delivered <= delivered' /\ (~group' => delivered' = 0)
      <3>0. group \in BOOLEAN /\ groupAt \in 0..Len(log)
        BY <1>t DEF TypeOK
      <3>1. CASE UNCHANGED <<group, groupAt, delivered>>
        BY <1>g, <3>0, <3>1
      <3>2. CASE ~group /\ group' = TRUE /\ \E at \in 0..Len(log) : delivered' = at /\ groupAt' = at
        BY <1>g, <1>t, <3>2
      <3> QED BY <1>1, <3>1, <3>2 DEF LeftoverStarts, KeepGroup
    <2>4. leftover' \in LeftoverPc
      BY <2>1 DEF LeftoverPc
    <2> QED BY <1>f, <1>l, <1>t, <2>1, <2>2, <2>3, <2>4 DEF TypeOK
  <1>2. CASE LeftoverWorks
    <2>1. /\ leftover = "told" /\ Disturb /\ pel' \in SUBSET pel
          /\ UNCHANGED <<log, group, groupAt, delivered, stale, staleReads, leftover, loaded, bounds>>
      BY <1>2 DEF LeftoverWorks
    <2>2. index' \in 0..Len(log) /\ view' \in 0..Len(log)
      BY <1>2, <1>t DEF LeftoverWorks, TypeOK
    <2> QED BY <1>f, <1>l, <1>t, <1>g, <2>1, <2>2 DEF TypeOK
  <1>3. CASE LeftoverFetches
    <2>1. disturbed' \in BOOLEAN /\ disturbed'
      BY <1>3 DEF LeftoverFetches
    <2>2. stale' \in Nat
      BY <1>3, <1>t DEF LeftoverFetches, TypeOK
    <2>3. /\ leftover # "none" /\ DeliverNew /\ staleReads' = staleReads + 1 /\ fetcher' = fetcher
          /\ UNCHANGED <<loop, startAt, fetchVars, unack, bootAt, leftover, loaded, index, view, bounds>>
      BY <1>3 DEF LeftoverFetches, fetchVars
    <2> QED BY <2>1, <2>2, <2>3, LostReadPipe
  <1>4. CASE LeftoverEnds
    <2>1. /\ leftover # "none" /\ Disturb /\ leftover' = "none"
          /\ UNCHANGED <<log, group, groupAt, delivered, pel, staleReads, index, view, bounds>>
      BY <1>4 DEF LeftoverEnds
    <2>2. stale' \in Nat /\ leftover' \in LeftoverPc
      BY <1>4, <1>t DEF LeftoverEnds, TypeOK, LeftoverPc
    <2> QED BY <1>f, <1>l, <1>t, <1>g, <2>1, <2>2 DEF TypeOK
  <1>5. CASE LeftoverClears
    <2>1. /\ leftover # "none" /\ Disturb /\ UNCHANGED <<redis, view>>
      BY <1>5 DEF LeftoverClears
    <2>2. leftover' \in LeftoverPc /\ index' \in 0..Len(log)
      BY <1>5, <1>t DEF LeftoverClears, TypeOK, LeftoverPc
    <2>3. faults' \in Nat /\ stops' \in Nat /\ crashes' \in Nat /\ deletes' \in Nat
      BY <1>5, <1>t DEF LeftoverClears, TypeOK, Fail
    <2> QED BY <1>f, <1>l, <1>t, <1>g, <2>1, <2>2, <2>3 DEF TypeOK
  <1>6. CASE LeftoverUnsubscribes
    <2>1. /\ leftover # "none" /\ Disturb /\ pel' \in SUBSET pel
          /\ UNCHANGED <<log, group, groupAt, delivered, staleReads, index, view>>
      BY <1>6 DEF LeftoverUnsubscribes
    <2>2. stale' \in Nat /\ leftover' \in LeftoverPc
      BY <1>6, <1>t DEF LeftoverUnsubscribes, TypeOK, LeftoverPc
    <2>3. faults' \in Nat /\ stops' \in Nat /\ crashes' \in Nat /\ deletes' \in Nat
      BY <1>6, <1>t DEF LeftoverUnsubscribes, TypeOK, Fail
    <2> QED BY <1>f, <1>l, <1>t, <1>g, <2>1, <2>2, <2>3 DEF TypeOK
  <1>7. CASE LeftoverSignals
    <2>1. /\ leftover # "none" /\ Disturb /\ UNCHANGED <<redis, index>>
      BY <1>7 DEF LeftoverSignals
    <2>2. leftover' \in LeftoverPc /\ view' \in 0..Len(log)
      BY <1>7, <1>t DEF LeftoverSignals, TypeOK, LeftoverPc
    <2>3. faults' \in Nat /\ stops' \in Nat /\ crashes' \in Nat /\ deletes' \in Nat
      <3>1. UNCHANGED bounds \/ Fail("publish")
        BY <1>7 DEF LeftoverSignals
      <3> QED BY <1>t, <3>1 DEF TypeOK, Fail
    <2> QED BY <1>f, <1>l, <1>t, <1>g, <2>1, <2>2, <2>3 DEF TypeOK
  <1> QED BY <1>1, <1>2, <1>3, <1>4, <1>5, <1>6, <1>7 DEF Leftover

LEMMA PipeStep == PipeInv /\ [Next]_vars => PipeInv'
  <1> SUFFICES ASSUME PipeInv, [Next]_vars PROVE PipeInv'
    OBVIOUS
  <1>1. CASE UNCHANGED vars
    <2> USE <1>1 DEF vars, redis, fetchVars, indexVars, bounds
    <2>1. TypeOK'
      BY DEF PipeInv, TypeOK
    <2>2. Ordered' /\ Control'
      BY DEF PipeInv, Ordered, Control
    <2>3. Pipe' = Pipe
      BY DEF Pipe
    <2>4. PassInv'
      BY <2>3 DEF PipeInv, PassInv
    <2> QED BY <2>1, <2>2, <2>4 DEF PipeInv
  <1>2. ASSUME NEW kind \in Kinds, Publish(kind) PROVE PipeInv'
    BY <1>2, PublishPipe, StreamAssumption
  <1>3. CASE FutureDue
    BY <1>3, PublishPipe DEF FutureDue, EntryKinds
  <1>4. CASE StaleRead \/ StaleGone
    BY <1>4, StaleReadPipe, StaleGonePipe
  <1>5. CASE Fetcher
    BY <1>5, FetchPendingPipe, FetchNewPipe, SendBatchPipe DEF Fetcher
  <1>6. CASE Worker
    BY <1>6, StartPipe, ConnectPipe, RecvPipe, ProcessPipe, PublishResultPipe, AckPipe DEF Worker
  <1>7. CASE Start \/ Shutdown \/ Delete \/ Leftover \/ Crash
    BY <1>7, StartPipe, StopPipe, LeftoverPipe
  <1> QED BY <1>1, <1>2, <1>3, <1>4, <1>5, <1>6, <1>7 DEF Next

\* Every variable of the data side of a query holds a value of its type, whatever the
\* sizes, faults and bounds; the invariant that carries it is that the session holds
\* pending entries in stream order (redis_change_stream.rs).
THEOREM TypeCorrect == Spec => []TypeOK
  <1>1. PipeInv => TypeOK
    BY DEF PipeInv
  <1> QED BY <1>1, PipeInit, PipeStep, PTL DEF Spec

(***************************************************************************)
(* AckedIsApplied.                                                         *)
(***************************************************************************)

\* The item in hand is the oldest entry that is pending, unless a read of a session
\* that is gone took older ones away from the pass.
LEMMA OldestFirst ==
  ASSUME PipeInv, Applied, unack # 0
  PROVE  unack \in pel /\ \A i \in pel : unack <= i
  <1>u. unack \in Pipe /\ unack \in pel
    BY DEF Pipe, Applied
  <1> SUFFICES ASSUME NEW i \in pel PROVE unack <= i
    BY <1>u
  <1>0. unack \in Nat /\ i \in Nat /\ startId \in Nat
    BY DEF PipeInv, TypeOK
  <1>1. i \in Pipe => unack <= i
    BY <1>0 DEF PipeInv, Ordered, Pipe
  <1>2. CASE fetcher \in {"pending", "sendPending"}
    BY <1>u, <1>0, <1>1, <1>2 DEF PipeInv, PassInv
  <1>3. CASE fetcher \in {"read", "sendNew"}
    BY <1>1, <1>3 DEF Applied
  <1> QED BY <1>2, <1>3 DEF PipeInv, TypeOK, FetcherPc, Control

\* A step that changes neither the group nor the index, and acknowledges nothing.
LEMMA KeepApplied ==
  ASSUME TypeOK, Applied, UNCHANGED <<log, group, groupAt, delivered, pel, index, bootAt, leftover>>,
         loaded' => loaded, Pipe' \subseteq pel,
         fetcher' \in {"read", "sendNew"} => pel \subseteq Pipe',
         loop' \in {"publish", "ack"} /\ log[unack'] = "change" => index = unack'
  PROVE  Applied'
  <1>1. Done' = Done
    BY DEF Done, Missed
  <1> QED BY <1>1 DEF Applied

\* Applying the item in hand: everything acknowledged is older.
LEMMA ProcessApplied ==
  ASSUME PipeInv, Applied, Process
  PROVE  Applied'
  <1> USE DEF indexVars
  <1>1. /\ UNCHANGED <<log, group, groupAt, delivered, pel, loaded, bootAt, leftover>>
        /\ PipeInv' /\ (loop' # "down" => Pipe' = Pipe)
    BY ProcessPipe DEF Process
  <1>2. /\ index' \in {index, unack} /\ (loop' \in {"publish", "ack"} => index' = unack /\ unack' = unack)
        /\ (loop' # "down" => fetcher' = fetcher)
    BY DEF Process, EndWorker, fetchVars
  <1>3. unack # 0
    BY DEF Process, PipeInv, Control
  <1>4. unack \in pel /\ pel \in SUBSET (1..delivered) /\ delivered \in Nat
    BY <1>3, OldestFirst DEF PipeInv, TypeOK
  <1>5. group
    BY <1>4 DEF PipeInv, Control
  <1>6. Done' = Done
    BY <1>1 DEF Done, Missed
  <1>7. loaded => \A i \in Done : log[i] = "change" => i <= index'
    <2>1. \A i \in Done : i \in Nat /\ i < unack
      BY <1>4 DEF Done, Applied
    <2>2. unack \in Nat
      BY <1>4
    <2>3. \A i \in Done : i <= unack
      BY <2>1, <2>2
    <2> QED BY <1>2, <2>3 DEF Applied
  <1>8. Pipe' \subseteq pel /\ (fetcher' \in {"read", "sendNew"} => pel \subseteq Pipe')
    <2>1. CASE loop' = "down"
      <3>1. Pipe' = {} /\ fetcher' = "off"
        BY <1>1, <2>1, InEmpty DEF PipeInv, Control, Pipe, Idle
      <3> QED BY <3>1
    <2>2. CASE loop' # "down"
      BY <1>1, <1>2, <2>2 DEF Applied
    <2> QED BY <2>1, <2>2
  <1> QED BY <1>1, <1>2, <1>5, <1>6, <1>7, <1>8 DEF Applied

\* The item that is acknowledged is the oldest one pending.
LEMMA AckApplied ==
  ASSUME PipeInv, Applied, Ack
  PROVE  Applied'
  <1> USE DEF indexVars
  <1>1. \/ pel' = pel /\ unack' = unack /\ Pipe' = Pipe
        \/ pel' = pel \ {unack} /\ unack' = 0 /\ Pipe' = Pipe \ {unack}
    BY AckPipe
  <1>2. /\ UNCHANGED <<log, group, groupAt, delivered, index, loaded, bootAt, leftover, fetcher>>
        /\ loop = "ack" /\ loop' = "recv"
    BY DEF Ack, fetchVars
  <1>3. unack # 0 /\ unack \in Nat /\ pel \in SUBSET (1..delivered) /\ delivered \in Nat /\ index \in Nat
    BY <1>2 DEF PipeInv, Control, TypeOK
  <1>4. unack \in pel /\ \A i \in pel : unack <= i
    BY <1>3, OldestFirst
  <1>5. CASE pel' = pel /\ unack' = unack /\ Pipe' = Pipe
    BY <1>2, <1>5, KeepApplied DEF PipeInv, Applied
  <1>6. CASE pel' = pel \ {unack} /\ unack' = 0 /\ Pipe' = Pipe \ {unack}
    <2>1. \A i \in (1..delivered) \ pel', j \in pel' : i < j
      <3> TAKE i \in (1..delivered) \ pel', j \in pel'
      <3>1. j \in pel /\ j # unack /\ j \in Nat /\ unack <= j
        BY <1>3, <1>4, <1>6
      <3>2. CASE i = unack
        BY <1>3, <3>1, <3>2
      <3>3. CASE i # unack
        BY <1>6, <3>1, <3>3 DEF Applied
      <3> QED BY <3>2, <3>3
    <2>2. \A i \in Done' : i \in Done \/ i = unack
      BY <1>2, <1>6 DEF Done, Missed
    <2>3. log[unack] = "change" => unack <= index
      BY <1>2, <1>3 DEF Applied
    <2>4. loaded => \A i \in Done' : log[i] = "change" => i <= index
      BY <2>2, <2>3 DEF Applied
    <2>5. Pipe' \subseteq pel' /\ (fetcher \in {"read", "sendNew"} => pel' \subseteq Pipe')
      BY <1>6 DEF Applied
    <2> QED BY <1>2, <2>1, <2>4, <2>5 DEF Applied
  <1> QED BY <1>1, <1>5, <1>6

\* What is read next comes after everything acknowledged.
LEMMA FetchNewApplied ==
  ASSUME PipeInv, Applied, FetchNew
  PROVE  Applied'
  <1> USE DEF indexVars
  <1>1. Pipe' = Pipe \cup (delivered + 1)..delivered' /\ PipeInv'
    BY FetchNewPipe
  <1>d. DeliverNew /\ TypeOK
    BY DEF FetchNew, PipeInv
  <1>n. Len(NewEntries) \in Nat
    BY <1>d, NewEntriesFacts
  <1>t. delivered \in Nat /\ pel \in SUBSET (1..delivered) /\ delivered' \in Nat
    BY <1>1, <1>d DEF TypeOK, PipeInv
  <1>2. pel' = pel \cup (delivered + 1)..delivered' /\ delivered' = delivered + Len(NewEntries)
    BY <1>d DEF DeliverNew
  <1>3. (1..delivered') \ pel' = (1..delivered) \ pel
    BY <1>t, <1>2, <1>n
  <1>4. UNCHANGED <<log, group, groupAt, index, loaded, bootAt, leftover, loop, unack>> /\ fetcher = "read"
    BY DEF FetchNew, DeliverNew
  <1>5. Done' = Done
    BY <1>3, <1>4 DEF Done, Missed
  <1>6. \A i \in (1..delivered') \ pel', j \in pel' : i < j
    <2> TAKE i \in (1..delivered') \ pel', j \in pel'
    <2>1. i \in (1..delivered) \ pel /\ i \in Nat /\ i <= delivered
      BY <1>3, <1>t
    <2>2. CASE j \in pel
      BY <2>1, <2>2 DEF Applied
    <2>3. CASE j \in (delivered + 1)..delivered'
      BY <2>1, <2>3, <1>t
    <2> QED BY <1>2, <2>2, <2>3
  <1>7. Pipe' = pel'
    BY <1>1, <1>2, <1>4 DEF Applied
  <1> QED BY <1>4, <1>5, <1>6, <1>7 DEF Applied

\* A group that a start creates begins before the bootstrap of that start, or leaves
\* out what came since the bootstrap of an earlier one.
LEMMA ConnectApplied ==
  ASSUME PipeInv, Applied, Connect
  PROVE  Applied'
  <1> USE DEF indexVars
  <1>1. PipeInv' /\ Pipe' = {} /\ fetcher' \in {"off", "pending"}
    BY ConnectPipe
  <1>2. /\ UNCHANGED <<log, pel, leftover, index, loaded, bootAt>> /\ loop' \in {"recv", "down"}
        /\ CreateGroup \/ KeepGroup
    BY DEF Connect
  <1>3. CASE UNCHANGED <<group, delivered, groupAt>>
    BY <1>1, <1>2, <1>3, KeepApplied DEF PipeInv
  <1>4. CASE ~group /\ group' /\ delivered' = startAt /\ groupAt' = startAt
    <2>1. /\ delivered = 0 /\ pel = {} /\ startAt \in Nat /\ bootAt \in Nat
      BY <1>4 DEF PipeInv, Control, TypeOK
    <2>2. \A i \in Done' : i \in 1..bootAt
      BY <1>2, <1>4, <2>1 DEF Done, Missed
    <2>3. loaded => \A i \in Done' : log[i] = "change" => i <= index
      BY <1>4, <2>2 DEF Applied
    <2>4. leftover' = "none"
      BY <1>2 DEF Applied
    <2> QED BY <1>1, <1>2, <1>4, <2>1, <2>3, <2>4 DEF Applied
  <1>5. UNCHANGED <<group, delivered, groupAt>> \/ (~group /\ group' /\ delivered' = startAt /\ groupAt' = startAt)
    <2>1. group \in BOOLEAN
      BY DEF PipeInv, TypeOK
    <2> QED BY <1>2, <2>1 DEF CreateGroup, KeepGroup
  <1> QED BY <1>3, <1>4, <1>5

LEMMA AppliedStep ==
  ASSUME PipeInv, AppliedInv, [Next]_vars
  PROVE  AppliedInv'
  <1> SUFFICES ASSUME staleReads' = 0, deletes' = 0
               PROVE  Applied'
    BY DEF AppliedInv
  <1> USE DEF bounds, indexVars, redis
  <1>t. TypeOK /\ staleReads \in Nat /\ deletes \in Nat /\ PipeInv'
    BY PipeStep DEF PipeInv, TypeOK
  <1>l. Leftover => staleReads' \in {staleReads, staleReads + 1} /\ leftover # "none"
    BY LeftoverPipe
  <1>l2. Leftover => deletes' = deletes
    BY DEF Leftover, LeftoverStarts, LeftoverWorks, LeftoverFetches, LeftoverEnds, LeftoverClears,
       LeftoverUnsubscribes, LeftoverSignals, Fail
  <1>0. staleReads = 0 /\ deletes = 0
    <2>2. \/ staleReads' = staleReads \/ staleReads' = staleReads + 1
      BY <1>l DEF Next, vars, Publish, FutureDue, StaleRead, StaleGone, Fetcher, FetchPending, FetchNew,
         SendBatch, Worker, BeginBootstrap, Bootstrap, Connect, Recv, Process, PublishResult, Ack, Start,
         Shutdown, Delete, Crash
    <2>3. Worker => deletes' = deletes
      BY DEF Worker, BeginBootstrap, Bootstrap, Connect, Recv, Process, PublishResult, Ack, Fail
    <2>4. \/ deletes' = deletes \/ deletes' = deletes + 1
      BY <1>l2, <2>3 DEF Next, vars, Publish, FutureDue, StaleRead, StaleGone, Fetcher, FetchPending, FetchNew,
         SendBatch, Start, Shutdown, Delete, Crash
    <2> QED BY <1>t, <2>2, <2>4
  <1>i. Applied
    BY <1>0 DEF AppliedInv
  <1>1. CASE UNCHANGED vars
    <2>1. Pipe' = Pipe
      BY <1>1 DEF vars, Pipe, fetchVars
    <2> QED BY <1>i, <1>t, <2>1, <1>1, KeepApplied DEF vars, fetchVars, Applied
  <1>2. ASSUME NEW kind \in EntryKinds, Publish(kind)
        PROVE  Applied'
    <2>0. Len(log) \in Nat /\ delivered \in 0..Len(log) /\ bootAt \in 0..Len(log) /\ unack \in 0..Len(log)
      BY <1>t DEF TypeOK
    <2>1. Pipe' = Pipe
      BY <1>2, PublishPipe
    <2>2. \A i \in 1..Len(log) : log'[i] = log[i]
      BY <1>2, <1>t DEF Publish, TypeOK
    <2>3. \A i \in Done : i \in 1..Len(log)
      BY <2>0 DEF Done
    <2>4. \A i \in 1..bootAt : i \in 1..Len(log)
      BY <2>0
    <2>5. Done' = Done /\ UNCHANGED <<index, pel, delivered, fetcher, loop, unack, group, loaded, bootAt, leftover>>
      BY <1>2 DEF Publish, Done, Missed, fetchVars
    <2>6. loop \in {"publish", "ack"} => unack \in 1..Len(log)
      BY <2>0 DEF PipeInv, Control
    <2> QED BY <1>i, <2>1, <2>2, <2>3, <2>4, <2>5, <2>6 DEF Applied
  <1>3. CASE FutureDue
    BY <1>2, <1>3 DEF FutureDue, EntryKinds
  <1>4. CASE StaleRead \/ StaleGone
    <2>1. StaleGone
      BY <1>4, <1>0, <1>t DEF StaleRead
    <2>2. Pipe' = Pipe
      BY <2>1, StaleGonePipe
    <2> QED BY <1>i, <1>t, <2>1, <2>2, KeepApplied DEF StaleGone, fetchVars, Applied
  <1>5. CASE FetchPending
    <2>1. (fetcher' = "read" => pel' \subseteq Pipe') /\ Pipe' \subseteq Pipe \cup pel
      BY <1>5, FetchPendingPipe
    <2>2. fetcher' \in {"read", "sendPending"} /\ UNCHANGED <<redis, indexVars, loop, unack, leftover>>
      BY <1>5 DEF FetchPending
    <2> QED BY <1>i, <1>t, <2>1, <2>2, KeepApplied DEF Applied
  <1>6. CASE FetchNew
    BY <1>6, <1>i, FetchNewApplied
  <1>7. CASE SendBatch
    <2>1. Pipe' = Pipe
      BY <1>7, SendBatchPipe
    <2>2. UNCHANGED <<redis, indexVars, loop, unack, leftover>>
      BY <1>7 DEF SendBatch
    <2>3. fetcher' \in {"read", "sendNew"} => fetcher \in {"read", "sendNew"}
      BY <1>7 DEF SendBatch
    <2> QED BY <1>i, <1>t, <2>1, <2>2, <2>3, KeepApplied DEF Applied
  <1>d. loop' \in Idle => Pipe' = {} /\ fetcher' = "off"
    BY <1>t, InEmpty DEF PipeInv, Control, Pipe
  <1>e. ASSUME loop' \in Idle, UNCHANGED <<log, group, groupAt, delivered, pel, index, bootAt, leftover>>,
               loaded' => loaded
        PROVE  Applied'
    BY <1>e, <1>d, <1>i, <1>t, KeepApplied DEF Idle, StartPc
  <1>8. CASE Recv
    <2>1. UNCHANGED <<log, group, groupAt, delivered, pel, indexVars, leftover>> /\ (loop' # "down" => Pipe' = Pipe)
      BY <1>8, RecvPipe DEF Recv
    <2>2. loop' # "publish" /\ (loop' # "down" => fetcher' = fetcher)
      BY <1>8 DEF Recv, EndWorker, fetchVars
    <2>3. loop' = "ack" => log[unack'] = "other"
      BY <1>8 DEF Recv, HasQuery, EndWorker
    <2>4. CASE loop' = "down"
      BY <1>e, <2>1, <2>4 DEF Idle
    <2>5. CASE loop' # "down"
      BY <1>i, <1>t, <2>1, <2>2, <2>3, <2>5, KeepApplied DEF Applied
    <2> QED BY <2>4, <2>5
  <1>9. CASE Process
    BY <1>9, <1>i, ProcessApplied
  <1>10. CASE PublishResult
    <2>1. UNCHANGED <<log, group, groupAt, delivered, pel, indexVars, leftover>> /\ (loop' # "down" => Pipe' = Pipe)
      BY <1>10, PublishResultPipe DEF PublishResult
    <2>2. loop = "publish" /\ (loop' # "down" => fetcher' = fetcher /\ unack' = unack)
      BY <1>10 DEF PublishResult, EndWorker, fetchVars
    <2>4. CASE loop' = "down"
      BY <1>e, <2>1, <2>4 DEF Idle
    <2>5. CASE loop' # "down"
      BY <1>i, <1>t, <2>1, <2>2, <2>5, KeepApplied DEF Applied
    <2> QED BY <2>4, <2>5
  <1>11. CASE Ack
    BY <1>11, <1>i, AckApplied
  <1>12. CASE Connect
    BY <1>12, <1>i, ConnectApplied
  <1>13. CASE Start
    BY <1>13, <1>e DEF Start, Idle, StartPc
  <1>14. CASE BeginBootstrap
    <2>1. CASE loaded
      BY <1>14, <2>1, <1>e DEF BeginBootstrap, Idle, StartPc
    <2>2. CASE ~loaded
      <3>1. /\ UNCHANGED <<log, group, groupAt, delivered, pel, bootAt, leftover>> /\ ~loaded' /\ loop' = "load"
        BY <1>14, <2>2 DEF BeginBootstrap
      <3>2. Pipe' = {} /\ fetcher' = "off"
        BY <3>1, <1>d DEF Idle, StartPc
      <3> QED BY <1>i, <3>1, <3>2 DEF Applied
    <2> QED BY <2>1, <2>2
  <1>15. CASE Bootstrap
    <2>1. /\ UNCHANGED <<log, group, groupAt, delivered, pel, leftover>> /\ loop' = "connect"
          /\ index' = Snapshot /\ bootAt' = Len(log)
      BY <1>15 DEF Bootstrap
    <2>2. Pipe' = {} /\ fetcher' = "off"
      BY <2>1, <1>d DEF Idle, StartPc
    <2>3. \A i \in 1..Len(log) : log[i] = "change" => i <= Snapshot
      BY <1>t, SnapshotIsLast
    <2>4. \A i \in Done' : i \in 1..Len(log)
      BY <1>t, <2>1 DEF Done, TypeOK
    <2> QED BY <1>i, <2>1, <2>2, <2>3, <2>4 DEF Applied
  <1>16. CASE Shutdown
    BY <1>16, <1>e DEF Shutdown, EndWorker, Idle
  <1>17. CASE Crash
    <2>0. loaded' \in {loaded, FALSE}
      BY <1>17 DEF Crash
    <2>1. loaded' => loaded
      BY <2>0, Zenon
    <2>2. leftover' = leftover
      BY <1>17, <1>i DEF Crash, Applied
    <2> QED BY <1>17, <1>e, <2>1, <2>2 DEF Crash, Idle
  <1>18. CASE Delete
    BY <1>18, <1>0 DEF Delete
  <1>19. CASE Leftover
    BY <1>19, <1>i, <1>l DEF Applied
  <1>20. ASSUME NEW kind \in Kinds, Publish(kind) PROVE kind \in EntryKinds
    BY StreamAssumption
  <1> QED BY <1>1, <1>2, <1>3, <1>4, <1>5, <1>6, <1>7, <1>8, <1>9, <1>10, <1>11, <1>12, <1>13, <1>14,
             <1>15, <1>16, <1>17, <1>18, <1>19, <1>20 DEF Next, Fetcher, Worker

\* An acknowledged change is in the index, and no older one is applied over it, for
\* every mix of shutdowns, crashes, failed calls, starts that end half way and
\* redelivery (query_worker.rs: ack follows process_changes; redis_change_stream.rs:
\* pending entries first, in order).  The only entries passed over are those of
\* Missed: between a bootstrap and the group that a later start creates.
THEOREM AckedAreApplied == Spec => []AckedIsApplied
  <1>1. Init => PipeInv /\ AppliedInv
    <2>1. Init => AppliedInv
      <3> SUFFICES ASSUME Init PROVE Applied
        BY DEF AppliedInv
      <3>1. Pipe = {}
        BY InEmpty DEF Init, Pipe
      <3>2. (1..delivered) = {} /\ Done = {}
        BY DEF Init, Done
      <3> QED BY <3>1, <3>2 DEF Init, Applied
    <2> QED BY <2>1, PipeInit
  <1>2. PipeInv /\ AppliedInv /\ [Next]_vars => (PipeInv /\ AppliedInv)'
    BY PipeStep, AppliedStep
  <1>3. PipeInv /\ AppliedInv => AckedIsApplied
    <2> SUFFICES ASSUME PipeInv, AppliedInv, loaded, staleReads = 0, deletes = 0, NEW i \in Done, log[i] = "change"
                 PROVE  index >= i
      BY DEF AckedIsApplied
    <2>1. i \in Nat /\ index \in Nat
      BY DEF PipeInv, TypeOK, Done
    <2> QED BY <2>1 DEF AppliedInv, Applied
  <1> QED BY <1>1, <1>2, <1>3, PTL DEF Spec

(***************************************************************************)
(* PendingBounded.                                                         *)
(***************************************************************************)

\* A union has at most as many elements as its parts.
LEMMA UnionBound ==
  ASSUME NEW A, NEW B, IsFiniteSet(A), IsFiniteSet(B), NEW m \in Nat, NEW n \in Nat,
         Cardinality(A) <= m, Cardinality(B) <= n
  PROVE  IsFiniteSet(A \cup B) /\ Cardinality(A \cup B) <= m + n
  <1>1. IsFiniteSet(A \cup B) /\ IsFiniteSet(A \cap B)
        /\ Cardinality(A \cup B) = Cardinality(A) + Cardinality(B) - Cardinality(A \cap B)
    BY FS_Union, FS_Intersection
  <1>2. Cardinality(A) \in Nat /\ Cardinality(B) \in Nat /\ Cardinality(A \cap B) \in Nat
    BY <1>1, FS_CardinalityType
  <1> QED BY <1>1, <1>2

\* A sequence holds at most as many entries as its length.
LEMMA InBound ==
  ASSUME NEW S, NEW s \in Seq(S)
  PROVE  IsFiniteSet(In(s)) /\ Cardinality(In(s)) <= Len(s)
  <1>1. Len(s) \in Nat /\ s \in [1..Len(s) -> In(s)]
    BY DEF In
  <1>2. s \in Surjection(1..Len(s), In(s))
    BY <1>1 DEF In, Surjection
  <1>3. IsFiniteSet(1..Len(s)) /\ Cardinality(1..Len(s)) = Len(s)
    <2>1. IsFiniteSet(1..Len(s)) /\ Cardinality(1..Len(s)) = IF 1 > Len(s) THEN 0 ELSE Len(s) - 1 + 1
      BY <1>1, FS_Interval
    <2> QED BY <1>1, <2>1
  <1>4. IsFiniteSet(In(s)) /\ Cardinality(In(s)) <= Cardinality(1..Len(s))
    BY <1>2, <1>3, FS_Surjection
  <1> QED BY <1>3, <1>4

\* A read that is served makes at most a batch of entries pending.
LEMMA DeliverBound ==
  ASSUME TypeOK, DeliverNew
  PROVE  /\ IsFiniteSet((delivered + 1)..delivered')
         /\ Cardinality((delivered + 1)..delivered') <= FetchBatch
  <1>1. Len(NewEntries) \in 1..FetchBatch /\ delivered \in Nat /\ delivered' = delivered + Len(NewEntries)
    BY NewEntriesFacts DEF DeliverNew, TypeOK
  <1>2. delivered + 1 \in Int /\ delivered' \in Int /\ FetchBatch \in Nat
    BY <1>1, StreamAssumption
  <1>3. /\ IsFiniteSet((delivered + 1)..delivered')
        /\ Cardinality((delivered + 1)..delivered') =
             IF delivered + 1 > delivered' THEN 0 ELSE delivered' - (delivered + 1) + 1
    BY <1>2, FS_Interval
  <1> QED BY <1>1, <1>2, <1>3

LEMMA PelFinite ==
  ASSUME TypeOK
  PROVE  IsFiniteSet(pel) /\ Cardinality(pel) \in Nat
  <1>1. delivered \in Int /\ 1 \in Int
    BY DEF TypeOK
  <1>2. IsFiniteSet(1..delivered)
    BY <1>1, FS_Interval
  <1>3. IsFiniteSet(pel)
    BY <1>2, FS_Subset DEF TypeOK
  <1> QED BY <1>3, FS_CardinalityType

\* A step that makes nothing pending keeps both bounds, if what it leaves unheld was
\* unheld before.
LEMMA ShrinkBound ==
  ASSUME BoundInv, pel' \in SUBSET pel, staleReads' = staleReads,
         fetcher' \in {"read", "sendNew"} =>
            \/ fetcher \in {"read", "sendNew"} /\ pel' \ Pipe' \in SUBSET (pel \ Pipe)
            \/ pel' \subseteq Pipe'
  PROVE  Unheld' /\ PendingBounded'
  <1>0. IsFiniteSet(pel) /\ Cardinality(pel) \in Nat /\ staleReads \in Nat
    BY PelFinite DEF BoundInv, PipeInv, TypeOK
  <1>1. IsFiniteSet(pel') /\ Cardinality(pel') <= Cardinality(pel)
    BY <1>0, FS_Subset
  <1>2. Cardinality(pel') \in Nat
    BY <1>1, FS_CardinalityType
  <1>p. FetchBatch \in Nat /\ BufferSize \in Nat /\ FetchBatch * staleReads \in Nat
        /\ FetchBatch * (1 + staleReads) \in Nat
    <2>1. FetchBatch \in Nat /\ BufferSize \in Nat
      BY StreamAssumption
    <2>2. \A m, n \in Nat : m * n \in Nat
      OBVIOUS
    <2> QED BY <1>0, <2>1, <2>2
  <1>3. PendingBounded'
    BY <1>0, <1>1, <1>2, <1>p DEF BoundInv, PendingBounded
  <1>4. Unheld'
    <2> SUFFICES ASSUME fetcher' \in {"read", "sendNew"}
                 PROVE  Cardinality(pel' \ Pipe') <= FetchBatch * staleReads'
      BY DEF Unheld
    <2>1. CASE fetcher \in {"read", "sendNew"} /\ pel' \ Pipe' \in SUBSET (pel \ Pipe)
      <3>1. IsFiniteSet(pel \ Pipe)
        BY <1>0, FS_Difference
      <3>2. IsFiniteSet(pel' \ Pipe') /\ Cardinality(pel' \ Pipe') <= Cardinality(pel \ Pipe)
        BY <2>1, <3>1, FS_Subset
      <3>3. Cardinality(pel \ Pipe) \in Nat /\ Cardinality(pel' \ Pipe') \in Nat
        BY <3>1, <3>2, FS_CardinalityType
      <3>4. Cardinality(pel \ Pipe) <= FetchBatch * staleReads
        BY <2>1 DEF BoundInv, Unheld
      <3> QED BY <3>2, <3>3, <3>4, <1>p
    <2>2. CASE pel' \subseteq Pipe'
      <3>1. pel' \ Pipe' = {}
        BY <2>2
      <3> QED BY <3>1, FS_EmptySet, <1>p
    <2> QED BY <2>1, <2>2
  <1> QED BY <1>3, <1>4

LEMMA FetchNewBound ==
  ASSUME BoundInv, FetchNew
  PROVE  Unheld' /\ PendingBounded'
  <1> DEFINE new == (delivered + 1)..delivered'
  <1>0. /\ TypeOK /\ DeliverNew /\ PipeInv /\ fetcher = "read" /\ staleReads' = staleReads
        /\ Pipe' = Pipe \cup new /\ staleReads \in Nat /\ FetchBatch \in Nat /\ BufferSize \in Nat
    BY FetchNewPipe, StreamAssumption DEF BoundInv, PipeInv, FetchNew, TypeOK
  <1>1. pel' = pel \cup new
    BY <1>0 DEF DeliverNew
  <1>2. IsFiniteSet(new) /\ Cardinality(new) <= FetchBatch
    BY <1>0, DeliverBound
  <1> HIDE DEF new
  <1>3. pel' \ Pipe' = (pel \ Pipe) \ new
    BY <1>0, <1>1
  <1>4. IsFiniteSet(pel) /\ IsFiniteSet(pel \ Pipe) /\ Cardinality(pel \ Pipe) <= FetchBatch * staleReads
    BY <1>0, PelFinite, FS_Difference DEF BoundInv, Unheld
  <1>m. FetchBatch * staleReads \in Nat /\ FetchBatch * (1 + staleReads) = FetchBatch + FetchBatch * staleReads
    BY <1>0
  <1>5. Unheld'
    <2>1. pel' \ Pipe' \in SUBSET (pel \ Pipe)
      BY <1>3
    <2>2. IsFiniteSet(pel' \ Pipe') /\ Cardinality(pel' \ Pipe') <= Cardinality(pel \ Pipe)
      BY <1>4, <2>1, FS_Subset
    <2>3. Cardinality(pel' \ Pipe') \in Nat /\ Cardinality(pel \ Pipe) \in Nat
      BY <1>4, <2>2, FS_CardinalityType
    <2> QED BY <1>0, <1>4, <1>m, <2>2, <2>3 DEF Unheld
  <1>6. IsFiniteSet(Pipe) /\ Cardinality(Pipe) <= 1 + BufferSize
    <2> DEFINE hand == IF unack = 0 THEN {} ELSE {unack}
    <2>1. IsFiniteSet(hand) /\ Cardinality(hand) <= 1
      <3>1. CASE unack = 0
        BY <3>1, FS_EmptySet
      <3>2. CASE unack # 0
        <4>1. IsFiniteSet({unack}) /\ Cardinality({unack}) = 1
          BY FS_Singleton
        <4> QED BY <3>2, <4>1
      <3> QED BY <3>1, <3>2
    <2>2. Len(buffer) \in Nat /\ Len(buffer) <= BufferSize /\ buffer \in Seq(1..Len(log))
      BY <1>0 DEF TypeOK
    <2>3. IsFiniteSet(In(buffer)) /\ Cardinality(In(buffer)) <= Len(buffer)
      BY <2>2, InBound
    <2>4. Cardinality(In(buffer)) \in Nat
      BY <2>3, FS_CardinalityType
    <2>5. Cardinality(In(buffer)) <= BufferSize
      BY <2>2, <2>3, <2>4, <1>0
    <2>6. Pipe = hand \cup In(buffer)
      <3>1. In(batch) = {}
        BY <1>0, InEmpty DEF PipeInv, Control
      <3> QED BY <3>1 DEF Pipe
    <2> HIDE DEF hand
    <2> QED BY <2>1, <2>3, <2>5, <2>6, <1>0, UnionBound
  <1>7. Cardinality(pel') <= (FetchBatch * staleReads + (1 + BufferSize)) + FetchBatch
    <2>1. IsFiniteSet((pel \ Pipe) \cup Pipe)
          /\ Cardinality((pel \ Pipe) \cup Pipe) <= FetchBatch * staleReads + (1 + BufferSize)
      <3>1. 1 + BufferSize \in Nat
        BY <1>0
      <3> QED BY <1>4, <1>6, <1>m, <3>1, UnionBound
    <2>2. FetchBatch * staleReads + (1 + BufferSize) \in Nat
      BY <1>0, <1>m
    <2>3. /\ IsFiniteSet(((pel \ Pipe) \cup Pipe) \cup new)
          /\ Cardinality(((pel \ Pipe) \cup Pipe) \cup new)
               <= (FetchBatch * staleReads + (1 + BufferSize)) + FetchBatch
      BY <1>0, <1>2, <2>1, <2>2, UnionBound
    <2>4. pel' \in SUBSET (((pel \ Pipe) \cup Pipe) \cup new)
      BY <1>1
    <2>5. IsFiniteSet(pel') /\ Cardinality(pel') <= Cardinality(((pel \ Pipe) \cup Pipe) \cup new)
      BY <2>3, <2>4, FS_Subset
    <2>6. Cardinality(pel') \in Nat /\ Cardinality(((pel \ Pipe) \cup Pipe) \cup new) \in Nat
      BY <2>3, <2>5, FS_CardinalityType
    <2> QED BY <2>2, <2>3, <2>5, <2>6, <1>0
  <1>8. PendingBounded'
    <2>1. IsFiniteSet(pel') /\ Cardinality(pel') \in Nat
      BY <1>1, <1>2, <1>4, FS_Union, FS_CardinalityType
    <2> QED BY <1>0, <1>7, <1>m, <2>1 DEF PendingBounded
  <1> QED BY <1>5, <1>8

LEMMA LostReadBound ==
  ASSUME BoundInv, DeliverNew, staleReads' = staleReads + 1, fetcher' = fetcher, Pipe' = Pipe
  PROVE  Unheld' /\ PendingBounded'
  <1> DEFINE new == (delivered + 1)..delivered'
  <1>0. /\ TypeOK /\ DeliverNew /\ PipeInv /\ staleReads' = staleReads + 1 /\ fetcher' = fetcher
        /\ Pipe' = Pipe /\ staleReads \in Nat /\ FetchBatch \in Nat /\ BufferSize \in Nat
    BY StreamAssumption DEF BoundInv, PipeInv, TypeOK
  <1>1. pel' = pel \cup new
    BY <1>0 DEF DeliverNew
  <1>2. IsFiniteSet(new) /\ Cardinality(new) <= FetchBatch
    BY <1>0, DeliverBound
  <1> HIDE DEF new
  <1>m. /\ FetchBatch * staleReads \in Nat /\ FetchBatch * (1 + staleReads) \in Nat
        /\ FetchBatch * (staleReads + 1) = FetchBatch * staleReads + FetchBatch
        /\ FetchBatch * (1 + (staleReads + 1)) = FetchBatch * (1 + staleReads) + FetchBatch
    BY <1>0
  <1>f. IsFiniteSet(pel) /\ IsFiniteSet(pel \ Pipe)
    BY <1>0, PelFinite, FS_Difference
  <1>3. Unheld'
    <2> SUFFICES ASSUME fetcher \in {"read", "sendNew"}
                 PROVE  Cardinality(pel' \ Pipe) <= FetchBatch * (staleReads + 1)
      BY <1>0 DEF Unheld
    <2>1. Cardinality(pel \ Pipe) <= FetchBatch * staleReads
      BY DEF BoundInv, Unheld
    <2>2. IsFiniteSet((pel \ Pipe) \cup new) /\ Cardinality((pel \ Pipe) \cup new) <= FetchBatch * staleReads + FetchBatch
      BY <1>0, <1>2, <1>f, <1>m, <2>1, UnionBound
    <2>3. pel' \ Pipe \in SUBSET ((pel \ Pipe) \cup new)
      BY <1>1
    <2>4. IsFiniteSet(pel' \ Pipe) /\ Cardinality(pel' \ Pipe) <= Cardinality((pel \ Pipe) \cup new)
      BY <2>2, <2>3, FS_Subset
    <2>5. Cardinality(pel' \ Pipe) \in Nat /\ Cardinality((pel \ Pipe) \cup new) \in Nat
      BY <2>2, <2>4, FS_CardinalityType
    <2> QED BY <1>0, <1>m, <2>2, <2>4, <2>5
  <1>4. PendingBounded'
    <2> DEFINE n == BufferSize + FetchBatch * (1 + staleReads) + 1
    <2>1. Cardinality(pel) <= n
      BY DEF BoundInv, PendingBounded
    <2>2. n \in Nat
      <3>1. \A a, b \in Nat : a + b + 1 \in Nat
        OBVIOUS
      <3> QED BY <1>0, <1>m, <3>1
    <2> HIDE DEF n
    <2>3. IsFiniteSet(pel \cup new) /\ Cardinality(pel \cup new) <= n + FetchBatch
      BY <1>0, <1>2, <1>f, <2>1, <2>2, UnionBound
    <2>4. n + FetchBatch = BufferSize + FetchBatch * (1 + (staleReads + 1)) + 1
      <3>1. \A a, b, c \in Nat : (a + b + 1) + c = a + (b + c) + 1
        OBVIOUS
      <3> QED BY <1>0, <1>m, <3>1 DEF n
    <2> QED BY <1>0, <1>1, <2>3, <2>4 DEF PendingBounded
  <1> QED BY <1>3, <1>4

LEMMA BoundStep == BoundInv /\ [Next]_vars => BoundInv'
  <1> SUFFICES ASSUME BoundInv, [Next]_vars PROVE Unheld' /\ PendingBounded'
    BY PipeStep DEF BoundInv
  <1> USE DEF bounds, indexVars, redis
  <1>p. PipeInv /\ PipeInv'
    BY PipeStep DEF BoundInv
  <1>e. ASSUME loop' = "down", pel' \in SUBSET pel, staleReads' = staleReads
        PROVE  Unheld' /\ PendingBounded'
    <2>1. fetcher' = "off"
      BY <1>p, <1>e DEF PipeInv, Control, Idle
    <2> QED BY <1>e, <2>1, ShrinkBound
  <1>s. ASSUME pel' = pel, Pipe' = Pipe, staleReads' = staleReads,
               fetcher' \in {"read", "sendNew"} => fetcher \in {"read", "sendNew"}
        PROVE  Unheld' /\ PendingBounded'
    BY <1>s, ShrinkBound
  <1>1. CASE UNCHANGED vars
    <2>1. Pipe' = Pipe
      BY <1>1 DEF vars, Pipe, fetchVars
    <2> QED BY <1>s, <1>1, <2>1 DEF vars, fetchVars
  <1>2. ASSUME NEW kind \in EntryKinds, Publish(kind) PROVE Unheld' /\ PendingBounded'
    BY <1>p, <1>s, <1>2, PublishPipe DEF Publish, fetchVars
  <1>3. CASE FutureDue
    BY <1>2, <1>3 DEF FutureDue, EntryKinds
  <1>4. CASE StaleRead
    BY <1>4, <1>p, StaleReadPipe, LostReadBound DEF StaleRead, fetchVars
  <1>5. CASE StaleGone
    BY <1>p, <1>s, <1>5, StaleGonePipe DEF StaleGone, fetchVars
  <1>6. CASE FetchPending
    <2>1. fetcher' \in {"read", "sendPending"} /\ pel' = pel /\ staleReads' = staleReads
      BY <1>6 DEF FetchPending
    <2>2. fetcher' = "read" => pel' \subseteq Pipe'
      BY <1>p, <1>6, FetchPendingPipe
    <2> QED BY <2>1, <2>2, ShrinkBound
  <1>7. CASE FetchNew
    BY <1>7, FetchNewBound
  <1>8. CASE SendBatch
    BY <1>p, <1>s, <1>8, SendBatchPipe DEF SendBatch
  <1>9. CASE Recv \/ Process \/ PublishResult
    <2>1. pel' = pel /\ staleReads' = staleReads /\ (loop' = "down" \/ fetcher' = fetcher)
      BY <1>9 DEF Recv, Process, PublishResult, EndWorker, fetchVars
    <2>2. loop' = "down" \/ Pipe' = Pipe
      BY <1>p, <1>9, RecvPipe, ProcessPipe, PublishResultPipe
    <2> QED BY <1>e, <1>s, <2>1, <2>2
  <1>10. CASE Ack
    <2>1. \/ pel' = pel /\ unack' = unack /\ Pipe' = Pipe
          \/ pel' = pel \ {unack} /\ unack' = 0 /\ Pipe' = Pipe \ {unack} /\ unack \in Pipe
      BY <1>p, <1>10, AckPipe
    <2>2. staleReads' = staleReads /\ fetcher' = fetcher
      BY <1>10 DEF Ack, fetchVars
    <2>3. pel' \in SUBSET pel /\ pel' \ Pipe' \in SUBSET (pel \ Pipe)
      BY <2>1
    <2> QED BY <2>2, <2>3, ShrinkBound
  <1>11. CASE Start \/ BeginBootstrap \/ Bootstrap
    <2>1. pel' = pel /\ staleReads' = staleReads
      BY <1>11 DEF Start, BeginBootstrap, Bootstrap
    <2> QED BY <1>11, <1>p, <2>1, StartPipe, ShrinkBound
  <1>14. CASE Connect
    <2>1. pel' = pel /\ staleReads' = staleReads
      BY <1>14 DEF Connect
    <2> QED BY <1>14, <1>p, <2>1, ConnectPipe, ShrinkBound
  <1>15. CASE Leftover
    <2>1. /\ Pipe' = Pipe /\ fetcher' = fetcher
          /\ \/ pel' \in SUBSET pel /\ staleReads' = staleReads
             \/ DeliverNew /\ staleReads' = staleReads + 1
      BY <1>15, <1>p, LeftoverPipe
    <2>2. CASE pel' \in SUBSET pel /\ staleReads' = staleReads
      <3>1. pel' \ Pipe' \in SUBSET (pel \ Pipe)
        BY <2>1, <2>2
      <3> QED BY <2>1, <2>2, <3>1, ShrinkBound
    <2>3. CASE DeliverNew /\ staleReads' = staleReads + 1
      BY <2>1, <2>3, LostReadBound
    <2> QED BY <2>1, <2>2, <2>3
  <1>12. CASE Shutdown \/ Delete \/ Crash
    BY <1>e, <1>12 DEF Shutdown, Delete, Crash, EndWorker
  <1>13. Kinds \subseteq EntryKinds
    BY StreamAssumption
  <1> QED BY <1>p, <1>1, <1>2, <1>3, <1>4, <1>5, <1>6, <1>7, <1>8, <1>9, <1>10, <1>11, <1>12, <1>13,
             <1>14, <1>15 DEF Next, Fetcher, Worker

\* Backpressure for every buffer and batch size: the consumer never has more pending
\* entries than the channel, a batch and the item in hand take, plus a batch for every
\* read of a dropped session that Redis served or of a worker left over (redis_change_stream.rs).
THEOREM PendingIsBounded == Spec => []PendingBounded
  <1>1. Init => BoundInv
    <2> SUFFICES ASSUME Init PROVE BoundInv
      OBVIOUS
    <2>1. PipeInv
      BY PipeInit
    <2>2. pel = {} /\ fetcher = "off" /\ Cardinality(pel) = 0 /\ staleReads = 0
      BY FS_EmptySet DEF Init
    <2>3. BufferSize + FetchBatch * (1 + 0) + 1 >= 0
      <3>1. BufferSize \in Nat /\ FetchBatch \in Nat
        BY StreamAssumption
      <3> QED BY <3>1
    <2> QED BY <2>1, <2>2, <2>3 DEF BoundInv, Unheld, PendingBounded
  <1>2. BoundInv => PendingBounded
    BY DEF BoundInv
  <1> QED BY <1>1, <1>2, BoundStep, PTL DEF Spec

(***************************************************************************)
(* ResultsMatchIndex.                                                      *)
(***************************************************************************)

LEMMA ResultStep ==
  ASSUME PipeInv, ResultsMatchIndex, [Next]_vars
  PROVE  ResultsMatchIndex'
  <1> USE DEF bounds, indexVars, redis, EndWorker
  <1>t. faults \in Nat /\ crashes \in Nat /\ loop \in LoopPc
    BY DEF PipeInv, TypeOK
  <1>1. CASE UNCHANGED vars
    BY <1>1 DEF ResultsMatchIndex, vars
  <1>2. ASSUME NEW kind, Publish(kind) PROVE ResultsMatchIndex'
    BY <1>2 DEF ResultsMatchIndex, Publish
  <1>3. CASE FutureDue
    BY <1>2, <1>3 DEF FutureDue
  <1>4. CASE StaleRead \/ StaleGone
    BY <1>4 DEF ResultsMatchIndex, StaleRead, StaleGone
  <1>5. CASE Fetcher
    BY <1>5 DEF ResultsMatchIndex, Fetcher, FetchPending, FetchNew, SendBatch
  <1>6. CASE Recv
    BY <1>6, <1>t DEF ResultsMatchIndex, Recv
  <1>7. CASE Process
    BY <1>7, <1>t DEF ResultsMatchIndex, Process, Fail
  <1>8. CASE PublishResult
    BY <1>8, <1>t DEF ResultsMatchIndex, PublishResult, Fail
  <1>9. CASE Ack
    BY <1>9, <1>t DEF ResultsMatchIndex, Ack, Fail
  <1>10. CASE Start \/ BeginBootstrap \/ Bootstrap
    <2>1. CASE Start
      BY <2>1, <1>t DEF ResultsMatchIndex, Start
    <2>2. CASE BeginBootstrap
      <3>1. \/ loaded /\ loop = "boot" /\ UNCHANGED <<indexVars, view, bounds>>
            \/ ~loaded'
        BY <2>2 DEF BeginBootstrap
      <3> QED BY <3>1 DEF ResultsMatchIndex
    <2>3. CASE Bootstrap
      BY <2>3 DEF ResultsMatchIndex, Bootstrap
    <2> QED BY <1>10, <2>1, <2>2, <2>3
  <1>14. CASE Connect
    BY <1>14, <1>t DEF ResultsMatchIndex, Connect, Fail
  <1>15. CASE Leftover
    <2>1. disturbed'
      BY <1>15, LeftoverPipe
    <2> QED BY <2>1 DEF ResultsMatchIndex
  <1>11. CASE Shutdown
    BY <1>11, <1>t DEF ResultsMatchIndex, Shutdown
  <1>12. CASE Delete
    BY <1>12 DEF ResultsMatchIndex, Delete
  <1>13. CASE Crash
    BY <1>13, <1>t DEF ResultsMatchIndex, Crash
  <1> QED BY <1>1, <1>2, <1>3, <1>4, <1>5, <1>6, <1>7, <1>8, <1>9, <1>10, <1>11, <1>12, <1>13,
             <1>14, <1>15 DEF Next, Worker

\* Without failed calls and crashes a subscriber of the results topic has what the
\* index holds, but for the result about to be published, through every shutdown,
\* restart, deletion and recreation (query_worker.rs: the command is taken between
\* two messages), as long as the worker left over from a deletion does nothing more
\* once the recreated query has begun to load.
THEOREM ResultsFollowIndex == Spec => []ResultsMatchIndex
  <1>1. Init => PipeInv /\ ResultsMatchIndex
    <2>1. Init => ResultsMatchIndex
      BY DEF Init, ResultsMatchIndex
    <2> QED BY <2>1, PipeInit
  <1>2. PipeInv /\ ResultsMatchIndex /\ [Next]_vars => (PipeInv /\ ResultsMatchIndex)'
    BY PipeStep, ResultStep
  <1> QED BY <1>1, <1>2, PTL DEF Spec

=============================================================================
