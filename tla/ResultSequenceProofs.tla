------------------------ MODULE ResultSequenceProofs ------------------------
(***************************************************************************)
(* Proofs about ResultSequence: its type invariant, and that restarts of   *)
(* the worker number the results in order as long as nothing is lost       *)
(* between the manager and the index.                                      *)
(***************************************************************************)
EXTENDS ResultSequence, TLAPS

\* The write of task t in StoreLate.
LateWrite(t, failed) ==
  /\ ApplySequence(t.latest, failed)
  /\ \/ /\ t.channel = "new" /\ UNCHANGED disorder
        /\ late' = (late \ {t}) \cup {[t EXCEPT !.channel = IF failed THEN "failed" ELSE "seen"]}
     \/ /\ t.channel # "new" /\ late' = late \ {t}
        /\ disorder' = IF failed /\ t.channel = "failed" THEN disorder \cup {"failure"} ELSE disorder

\* Every step of the query host keeps the type invariant.
LEMMA HostTypeStep ==
  ASSUME HostTypeOK, [HostNext]_hostVars
  PROVE  HostTypeOK'
<1> USE DEF HostTypeOK
<1>1. CASE StartManager
  BY <1>1 DEF StartManager
<1>2. CASE EndWorker
  <2>1. [id |-> ends, latest |-> latest, channel |-> channel] \in Task
    BY DEF Task
  <2> QED BY <1>2, <2>1 DEF EndWorker, DropManager
<1>3. CASE EmitFails
  <2>1. [id |-> ends, latest |-> value + 1, channel |-> "new"] \in Task
    BY DEF Task
  <2> QED BY <1>3, <2>1 DEF EmitFails, DropManager, Increment
<1>4. ASSUME NEW e \in Events, Emit(e)
      PROVE  HostTypeOK'
  <2>1. [seq |-> value + 1, keys |-> e.keys, removed |-> e.removed, keyless |-> e.keyless] \in Result
    BY <1>4, SequenceAssumption DEF Result, Event, HostTypeOK
  <2> QED BY <1>4, <2>1 DEF Emit, Increment
<1>5. CASE StoreSequence
  BY <1>5 DEF StoreSequence, ApplySequence
<1>6. CASE StoreLate
  <2>1. PICK t \in late, failed \in BOOLEAN : LateWrite(t, failed)
    BY <1>6 DEF StoreLate, LateWrite
  <2>2. t \in Task /\ t.latest \in Nat
    BY DEF Task
  <2>3. /\ [t EXCEPT !.channel = "seen"] \in Task
        /\ [t EXCEPT !.channel = "failed"] \in Task
    BY <2>2 DEF Task
  <2>4. late' \subseteq Task
    BY <2>1, <2>2, <2>3 DEF LateWrite
  <2>5. stored' \in Nat /\ misses' \in Nat /\ disorder' \subseteq {"overlap", "idle", "crash", "failure"}
    BY <2>1, <2>2 DEF LateWrite, ApplySequence
  <2> QED BY <1>6, <2>4, <2>5 DEF StoreLate
<1>7. CASE CrashHost
  BY <1>7 DEF CrashHost
<1>8. CASE UNCHANGED hostVars
  BY <1>8 DEF hostVars, manager
<1> QED BY <1>1, <1>2, <1>3, <1>4, <1>5, <1>6, <1>7, <1>8 DEF HostNext

\* The values of the query host's variables stay in their types.
THEOREM HostTypeCorrect == HostSpec => []HostTypeOK
<1>1. HostInit => HostTypeOK
  BY DEF HostInit, HostTypeOK, Task
<1> QED BY <1>1, HostTypeStep, PTL DEF HostSpec

-----------------------------------------------------------------------------
(***************************************************************************)
(* Where the highest number used is to be found while nothing is lost: in  *)
(* the manager, and either in the index or on its way there in the one     *)
(* task that has yet to write (again).                                     *)
(***************************************************************************)

Covers(n) == \A i \in 1..Len(results) : results[i].seq <= n

LatestIsKept ==
  /\ worker = "up" =>
       /\ late = {} /\ Covers(value)
       /\ channel # "seen" => latest = value
       /\ channel = "seen" => Covers(stored)
       /\ latest # 0 => latest = value
  /\ worker = "down" /\ late = {} => Covers(stored)
  /\ worker = "down" => \A t \in late : Covers(t.latest) /\ (t.channel = "seen" => Covers(stored))
  /\ worker = "down" => \A t, u \in late : t = u

Orderly == disorder = {} => LatestIsKept /\ NumbersIncrease

\* One step keeps the numbers in order and the highest of them at hand.
LEMMA OrderlyStep ==
  ASSUME HostTypeOK, Orderly, [HostNext]_hostVars
  PROVE  Orderly'
<1> SUFFICES ASSUME disorder' = {} PROVE LatestIsKept' /\ NumbersIncrease'
  BY DEF Orderly
<1>s. \A i \in 1..Len(results) : results[i].seq \in Nat
  <2> TAKE i \in 1..Len(results)
  <2>1. results[i] \in Result
    BY DEF HostTypeOK
  <2> QED BY <2>1 DEF Result
<1> USE DEF HostTypeOK, Task
<1>0. disorder = {} => LatestIsKept /\ NumbersIncrease
  BY DEF Orderly
<1>1. CASE StartManager
  <2>1. disorder = {} /\ late = {} /\ worker = "down"
    BY <1>1 DEF StartManager
  <2> QED BY <1>0, <1>1, <2>1 DEF StartManager, LatestIsKept, NumbersIncrease, Covers
<1>2. CASE EndWorker
  <2>1. disorder = {} /\ worker = "up" /\ latest # 0
    BY <1>2 DEF EndWorker, DropManager
  <2>2. late' = {[id |-> ends, latest |-> latest, channel |-> channel]} /\ Covers(latest)
    BY <1>0, <1>2, <2>1 DEF EndWorker, DropManager, LatestIsKept, Covers
  <2>3. late' # {} /\ (\A t \in late' : t.latest = latest /\ t.channel = channel) /\ (\A t, u \in late' : t = u)
    BY <2>2
  <2>4. results' = results /\ worker' = "down" /\ latest' = latest /\ stored' = stored
    BY <1>2 DEF EndWorker, DropManager
  <2> QED BY <1>0, <2>1, <2>2, <2>3, <2>4 DEF LatestIsKept, NumbersIncrease, Covers
<1>3. CASE EmitFails
  <2>1. disorder = {} /\ worker = "up"
    BY <1>3 DEF EmitFails, DropManager, Increment
  <2>2. late = {} /\ Covers(value)
    BY <1>0, <2>1 DEF LatestIsKept, Covers
  <2>3. late' = {[id |-> ends, latest |-> value + 1, channel |-> "new"]}
    BY <1>3, <2>2 DEF EmitFails, DropManager
  <2>4. late' # {} /\ (\A t \in late' : t.latest = value + 1 /\ t.channel = "new") /\ (\A t, u \in late' : t = u)
    BY <2>3
  <2>5. results' = results /\ worker' = "down"
    BY <1>3 DEF EmitFails, DropManager
  <2> QED BY <1>0, <1>s, <2>1, <2>2, <2>4, <2>5 DEF LatestIsKept, NumbersIncrease, Covers
<1>4. ASSUME NEW e \in Events, Emit(e)
      PROVE  LatestIsKept' /\ NumbersIncrease'
  <2>1. disorder = {} /\ worker = "up"
    BY <1>4 DEF Emit, Increment
  <2>2. /\ Len(results') = Len(results) + 1
        /\ results'[Len(results) + 1].seq = value + 1
        /\ \A i \in 1..Len(results) : results'[i] = results[i]
    BY <1>4 DEF Emit
  <2>3. \A i \in 1..Len(results) : results[i].seq <= value
    BY <1>0, <2>1 DEF LatestIsKept, Covers
  <2>4. ASSUME NEW i \in 1..Len(results'), NEW j \in 1..Len(results'), i < j
        PROVE  results'[i].seq < results'[j].seq
    <3>1. CASE j = Len(results) + 1
      BY <1>s, <2>2, <2>3, <2>4, <3>1
    <3>2. CASE j # Len(results) + 1
      BY <1>0, <2>1, <2>2, <2>4, <3>2 DEF NumbersIncrease
    <3> QED BY <3>1, <3>2
  <2>5. \A i \in 1..Len(results') : results'[i].seq <= value + 1
    BY <1>s, <2>2, <2>3
  <2>6. worker' = "up" /\ late' = {} /\ value' = value + 1 /\ latest' = value + 1 /\ channel' = "new"
    BY <1>0, <1>4, <2>1 DEF Emit, Increment, LatestIsKept
  <2>7. LatestIsKept'
    BY <2>5, <2>6 DEF LatestIsKept, Covers
  <2> QED BY <2>4, <2>7 DEF NumbersIncrease
<1>5. CASE StoreSequence
  BY <1>0, <1>5 DEF StoreSequence, ApplySequence, LatestIsKept, NumbersIncrease, Covers
<1>6. CASE StoreLate
  <2>1. PICK t \in late, failed \in BOOLEAN : LateWrite(t, failed)
    BY <1>6 DEF StoreLate, LateWrite
  <2>2. disorder = {}
    BY <2>1 DEF LateWrite
  <2>3. worker = "down" /\ late = {t} /\ Covers(t.latest) /\ (t.channel = "seen" => Covers(stored))
    BY <1>0, <2>1, <2>2 DEF LatestIsKept
  <2>4. UNCHANGED <<worker, value, latest, channel, results>>
    BY <1>6 DEF StoreLate
  <2>5. ~failed => stored' = t.latest
    BY <2>1 DEF LateWrite, ApplySequence
  <2>6. failed => stored' = stored
    BY <2>1 DEF LateWrite, ApplySequence
  <2>7. CASE t.channel = "new"
    <3> DEFINE u == [t EXCEPT !.channel = IF failed THEN "failed" ELSE "seen"]
    <3>1. late' = {u}
      BY <2>1, <2>3, <2>7 DEF LateWrite
    <3>2. u.latest = t.latest /\ (u.channel = "seen" => ~failed)
      BY DEF Task
    <3> HIDE DEF u
    <3> QED BY <1>0, <2>2, <2>3, <2>4, <2>5, <3>1, <3>2 DEF LatestIsKept, NumbersIncrease, Covers
  <2>8. CASE t.channel # "new"
    <3>1. late' = {} /\ (failed => t.channel = "seen")
      BY <2>1, <2>3, <2>8 DEF LateWrite, Task
    <3> QED BY <1>0, <2>2, <2>3, <2>4, <2>5, <2>6, <3>1 DEF LatestIsKept, NumbersIncrease, Covers
  <2> QED BY <2>7, <2>8
<1>7. CASE CrashHost
  <2>1. disorder = {} /\ late = {} /\ (worker = "up" => channel = "seen")
    BY <1>7 DEF CrashHost
  <2>2. Covers(stored)
    <3>1. CASE worker = "up"
      BY <1>0, <2>1, <3>1 DEF LatestIsKept, Covers
    <3>2. CASE worker = "down"
      BY <1>0, <2>1, <3>2 DEF LatestIsKept, Covers
    <3> QED BY <3>1, <3>2
  <2>3. results' = results /\ stored' = stored /\ worker' = "down" /\ late' = {}
    BY <1>7 DEF CrashHost
  <2> QED BY <1>0, <2>1, <2>2, <2>3 DEF LatestIsKept, NumbersIncrease, Covers
<1>8. CASE UNCHANGED hostVars
  BY <1>0, <1>8 DEF hostVars, manager, LatestIsKept, NumbersIncrease, Covers
<1> QED BY <1>1, <1>2, <1>3, <1>4, <1>5, <1>6, <1>7, <1>8 DEF HostNext

\* The numbers of the results increase across restarts of the worker as long as
\* no manager ends without a number, no task outlives the start of the next
\* manager or ends with its last number unwritten, and no crash finds a number
\* unwritten.
THEOREM RestartsNumberInOrder == HostSpec => []OrderlyRestartsNumberInOrder
<1>1. HostInit => Orderly
  BY DEF HostInit, Orderly, LatestIsKept, NumbersIncrease, Covers
<1>2. Orderly => OrderlyRestartsNumberInOrder
  BY DEF Orderly, OrderlyRestartsNumberInOrder
<1> QED BY <1>1, <1>2, HostTypeCorrect, OrderlyStep, PTL DEF HostSpec
=============================================================================
