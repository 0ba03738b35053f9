--------------------------- MODULE ResultSequence ---------------------------
(***************************************************************************)
(* The sequence numbers of a query's results: SequenceManager and its      *)
(* users in query_worker.rs, on a persistent result index.                 *)
(*                                                                         *)
(* A manager starts from the number in the index and counts in memory.  It *)
(* hands every number to a spawned task through a watch channel; the task  *)
(* writes the latest one to the index when it gets to run, and once more   *)
(* when the manager is dropped; a write that fails is only logged.  A      *)
(* worker that ends leaves its task running, possibly next to the manager  *)
(* of the worker that replaces it.                                         *)
(***************************************************************************)
EXTENDS Integers, Sequences, FiniteSets

CONSTANTS
  Keys,        \* keys of the query's result set
  Events,      \* what a result may hold: the keys it touches, of these the removed, and
               \* whether a row of it lacks the field that the reaction takes for the key
  MaxResults,  \* bound: results published
  MaxEnds,     \* bound: workers that end while the process lives
  MaxCrashes,  \* bound: crashes of the query-host process
  MaxMisses    \* bound: writes of a number to the index that fail

Event == [keys : SUBSET Keys, removed : SUBSET Keys, keyless : BOOLEAN]

ASSUME SequenceAssumption ==
  /\ Events \subseteq Event
  /\ MaxResults \in Nat /\ MaxEnds \in Nat /\ MaxCrashes \in Nat /\ MaxMisses \in Nat

\* "overlap": a worker starts while the task of an earlier one has yet to write;
\* "idle": a worker ends that numbered no result; "crash": a number unwritten;
\* "failure": a task ends whose number it could not write.
VARIABLES
  worker,   \* "down", or "up": there is a worker, and so a SequenceManager
  value,    \* SequenceManager.value
  latest,   \* the value in the watch channel
  channel,  \* "new" if the task has not seen that value; "seen" if it has, and has
            \* written it; "failed" if its write failed
  late,     \* tasks of dropped managers: what each still has to write
  stored,   \* the sequence number in the result index
  results,  \* the results topic: the number and the content of every event
  disorder, \* history: how a number may have been lost or overwritten in the index
  ends, crashes, misses

manager == <<worker, value, latest, channel, late, stored>>
hostVars == <<manager, results, disorder, ends, crashes, misses>>

HostInit ==
  /\ worker = "down" /\ value = 0 /\ latest = 0 /\ channel = "seen" /\ late = {}
  /\ stored = 0 /\ results = <<>> /\ disorder = {} /\ ends = 0 /\ crashes = 0
  /\ misses = 0

\* SequenceManager::new; the channel starts with ResultSequence::default().
StartManager ==
  /\ worker = "down" /\ worker' = "up"
  /\ value' = stored /\ latest' = 0 /\ channel' = "seen"
  /\ disorder' = IF late = {} THEN disorder ELSE disorder \cup {"overlap"}
  /\ UNCHANGED <<late, stored, results, ends, crashes, misses>>

\* Mutant of Increment: the number before goes to the channel.
IncrementSendsPrevious ==
  /\ worker = "up"
  /\ value' = value + 1 /\ latest' = value /\ channel' = "new"

\* increment: the next number goes to the channel.
Increment ==
  /\ worker = "up"
  /\ value' = value + 1 /\ latest' = value + 1 /\ channel' = "new"

\* process_change and bootstrap: number a result and publish it.  A result that
\* touches no key stands for a control signal and for an empty bootstrap result.
Emit(e) ==
  /\ Len(results) < MaxResults /\ Increment
  /\ results' = Append(results, [seq |-> value + 1, keys |-> e.keys, removed |-> e.removed, keyless |-> e.keyless])
  /\ UNCHANGED <<worker, late, stored, disorder, ends, crashes, misses>>

\* The worker ends and drops its manager, whose task has yet to write; its
\* "id" tells the tasks apart.
DropManager(last, state) ==
  /\ worker' = "down"
  /\ late' = late \cup {[id |-> ends, latest |-> last, channel |-> state]}
  /\ disorder' = IF last # 0 THEN disorder ELSE disorder \cup {"idle"}
  /\ ends' = ends + 1

\* A worker that ends between two results: shutdown, after the Stopped signal,
\* or an error.  It has numbered nothing if RedisChangeStream::new failed.
EndWorker ==
  /\ worker = "up" /\ ends < MaxEnds /\ DropManager(latest, channel)
  /\ UNCHANGED <<value, latest, channel, stored, results, crashes, misses>>

\* The request that publishes a numbered result fails, and the worker ends.
EmitFails ==
  /\ ends < MaxEnds /\ Increment /\ DropManager(value + 1, "new")
  /\ UNCHANGED <<stored, results, crashes, misses>>

\* apply_sequence(n): the number is in the index, or an error is logged.
ApplySequence(n, failed) ==
  \/ ~failed /\ stored' = n /\ UNCHANGED misses
  \/ failed /\ misses < MaxMisses /\ misses' = misses + 1 /\ UNCHANGED stored

\* The task sees a change of the channel and applies the latest number.
StoreSequence ==
  /\ worker = "up" /\ channel = "new"
  /\ \E failed \in BOOLEAN :
       ApplySequence(latest, failed) /\ channel' = IF failed THEN "failed" ELSE "seen"
  /\ UNCHANGED <<worker, value, latest, late, results, disorder, ends, crashes>>

\* Mutant of StoreLate: the task of a dropped manager stops without writing.
StoreNothingLate ==
  \E t \in late :
    /\ late' = late \ {t}
    /\ UNCHANGED <<worker, value, latest, channel, stored, results, disorder, ends, crashes, misses>>

\* The task of a dropped manager: changed() reports a value it has not seen,
\* then the closed channel; the task writes each time, and ends.
StoreLate ==
  \E t \in late, failed \in BOOLEAN :
    /\ ApplySequence(t.latest, failed)
    /\ \/ /\ t.channel = "new" /\ UNCHANGED disorder
          /\ late' = (late \ {t}) \cup {[t EXCEPT !.channel = IF failed THEN "failed" ELSE "seen"]}
       \/ /\ t.channel # "new" /\ late' = late \ {t}
          /\ disorder' = IF failed /\ t.channel = "failed" THEN disorder \cup {"failure"} ELSE disorder
    /\ UNCHANGED <<worker, value, latest, channel, results, ends, crashes>>

\* The process dies, and its tasks with it.
CrashHost ==
  /\ worker = "up" \/ late # {}
  /\ crashes < MaxCrashes
  /\ crashes' = crashes + 1 /\ worker' = "down" /\ late' = {}
  /\ disorder' = IF late = {} /\ (worker = "up" => channel = "seen") THEN disorder ELSE disorder \cup {"crash"}
  /\ UNCHANGED <<value, latest, channel, stored, results, ends, misses>>

HostNext ==
  \/ StartManager \/ EndWorker \/ EmitFails
  \/ \E e \in Events : Emit(e)
  \/ StoreSequence \/ StoreLate \/ CrashHost

HostSpec == HostInit /\ [][HostNext]_hostVars

-----------------------------------------------------------------------------
(***************************************************************************)
(* Properties.                                                             *)
(***************************************************************************)

\* Every result carries a higher number than the ones before it.
NumbersIncrease ==
  \A i, j \in 1..Len(results) : i < j => results[i].seq < results[j].seq

\* Worker restarts number results in order as long as each manager has handed
\* out a number before it ends, its task has ended before the next manager
\* starts, one of the task's writes of its last number has succeeded, and a crash
\* finds nothing unwritten.  A failed write that a later one makes up for is harmless.
OrderlyRestartsNumberInOrder == disorder = {} => NumbersIncrease

Result == [seq : Nat, keys : SUBSET Keys, removed : SUBSET Keys, keyless : BOOLEAN]
Task == [id : Nat, latest : Nat, channel : {"seen", "new", "failed"}]

\* Every variable of the query host holds a value the code can give it.
HostTypeOK ==
  /\ (worker = "up" => latest \in {0, value})
  /\ worker \in {"up", "down"} /\ value \in Nat /\ latest \in Nat /\ channel \in {"seen", "new", "failed"}
  /\ late \subseteq Task /\ stored \in Nat
  /\ results \in Seq(Result)
  /\ disorder \subseteq {"overlap", "idle", "crash", "failure"}
  /\ ends \in Nat /\ crashes \in Nat /\ misses \in Nat
=============================================================================
