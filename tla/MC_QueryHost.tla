---------------------------- MODULE MC_QueryHost ----------------------------
(***************************************************************************)
(* QueryHost for TLC.  A worker slot is needed for every worker that is    *)
(* still stopping plus one; a lifecycle slot for every activation that     *)
(* left a worker behind plus one.                                          *)
(***************************************************************************)
EXTENDS QueryHost, TLC

CONSTANTS w1, w2, l1, l2

MCWorkers == {w1, w2}
MCLifecycles == {l1, l2}

\* Slots are interchangeable: only used for invariants.
Slots == Permutations(MCWorkers) \cup Permutations(MCLifecycles)

AllFaults == FaultKinds

\* A permanent query on a persistent index, and a transient one in memory.
Permanent == [volatile |-> FALSE, transient |-> FALSE]
Temporary == [volatile |-> TRUE, transient |-> TRUE]
BothProfiles == {Permanent, Temporary}
PermanentOnly == {Permanent}
=============================================================================
