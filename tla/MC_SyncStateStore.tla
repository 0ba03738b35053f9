-------------------------- MODULE MC_SyncStateStore --------------------------
(***************************************************************************)
(* SyncStateStore for TLC: two keys, so that one event can supersede       *)
(* another on one key and not on the other.  An event saves both keys,     *)
(* removes k1, or writes k2 with a row that lacks the key field.  (One     *)
(* that holds nothing is answered at once, like one below the sync point.) *)
(***************************************************************************)
EXTENDS SyncStateStore

CONSTANTS k1, k2
TwoKeys == {k1, k2}
Touching(keys, removed) == [keys |-> keys, removed |-> removed, keyless |-> FALSE]
SomeEvents == {Touching({k1}, {k1}), Touching({k1, k2}, {}),
               [keys |-> {k2}, removed |-> {}, keyless |-> TRUE]}
=============================================================================
