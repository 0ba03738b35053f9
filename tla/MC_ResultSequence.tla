-------------------------- MODULE MC_ResultSequence --------------------------
(***************************************************************************)
(* ResultSequence for TLC.  The numbers do not depend on what the results  *)
(* hold, so the set of keys is empty.                                      *)
(***************************************************************************)
EXTENDS ResultSequence

NoKeys == {}
NoContent == {[keys |-> {}, removed |-> {}, keyless |-> FALSE]}
==============================================================================
