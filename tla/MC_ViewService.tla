--------------------------- MODULE MC_ViewService ---------------------------
(***************************************************************************)
(* ViewService for TLC: a result that is added, changed in place (the      *)
(* update of a group), replaced by another one, and removed.               *)
(***************************************************************************)
EXTENDS ViewService

CONSTANTS k1, k2
TwoKeys == {k1, k2}
P(k) == [key |-> k, put |-> TRUE]
C(k) == [key |-> k, put |-> FALSE]
SomeChanges == {<<P(k1)>>, <<C(k1), P(k1)>>, <<C(k1), P(k2)>>}
=============================================================================
