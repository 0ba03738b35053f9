--------------------------- MODULE MC_Reactivator ---------------------------
(***************************************************************************)
(* Reactivator for TLC: two kinds, so that two monitors compete for the    *)
(* channel; one kind has two objects, so that a list can be interrupted;   *)
(* the other's object has an owner.                                        *)
(***************************************************************************)
EXTENDS Reactivator, TLC

CONSTANTS pod, set1, set2, Pods, Sets

MCKindOf == pod :> Pods @@ set1 :> Sets @@ set2 :> Sets
AllFaults == FaultKinds
=============================================================================
