-------------------------- MODULE MC_ChangeRouting --------------------------
(***************************************************************************)
(* ChangeRouting for TLC: two queries on two nodes, one of which asks for  *)
(* both labels and the other for one of them; elements have both labels.   *)
(***************************************************************************)
EXTENDS ChangeRouting, TLC

CONSTANTS q1, q2, c1, c2, la, lb

MCNodeOf == q1 :> c1 @@ q2 :> c2
MCLabelsOf == q1 :> {la, lb} @@ q2 :> {la}
MCChangeLabels == {{la, lb}}
AllFaults == FaultKinds
=============================================================================
