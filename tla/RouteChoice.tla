---------------------------- MODULE RouteChoice ----------------------------
(***************************************************************************)
(* One call of find_weighted_best, for every input within the bounds: what *)
(* its three rules promise together.                                       *)
(***************************************************************************)
EXTENDS Routing

CONSTANTS NodeNum,    \* nodes considered
          MaxHit,     \* features of the segment
          Weights     \* what a node may store

VARIABLES score, weight, choice

vars == <<score, weight, choice>>
Nodes == 0 .. NodeNum - 1

Init ==
  /\ score \in [Nodes -> 0 .. MaxHit]
  /\ weight \in [Nodes -> Weights]
  /\ choice = NoNode

Choose ==
  /\ choice = NoNode
  /\ choice' \in WeightedBest(score, weight, MaxHit)
  /\ UNCHANGED <<score, weight>>

Spec == Init /\ [][Choose]_vars

-----------------------------------------------------------------------------
Chosen == choice # NoNode

(* SKEW_THRES is "the upper limit of acceptable Data Skew" (README.md:29):  *)
(* a node that neither matches everything nor stores least is below it.     *)
SkewRespected ==
  Chosen => \/ score[choice] = MaxHit
            \/ \A k \in Nodes : weight[choice] <= weight[k]
            \/ BelowSkew(weight, choice)
=============================================================================
