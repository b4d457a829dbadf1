------------------------------ MODULE Routing ------------------------------
(***************************************************************************)
(* How a client chooses among the nodes it considers, given how many       *)
(* features of a segment each of them matches (score) and how much each    *)
(* stores (weight): find_weighted_best of client/route.c and the three     *)
(* rules it tries in turn.                                                 *)
(*                                                                         *)
(* The nodes are 0 .. n-1.  Each rule scans them from a random start and   *)
(* keeps the first best, so its result is a function of the start.  The    *)
(* code divides doubles where exact fractions are compared here.           *)
(***************************************************************************)
EXTENDS Integers, FiniteSets

CONSTANTS SkewNum, SkewDen   \* SKEW_THRES, the fraction SkewNum / SkewDen

ASSUME SkewAssumption == SkewNum \in Nat \ {0} /\ SkewDen \in Nat \ {0}

NoNode == -1
Size(weight) == Cardinality(DOMAIN weight)

(* total_weight after each turn of the loop that adds up the weights.      *)
Sums(weight) ==
  LET sum[i \in 0 .. Size(weight)] == IF i = 0 THEN 0 ELSE sum[i - 1] + weight[i - 1]
  IN  sum
Total(weight) == Sums(weight)[Size(weight)]

(* The node of S that a scan of all n nodes from start reaches first.      *)
FirstFrom(start, n, S) ==
  CHOOSE k \in S : \A m \in S : (k + n - start) % n <= (m + n - start) % n

-----------------------------------------------------------------------------
(* find_all_matched: a node that matches every feature.                    *)
Matched(score, maxHit) == {k \in DOMAIN score : score[k] = maxHit}

AllMatched(score, maxHit, start) ==
  LET full == Matched(score, maxHit)
  IN  IF full = {} THEN NoNode ELSE FirstFrom(start, Size(score), full)

-----------------------------------------------------------------------------
(* find_load_weighted: the highest score, divided by the load where that   *)
(* is above 1, among the nodes whose load is below SKEW_THRES.  The load   *)
(* is the weight relative to the average; while nothing is stored it is    *)
(* not a number, and neither above 1 nor below SKEW_THRES.                 *)

WeightedScore(score, weight, k) ==
  IF weight[k] * Size(weight) > Total(weight)
    THEN <<score[k] * Total(weight), weight[k] * Size(weight)>>
    ELSE <<score[k], 1>>

Greater(p, q) == p[1] * q[2] > q[1] * p[2]

BelowSkew(weight, k) ==
  /\ Total(weight) > 0
  /\ SkewDen * weight[k] * Size(weight) < SkewNum * Total(weight)

(* The nodes that pass the test load[i] < SKEW_THRES in a scan from start.   *)
(* i runs on past the last node instead of returning to the first one, so   *)
(* that for the nodes before start the test reads whatever follows the n    *)
(* loads that were computed (route.c:62).                                   *)
PassLoadTest(weight, start) ==
  {{k \in DOMAIN weight : k >= start /\ BelowSkew(weight, k)} \cup beyond :
     beyond \in SUBSET (0 .. start - 1)}

BestOf(score, weight, start, passed) ==
  LET hit == {k \in passed : score[k] > 0}
      best == {k \in hit : \A m \in hit :
                 ~Greater(WeightedScore(score, weight, m), WeightedScore(score, weight, k))}
  IN  IF best = {} THEN NoNode ELSE FirstFrom(start, Size(score), best)

LoadWeighted(score, weight, start) ==
  {BestOf(score, weight, start, passed) : passed \in PassLoadTest(weight, start)}

-----------------------------------------------------------------------------
(* find_min_loaded: a node that stores least.                              *)
Lightest(weight) ==
  {k \in DOMAIN weight : \A m \in DOMAIN weight : weight[k] <= weight[m]}

MinLoaded(weight, start) == FirstFrom(start, Size(weight), Lightest(weight))

-----------------------------------------------------------------------------
LoadFirst(score, weight, maxHit) ==            \* fault: full matches not tried
  UNION {LoadWeighted(score, weight, s) : s \in DOMAIN score} \ {NoNode}

(* What find_weighted_best may return, its calls of rand() being arbitrary. *)
WeightedBest(score, weight, maxHit) ==
  LET starts == DOMAIN score
      matched == {AllMatched(score, maxHit, s) : s \in starts}
      weighted == UNION {LoadWeighted(score, weight, s) : s \in starts}
      lightest == {MinLoaded(weight, s) : s \in starts}
  IN  IF NoNode \notin matched THEN matched
      ELSE (weighted \ {NoNode}) \cup (IF NoNode \in weighted THEN lightest ELSE {})
=============================================================================
