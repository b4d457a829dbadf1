----------------------------- MODULE NodeChoice -----------------------------
(***************************************************************************)
(* What the routing methods of client/route.c share beside                 *)
(* find_weighted_best: the nodes that are considered, in the order of      *)
(* dst_id, and what they ask of a node's cache (FeatureCache).             *)
(***************************************************************************)
EXTENDS Routing, FeatureCache, Sequences, SequencesExt

(* k_gp_route and k_force_route: the nodes the features point to, each once. *)
AddressedNodes(homes) ==
  LET dst[i \in 0 .. Len(homes)] ==
        IF i = 0 THEN <<>>
        ELSE IF Contains(dst[i - 1], homes[i]) THEN dst[i - 1]
        ELSE Append(dst[i - 1], homes[i])
  IN  dst[Len(homes)]

Position(dst, t) == t                    \* fault: a position, not a node
NodeAt(dst, t) == dst[t + 1]             \* return dst_id[target]

(* find_weighted_best on the nodes considered, by their positions.          *)
BestAmong(dst, hit, weight, maxHit) ==
  LET positions == 0 .. Len(dst) - 1
  IN  {NodeAt(dst, t) : t \in
         WeightedBest([j \in positions |-> hit[dst[j + 1]]],
                      [j \in positions |-> weight[dst[j + 1]]], maxHit)}

(* use_lcache: the features of the segment that a node's cache holds.       *)
CacheHits(recent, feature) ==
  Cardinality({i \in DOMAIN feature : Contains(recent, feature[i])})
=============================================================================
