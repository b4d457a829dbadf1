--------------------------- MODULE MCRouteChoice ---------------------------
(* Three nodes, three features, and weights on both sides of the average   *)
(* and of SKEW_THRES, which is 3/2 here so that the band between 1 and it  *)
(* is met.                                                                 *)
EXTENDS RouteChoice

SomeWeights == {0, 1, 3, 4, 7}
=============================================================================
