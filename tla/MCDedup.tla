------------------------------- MODULE MCDedup -------------------------------
(* An instance of Dedup for TLC: segments that overlap, one of which holds *)
(* a chunk twice; x and y share a sub-table.                               *)
EXTENDS Dedup, TLC

CONSTANTS x, y, z, c1, c2, c3

TwoSubs == (x :> 0) @@ (y :> 0) @@ (z :> 1)
TwoSegments == {<<x, z, x>>, <<z, y>>}
=============================================================================
