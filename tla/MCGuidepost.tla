---------------------------- MODULE MCGuidepost ----------------------------
(* An instance of Guidepost for TLC: two nodes and, per build, segments     *)
(* that share a feature, or do not.                                         *)
EXTENDS Guidepost, TLC

CONSTANTS f1, f2, f3

SegmentsOf == [plain   |-> {<<f1, f2>>, <<f2, f3>>},
               ssdedup |-> {<<f1, f2>>, <<f3>>},
               sigma   |-> {<<f1, f2>>, <<f2, f3, f1>>}]

SlicesOf == [plain |-> 2, ssdedup |-> 1, sigma |-> 2]
ChunksOf == [plain |-> 1, ssdedup |-> 1, sigma |-> 0]

Homes == (f1 :> 1) @@ (f2 :> 1) @@ (f3 :> 0)

AllBuilds == DOMAIN SegmentsOf
=============================================================================
