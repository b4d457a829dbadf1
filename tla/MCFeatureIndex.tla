--------------------------- MODULE MCFeatureIndex ---------------------------
(* An instance of FeatureIndex for TLC.                                    *)
EXTENDS FeatureIndex, TLC

CONSTANTS c1, c2, f1, f2, f3, t1, t2, k1, k2, k3

(* Two connections that carry everything; f1 and f2 share a sub-table.     *)
AllKinds == [c \in Conns |-> {"segment", "feature", "eof"}]
TwoSubs == (f1 :> t1) @@ (f2 :> t1) @@ (f3 :> t2)

(* Overlapping lists, and a repeated feature that outvotes another one.    *)
SomeBatches == {<<f1, f2>>, <<f2, f3>>, <<f1, f3, f3>>}

Symmetry == Permutations(Containers) \cup Permutations(Conns)
=============================================================================
