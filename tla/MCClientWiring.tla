--------------------------- MODULE MCClientWiring ---------------------------
(* Two clients of one node, for TLC.  The second one is routed by its own   *)
(* guideposts and sends no queries.                                         *)
EXTENDS ClientWiring, TLC

CONSTANTS a, b, sa, sb, fa, fb, f1, f2, t1, k1, k2, k3

SegFds == (a :> sa) @@ (b :> sb)
FeaFds == (a :> fa) @@ (b :> fb)
OneSub == [f \in Features |-> t1]
OneBatch == {<<f1, f2>>}
Uploads == [c \in Conns |-> ClientCarries[c] \ (IF c = fb THEN {"feature"} ELSE {})]
=============================================================================
