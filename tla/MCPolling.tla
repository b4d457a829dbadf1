----------------------------- MODULE MCPolling -----------------------------
(* An instance of Polling for TLC: the four builds, segments that share   *)
(* more features than LC_HIT_THRES and one that displaces them from the    *)
(* cache.  The candidates of SIGMA are node 1, nodes 1 and 0, and node 0.  *)
EXTENDS Polling, TLC

CONSTANTS f1, f2, f3

AllBuilds == {[route |-> "BOAFFT", ssdedup |-> FALSE],
              [route |-> "BOAFFT", ssdedup |-> TRUE],
              [route |-> "SIGMA", ssdedup |-> FALSE],
              [route |-> "STATELESS", ssdedup |-> FALSE]}
Homes == (f1 :> 1) @@ (f2 :> 1) @@ (f3 :> 0)
Sharing == {<<f1, f2>>, <<f1, f2, f3>>, <<f3>>}
=============================================================================
