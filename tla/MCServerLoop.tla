---------------------------- MODULE MCServerLoop ----------------------------
(* Instances of ServerLoop for TLC: client connections, a shutdown program  *)
(* with its two rounds, and a second shutdown program.                      *)
EXTENDS ServerLoop, TLC

CONSTANTS seg, fea, stop1, stop2, other1, other2, w1, w2

PartsOf == (seg :> <<"segment", "rest">>) @@ (fea :> <<"feature", "rest", "eof">>)
           @@ (stop1 :> <<"shutdown">>) @@ (stop2 :> <<"shutdown">>)
           @@ (other1 :> <<"shutdown">>) @@ (other2 :> <<"shutdown">>)
Scripts == [c \in Conns |-> PartsOf[c]]

(* A client that goes on to its next file.                                 *)
TwoFiles == [Scripts EXCEPT ![fea] = @ \o <<"feature", "rest">>]

(* A second round follows its first.                                       *)
Rounds == [c \in Conns |->
  IF c = stop2 THEN {stop1} ELSE IF c = other2 THEN {other1} ELSE {}]

(* The shutdown program is started when the client is done.                *)
ClientFirst == [c \in Conns |->
  IF c = stop2 THEN {stop1} ELSE IF c = stop1 THEN {seg} ELSE {}]

Symmetry == Permutations(Workers)
=============================================================================
