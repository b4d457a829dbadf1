------------------------------- MODULE LruSet -------------------------------
(***************************************************************************)
(* What a client's cache of the features it sent to a node promises: it    *)
(* holds the Size different features that were used last, whatever lists   *)
(* of features it is given to use.  LruCache implements it.                *)
(***************************************************************************)
EXTENDS FeatureCache

CONSTANTS Features, Size

VARIABLES
  recent,  \* the features held, the one used last at the end
  asked    \* those still to be used

vars == <<recent, asked>>

Init == recent = <<>> /\ asked = <<>>

Ask ==
  /\ asked = <<>>
  /\ asked' \in Seq(Features)
  /\ UNCHANGED recent

Use ==
  /\ asked # <<>>
  /\ recent' = Entered(recent, Head(asked), Size)
  /\ asked' = Tail(asked)

Forget == recent' = <<>> /\ UNCHANGED asked

Next == Ask \/ Use \/ Forget

Spec == Init /\ [][Next]_vars
=============================================================================
