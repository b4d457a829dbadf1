---------------------------- MODULE FeatureCache ----------------------------
(***************************************************************************)
(* The cache of the features sent to a node, as a sequence with the one    *)
(* used last at the end: what LruSet promises, what LruCache implements    *)
(* with a list, a table and memory, and what the routing methods of        *)
(* Guidepost and Polling rely on.                                          *)
(***************************************************************************)
EXTENDS Naturals, Sequences

(* The elements of s other than e, in their order.                          *)
Without(s, e) ==
  LET rest[i \in 0 .. Len(s)] ==
        IF i = 0 THEN <<>>
        ELSE IF s[i] = e THEN rest[i - 1]
        ELSE Append(rest[i - 1], s[i])
  IN  rest[Len(s)]

Piled(recent, f, size) ==                \* fault: nothing is displaced
  Append(Without(recent, f), f)

(* update_lcache on one feature: it becomes the one used last, and one that *)
(* is new displaces the first of a full cache.                              *)
Entered(recent, f, size) ==
  LET others == Without(recent, f)
  IN  Append(IF Len(others) = size THEN Tail(others) ELSE others, f)

EnteredAll(recent, feature, size) ==
  LET after[i \in 0 .. Len(feature)] ==
        IF i = 0 THEN recent ELSE Entered(after[i - 1], feature[i], size)
  IN  after[Len(feature)]
=============================================================================
