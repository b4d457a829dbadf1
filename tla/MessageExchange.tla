-------------------------- MODULE MessageExchange --------------------------
(***************************************************************************)
(* What a connection between a client (or shutdown program) and a node is  *)
(* for: the client's messages are handled in the order it sends them, each *)
(* whole and once; where it waits for a reply, it gets the reply to that   *)
(* very message and nothing else.  Only if the node is gone may it go on   *)
(* without, with whatever its buffer held.                                 *)
(***************************************************************************)
EXTENDS Naturals, Sequences

CONSTANT None

VARIABLES
  script,   \* the messages, each with its answer (None: it has no reply)
  asked,    \* how many the client has sent
  handled,  \* the numbers of those the node has handled
  taken,    \* what the client took for the replies: [of, is]
  broken    \* is the node gone

vars == <<script, asked, handled, taken, broken>>

Waiting ==
  /\ asked > 0
  /\ script[asked].answer # None
  /\ \A i \in DOMAIN taken : taken[i].of # asked

Init ==
  /\ asked = 0
  /\ handled = <<>>
  /\ taken = <<>>
  /\ broken = FALSE

Ask ==
  /\ ~Waiting
  /\ asked < Len(script)
  /\ asked' = asked + 1
  /\ UNCHANGED <<script, handled, taken, broken>>

Handle ==
  /\ ~broken
  /\ Len(handled) < asked
  /\ handled' = Append(handled, Len(handled) + 1)
  /\ UNCHANGED <<script, asked, taken, broken>>

Take ==
  /\ Waiting
  /\ Len(handled) = asked
  /\ taken' = Append(taken, [of |-> asked, is |-> "reply"])
  /\ UNCHANGED <<script, asked, handled, broken>>

GoOnWithout ==
  /\ Waiting
  /\ broken
  /\ taken' = Append(taken, [of |-> asked, is |-> "nothing"])
  /\ UNCHANGED <<script, asked, handled, broken>>

Break ==
  /\ ~broken
  /\ broken' = TRUE
  /\ UNCHANGED <<script, asked, handled, taken>>

Next == Ask \/ Handle \/ Take \/ GoOnWithout \/ Break

Spec == Init /\ [][Next]_vars
=============================================================================
