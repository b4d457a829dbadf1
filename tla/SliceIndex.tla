----------------------------- MODULE SliceIndex -----------------------------
(***************************************************************************)
(* What the feature index of a storage node promises, without containers,  *)
(* locks, slots or pointers: every stored feature belongs to one slice for *)
(* ever, a slice has at most GP_SIZE features, and a query that hits often *)
(* enough is answered with the slice in which most of its features were    *)
(* found.  FeatureIndex implements this specification.                     *)
(***************************************************************************)
EXTENDS Naturals, Sequences, FiniteSets

CONSTANTS Conns, Features, Batches, Slices, GP_SIZE, HIT_THRES, None

VARIABLES
  sliceOf,  \* the slice of each stored feature, None for the others
  phase,    \* of each connection's query: "none", "asked" or "answered"
  asked,    \* the queried features
  promised, \* matches the client knows of already
  found,    \* the slices of the features looked up so far
  reply     \* the answer: the slice, and the features of it that are sent

vars == <<sliceOf, phase, asked, promised, found, reply>>

NoAnswer == [from |-> None, features |-> {}]
Members(k) == {f \in Features : sliceOf[f] = k}
Matched(c, k) == {i \in DOMAIN found[c] : found[c][i] = k}
Hits(c) == {i \in DOMAIN found[c] : found[c][i] # None}

Init ==
  /\ sliceOf = [f \in Features |-> None]
  /\ phase = [c \in Conns |-> "none"]
  /\ asked = [c \in Conns |-> <<>>]
  /\ promised = [c \in Conns |-> 0]
  /\ found = [c \in Conns |-> <<>>]
  /\ reply = [c \in Conns |-> NoAnswer]

Store(f, k) ==
  /\ sliceOf[f] = None
  /\ Cardinality(Members(k)) < GP_SIZE
  /\ sliceOf' = [sliceOf EXCEPT ![f] = k]
  /\ UNCHANGED <<phase, asked, promised, found, reply>>

Ask(c) ==
  /\ phase[c] = "none"
  /\ phase' = [phase EXCEPT ![c] = "asked"]
  /\ \E b \in Batches, h \in 0 .. HIT_THRES :
       /\ asked' = [asked EXCEPT ![c] = b]
       /\ promised' = [promised EXCEPT ![c] = h]
  /\ UNCHANGED <<sliceOf, found, reply>>

Look(c) ==
  /\ phase[c] = "asked"
  /\ Len(found[c]) < Len(asked[c])
  /\ found' = [found EXCEPT ![c] = Append(@, sliceOf[asked[c][Len(@) + 1]])]
  /\ UNCHANGED <<sliceOf, phase, asked, promised, reply>>

Answer(c) ==
  /\ phase[c] = "asked"
  /\ Len(found[c]) = Len(asked[c])
  /\ phase' = [phase EXCEPT ![c] = "answered"]
  /\ IF Cardinality(Hits(c)) + promised[c] > HIT_THRES
       THEN \E k \in Slices, sent \in SUBSET Features :
              /\ \A i \in Hits(c) :
                   Cardinality(Matched(c, found[c][i])) <= Cardinality(Matched(c, k))
              /\ {asked[c][i] : i \in Matched(c, k)} \subseteq sent
              /\ sent \subseteq Members(k)
              /\ reply' = [reply EXCEPT ![c] = [from |-> k, features |-> sent]]
       ELSE UNCHANGED reply
  /\ UNCHANGED <<sliceOf, asked, promised, found>>

Deliver(c) ==
  /\ phase[c] = "answered"
  /\ phase' = [phase EXCEPT ![c] = "none"]
  /\ asked' = [asked EXCEPT ![c] = <<>>]
  /\ promised' = [promised EXCEPT ![c] = 0]
  /\ found' = [found EXCEPT ![c] = <<>>]
  /\ reply' = [reply EXCEPT ![c] = NoAnswer]
  /\ UNCHANGED sliceOf

Next ==
  \/ \E f \in Features, k \in Slices : Store(f, k)
  \/ \E c \in Conns : Ask(c) \/ Look(c) \/ Answer(c) \/ Deliver(c)

Spec == Init /\ [][Next]_vars
=============================================================================
