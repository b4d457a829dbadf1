-------------------------- MODULE NodeChoiceProofs --------------------------
(***************************************************************************)
(* Lemmas about the operators that the routing methods share: what         *)
(* find_weighted_best returns for any number of nodes, any scores and any  *)
(* loads, whatever its calls of rand() return and whatever it reads behind *)
(* the loads it computed; which nodes are considered; what a cache holds   *)
(* when features were entered.                                             *)
(*                                                                         *)
(* A scan returns an element of the set it looks for (FirstFromInSet),     *)
(* which needs a smallest distance; the total of the loads is a number;    *)
(* and among fractions with positive denominators one is greatest, so that *)
(* find_load_weighted gives up only if it saw no node with a match.        *)
(*                                                                         *)
(* What a loop computes is a function over the number of its turns.  That  *)
(* there is one that does what the loop says is RecursiveFunction; what it *)
(* computes follows by induction on the turns, for which a set of numbers  *)
(* stands for the property (UpTo).                                         *)
(***************************************************************************)
EXTENDS NodeChoice, FiniteSetTheorems, SequenceTheorems, WellFoundedInduction, TLAPS

(* A nonempty set of numbers has a smallest element.                       *)
LEMMA Smallest ==
  ASSUME NEW T, T \subseteq Nat, T # {}
  PROVE  \E x \in T : \A y \in T : x <= y
<1> DEFINE R == {p \in Nat \X Nat : p[1] < p[2]}
<1>0. IsWellFoundedOn(R, Nat)
  BY NatLessThanWellFounded, Zenon DEF OpToRel
<1>1. PICK x \in T : \A y \in T : <<y, x>> \notin R
  <2> HIDE DEF R
  <2> QED BY WFMin, <1>0
<1>2. ASSUME NEW y \in T PROVE x <= y
  <2>1. <<y, x>> \notin R
    BY <1>1
  <2>2. x \in Nat /\ y \in Nat
    OBVIOUS
  <2>3. ~(y < x)
    BY <2>1, <2>2
  <2> QED BY <2>2, <2>3
<1> QED BY <1>2

(* Induction over the turns of a loop.                                     *)
LEMMA UpTo ==
  ASSUME NEW n \in Nat, NEW G, 0 \in G, \A i \in 1 .. n : i - 1 \in G => i \in G
  PROVE  \A i \in 0 .. n : i \in G
<1> DEFINE Bad == (0 .. n) \ G
<1> SUFFICES ASSUME Bad # {} PROVE FALSE
  OBVIOUS
<1>1. PICK j \in Bad : \A i \in Bad : j <= i
  <2>1. Bad \subseteq Nat
    OBVIOUS
  <2> HIDE DEF Bad
  <2> QED BY <2>1, Smallest
<1>2. j \in 1 .. n /\ j \notin G
  OBVIOUS
<1>3. j - 1 \in 0 .. n /\ ~(j <= j - 1)
  BY <1>2
<1>4. j - 1 \in G
  BY <1>1, <1>3
<1> QED BY <1>2, <1>4

(* f is what a loop of n turns over i computes that starts with base and    *)
(* makes g[i][t] of t.                                                     *)
Loop(f, n, T, base, g) ==
  /\ f \in [0 .. n -> T]
  /\ f[0] = base /\ \A i \in 1 .. n : f[i] = g[i][f[i - 1]]

(* A loop that makes a value of T from one computes one.                   *)
LEMMA RecursiveFunction ==
  ASSUME NEW n \in Nat, NEW T, NEW base \in T, NEW g \in [1 .. n -> [T -> T]]
  PROVE  \E f : Loop(f, n, T, base, g)
<1> DEFINE Good(j, f) == f[0] = base /\ \A i \in 1 .. j : f[i] = g[i][f[i - 1]]
           G == {j \in 0 .. n : \E f \in [0 .. j -> T] : Good(j, f)}
<1>1. 0 \in G
  <2> DEFINE f == [i \in 0 .. 0 |-> base]
  <2>1. f \in [0 .. 0 -> T] /\ Good(0, f)
    OBVIOUS
  <2>2. 0 \in 0 .. n
    OBVIOUS
  <2> HIDE DEF f, Good
  <2> QED BY <2>1, <2>2
<1>2. ASSUME NEW j \in 1 .. n, j - 1 \in G PROVE j \in G
  <2>1. PICK f \in [0 .. j - 1 -> T] : Good(j - 1, f)
    BY <1>2
  <2>2. f[j - 1] \in T /\ g[j] \in [T -> T]
    OBVIOUS
  <2> DEFINE h == [i \in 0 .. j |-> IF i = j THEN g[j][f[j - 1]] ELSE f[i]]
  <2>3. h \in [0 .. j -> T]
    <3>1. g[j][f[j - 1]] \in T
      BY <2>2
    <3>2. ASSUME NEW i \in 0 .. j, i # j PROVE f[i] \in T
      BY <3>2
    <3> QED BY <3>1, <3>2
  <2>4. h[0] = base
    BY <2>1
  <2>5. ASSUME NEW i \in 1 .. j PROVE h[i] = g[i][h[i - 1]]
    <3>1. h[i - 1] = f[i - 1]
      OBVIOUS
    <3>2. CASE i = j
      <4>1. h[i] = g[j][f[j - 1]]
        BY <3>2
      <4> HIDE DEF h
      <4> QED BY <3>1, <3>2, <4>1
    <3>3. CASE i # j
      <4>1. h[i] = f[i]
        BY <3>3
      <4>2. i \in 1 .. j - 1
        BY <3>3
      <4> HIDE DEF h
      <4> QED BY <2>1, <3>1, <4>1, <4>2
    <3> QED BY <3>2, <3>3
  <2>6. Good(j, h) /\ j \in 0 .. n
    <3> HIDE DEF h
    <3> QED BY <2>4, <2>5
  <2> HIDE DEF h, Good
  <2> QED BY <2>3, <2>6
<1>3. \A i \in 0 .. n : i \in G
  <2> HIDE DEF G
  <2> QED BY <1>1, <1>2, UpTo
<1>4. n \in G
  <2> HIDE DEF G
  <2> QED BY <1>3
<1> QED BY <1>4 DEF Loop

-----------------------------------------------------------------------------
(* A scan of N nodes returns a node of the nonempty set it looks for.      *)
LEMMA FirstFromInSet ==
  ASSUME NEW N \in Nat \ {0}, NEW start \in 0 .. N - 1,
         NEW S, S \subseteq 0 .. N - 1, S # {}
  PROVE  FirstFrom(start, N, S) \in S
<1> DEFINE dist(k) == (k + N - start) % N
           T == {dist(k) : k \in S}
<1>1. \A k \in S : dist(k) \in Nat
  OBVIOUS
<1>2. PICK x \in T : \A y \in T : x <= y
  <2>1. T \subseteq Nat /\ T # {}
    BY <1>1
  <2> HIDE DEF T
  <2> QED BY <2>1, Smallest
<1>3. PICK k \in S : dist(k) = x
  OBVIOUS
<1>4. \A m \in S : dist(k) <= dist(m)
  BY <1>2, <1>3
<1> QED BY <1>4 DEF FirstFrom

-----------------------------------------------------------------------------
(* The number of nodes that a load or score is given for.                  *)
LEMMA SizeIs ==
  ASSUME NEW N \in Nat \ {0}, NEW f, DOMAIN f = 0 .. N - 1
  PROVE  Size(f) = N
<1>1. 0 \in Int /\ N - 1 \in Int
  OBVIOUS
<1>2. Cardinality(0 .. N - 1) = IF 0 > N - 1 THEN 0 ELSE (N - 1) - 0 + 1
  BY <1>1, FS_Interval
<1> QED BY <1>2 DEF Size

(* The loop that adds up the loads computes a number.                      *)
LEMMA TotalIsNat ==
  ASSUME NEW N \in Nat \ {0}, NEW w \in [0 .. N - 1 -> Nat]
  PROVE  Total(w) \in Nat
<1> DEFINE g == [i \in 1 .. N |-> [t \in Nat |-> t + w[i - 1]]]
           s == Sums(w)
           G == {i \in 0 .. N : s[i] \in Nat}
<1>1. Size(w) = N
  BY SizeIs
<1>2. PICK f : Loop(f, N, Nat, 0, g)
  <2>1. g \in [1 .. N -> [Nat -> Nat]]
    <3>1. \A i \in 1 .. N : w[i - 1] \in Nat
      OBVIOUS
    <3> QED BY <3>1
  <2>2. N \in Nat /\ 0 \in Nat
    OBVIOUS
  <2> HIDE DEF g
  <2> QED BY <2>1, <2>2, RecursiveFunction
<1>3. \A i \in 1 .. N : f[i] = f[i - 1] + w[i - 1]
  <2> TAKE i \in 1 .. N
  <2>1. f[i - 1] \in Nat
    BY <1>2 DEF Loop
  <2> QED BY <1>2, <2>1 DEF Loop
<1>4. f = [i \in 0 .. N |-> IF i = 0 THEN 0 ELSE f[i - 1] + w[i - 1]]
  BY <1>2, <1>3 DEF Loop
<1>5. s = [i \in 0 .. N |-> IF i = 0 THEN 0 ELSE s[i - 1] + w[i - 1]]
  BY <1>1, <1>4 DEF Sums
<1> HIDE DEF s
<1>6. 0 \in G
  BY <1>5
<1>7. ASSUME NEW i \in 1 .. N, i - 1 \in G PROVE i \in G
  <2>1. s[i] = s[i - 1] + w[i - 1] /\ w[i - 1] \in Nat /\ s[i - 1] \in Nat
    BY <1>5, <1>7
  <2> QED BY <2>1
<1>8. \A i \in 0 .. N : i \in G
  <2> HIDE DEF G
  <2> QED BY <1>6, <1>7, UpTo
<1>9. s[N] \in Nat
  BY <1>8
<1> QED BY <1>1, <1>9 DEF Total, s

-----------------------------------------------------------------------------
Fractions == Nat \X (Nat \ {0})

LEMMA TimesMonotonic ==
  ASSUME NEW a \in Nat, NEW b \in Nat, NEW c \in Nat, a <= b
  PROVE  a * c <= b * c
BY SMT

LEMMA TimesCancels ==
  ASSUME NEW a \in Nat, NEW b \in Nat, NEW c \in Nat \ {0}, a * c <= b * c
  PROVE  a <= b
BY SMT

(* What is not greater than b is not greater than what is greater than b.  *)
LEMMA GreaterTransitive ==
  ASSUME NEW a \in Fractions, NEW b \in Fractions, NEW c \in Fractions,
         ~Greater(a, b), Greater(c, b)
  PROVE  ~Greater(a, c)
<1> DEFINE a1 == a[1]  a2 == a[2]  b1 == b[1]  b2 == b[2]  c1 == c[1]  c2 == c[2]
<1>1. /\ a1 \in Nat /\ b1 \in Nat /\ c1 \in Nat
      /\ a2 \in Nat \ {0} /\ b2 \in Nat \ {0} /\ c2 \in Nat \ {0}
  BY DEF Fractions
<1>2. a1 * b2 <= b1 * a2 /\ b1 * c2 <= c1 * b2
  BY <1>1 DEF Greater
<1> HIDE DEF a1, a2, b1, b2, c1, c2
<1>3. (a1 * b2) * c2 <= (b1 * a2) * c2
  BY <1>1, <1>2, TimesMonotonic
<1>4. (b1 * c2) * a2 <= (c1 * b2) * a2
  BY <1>1, <1>2, TimesMonotonic
<1>5. (a1 * c2) * b2 <= (c1 * a2) * b2
  BY <1>1, <1>3, <1>4
<1>6. a1 * c2 <= c1 * a2
  BY <1>1, <1>5, TimesCancels
<1> QED BY <1>1, <1>6 DEF Greater, a1, a2, c1, c2

(* Among finitely many fractions one is greatest.                          *)
LEMMA GreatestExists ==
  ASSUME NEW N \in Nat \ {0}, NEW p \in [0 .. N - 1 -> Fractions],
         NEW hit, hit \subseteq 0 .. N - 1, hit # {}
  PROVE  \E k \in hit : \A m \in hit : ~Greater(p[m], p[k])
<1> DEFINE Upto(j) == {k \in hit : k < j}
           Has(j) == \E k \in Upto(j) : \A m \in Upto(j) : ~Greater(p[m], p[k])
           Bad == {j \in 0 .. N : Upto(j) # {} /\ ~Has(j)}
<1>1. Bad = {}
  <2> SUFFICES ASSUME Bad # {} PROVE FALSE
    OBVIOUS
  <2>1. PICK j \in Bad : \A i \in Bad : j <= i
    <3>1. Bad \subseteq Nat
      OBVIOUS
    <3> HIDE DEF Bad
    <3> QED BY <3>1, Smallest
  <2>2. j \in 1 .. N /\ Upto(j) # {} /\ ~Has(j)
    <3>1. j \in 0 .. N /\ Upto(j) # {} /\ ~Has(j)
      OBVIOUS
    <3>2. Upto(0) = {}
      <4>1. \A k \in hit : ~(k < 0)
        OBVIOUS
      <4> QED BY <4>1
    <3>3. j # 0
      <4> HIDE DEF Upto
      <4> QED BY <3>1, <3>2
    <3> HIDE DEF Upto, Has
    <3> QED BY <3>1, <3>3
  <2>3. Upto(j - 1) = {} \/ Has(j - 1)
    <3>1. j - 1 \in 0 .. N /\ ~(j <= j - 1)
      BY <2>2
    <3>2. j - 1 \notin Bad
      BY <2>1, <3>1
    <3> HIDE DEF Upto, Has
    <3> QED BY <3>1, <3>2
  <2>4. \A k \in Upto(j) : k = j - 1 \/ k \in Upto(j - 1)
    BY <2>2
  <2>5. \A k \in Upto(j - 1) : k \in Upto(j)
    BY <2>2
  <2>6. \A k \in hit : p[k] \in Fractions /\ ~Greater(p[k], p[k])
    <3>1. ASSUME NEW q \in Fractions PROVE ~Greater(q, q)
      BY DEF Fractions, Greater
    <3> QED BY <3>1
  <2>7. \A i : Upto(i) \subseteq hit
    OBVIOUS
  <2>8. CASE Upto(j - 1) = {}
    <3>1. j - 1 \in Upto(j) /\ \A m \in Upto(j) : m = j - 1
      <4> HIDE DEF Upto
      <4> QED BY <2>2, <2>4, <2>8
    <3> QED BY <3>1, <2>2, <2>6
  <2>9. CASE Has(j - 1)
    <3>1. PICK k \in Upto(j - 1) : \A m \in Upto(j - 1) : ~Greater(p[m], p[k])
      BY <2>9
    <3> HIDE DEF Upto
    <3>2. CASE j - 1 \in Upto(j) /\ Greater(p[j - 1], p[k])
      <4>1. \A m \in Upto(j) : ~Greater(p[m], p[j - 1])
        <5> TAKE m \in Upto(j)
        <5>1. p[m] \in Fractions /\ p[k] \in Fractions /\ p[j - 1] \in Fractions
          BY <2>6, <2>7, <3>1, <3>2
        <5>2. CASE m = j - 1
          BY <5>2, <2>6, <2>7
        <5>3. CASE m \in Upto(j - 1)
          BY <5>1, <5>3, <3>1, <3>2, GreaterTransitive
        <5> QED BY <5>2, <5>3, <2>4
      <4> QED BY <4>1, <3>2, <2>2
    <3>3. CASE ~(j - 1 \in Upto(j) /\ Greater(p[j - 1], p[k]))
      BY <3>1, <3>3, <2>2, <2>4, <2>5
    <3> QED BY <3>2, <3>3
  <2> QED BY <2>3, <2>8, <2>9
<1>2. Upto(N) = hit
  <2>1. \A k \in hit : k < N
    OBVIOUS
  <2> QED BY <2>1
<1>3. N \in 0 .. N /\ N \notin Bad
  <2> HIDE DEF Bad
  <2> QED BY <1>1
<1> QED BY <1>2, <1>3

-----------------------------------------------------------------------------
(* find_all_matched gives up only if no node matches everything.           *)
LEMMA AllMatchedSound ==
  ASSUME NEW N \in Nat \ {0}, NEW maxHit \in Nat, NEW s \in [0 .. N - 1 -> 0 .. maxHit],
         NEW start \in 0 .. N - 1
  PROVE  LET c == AllMatched(s, maxHit, start)
         IN  c = NoNode \/ c \in Matched(s, maxHit)
<1>1. Size(s) = N
  BY SizeIs
<1>2. Matched(s, maxHit) \subseteq 0 .. N - 1
  BY DEF Matched
<1>3. Matched(s, maxHit) # {} =>
        FirstFrom(start, N, Matched(s, maxHit)) \in Matched(s, maxHit)
  BY <1>2, FirstFromInSet
<1> QED BY <1>1, <1>3 DEF AllMatched

(* find_min_loaded returns a node that stores least.                       *)
LEMMA MinLoadedSound ==
  ASSUME NEW N \in Nat \ {0}, NEW w \in [0 .. N - 1 -> Nat], NEW start \in 0 .. N - 1
  PROVE  MinLoaded(w, start) \in Lightest(w)
<1> DEFINE T == {w[k] : k \in 0 .. N - 1}
<1>1. T \subseteq Nat /\ T # {}
  OBVIOUS
<1>2. PICK x \in T : \A y \in T : x <= y
  <2> HIDE DEF T
  <2> QED BY <1>1, Smallest
<1>3. PICK k \in 0 .. N - 1 : w[k] = x
  OBVIOUS
<1>4. \A m \in 0 .. N - 1 : w[k] <= w[m]
  BY <1>2, <1>3
<1>5. k \in Lightest(w)
  BY <1>4 DEF Lightest
<1>6. Lightest(w) \subseteq 0 .. N - 1
  BY DEF Lightest
<1>7. Size(w) = N
  BY SizeIs
<1> QED BY <1>5, <1>6, <1>7, FirstFromInSet DEF MinLoaded

LEMMA WeightedScoreType ==
  ASSUME NEW N \in Nat \ {0}, NEW maxHit \in Nat, NEW s \in [0 .. N - 1 -> 0 .. maxHit],
         NEW w \in [0 .. N - 1 -> Nat], NEW k \in 0 .. N - 1
  PROVE  WeightedScore(s, w, k) \in Fractions
<1>1. Size(w) = N /\ Total(w) \in Nat
  BY SizeIs, TotalIsNat
<1>2. s[k] \in Nat /\ w[k] \in Nat
  OBVIOUS
<1>3. CASE w[k] * N > Total(w)
  <2>1. s[k] * Total(w) \in Nat /\ w[k] * N \in Nat \ {0}
    BY <1>1, <1>2, <1>3
  <2>2. WeightedScore(s, w, k) = <<s[k] * Total(w), w[k] * N>>
    BY <1>1, <1>3 DEF WeightedScore
  <2> QED BY <2>1, <2>2 DEF Fractions
<1>4. CASE ~(w[k] * N > Total(w))
  <2>1. WeightedScore(s, w, k) = <<s[k], 1>>
    BY <1>1, <1>4 DEF WeightedScore
  <2> QED BY <2>1, <1>2 DEF Fractions
<1> QED BY <1>3, <1>4

(* find_load_weighted returns a node that matches something; the last node, *)
(* if it does and is below SKEW_THRES, is considered by every scan.        *)
LEMMA LoadWeightedSound ==
  ASSUME NEW N \in Nat \ {0}, NEW maxHit \in Nat, NEW s \in [0 .. N - 1 -> 0 .. maxHit],
         NEW w \in [0 .. N - 1 -> Nat], NEW start \in 0 .. N - 1,
         NEW c \in LoadWeighted(s, w, start)
  PROVE  LET last == N - 1
             considered == BelowSkew(w, last) /\ s[last] > 0
         IN  \/ c = NoNode /\ ~considered
             \/ /\ c \in 0 .. N - 1 /\ s[c] > 0
                /\ considered => ~Greater(WeightedScore(s, w, last), WeightedScore(s, w, c))
<1>1. PICK passed \in PassLoadTest(w, start) : c = BestOf(s, w, start, passed)
  BY DEF LoadWeighted
<1>2. PICK beyond \in SUBSET (0 .. start - 1) :
        passed = {k \in DOMAIN w : k >= start /\ BelowSkew(w, k)} \cup beyond
  BY <1>1 DEF PassLoadTest
<1>3. passed \subseteq 0 .. N - 1
  <2>1. beyond \subseteq 0 .. N - 1
    OBVIOUS
  <2> QED BY <1>2, <2>1
<1>4. BelowSkew(w, N - 1) => N - 1 \in passed
  BY <1>2
<1> DEFINE hit == {k \in passed : s[k] > 0}
           best == {k \in hit : \A m \in hit :
                      ~Greater(WeightedScore(s, w, m), WeightedScore(s, w, k))}
<1>5. c = IF best = {} THEN NoNode ELSE FirstFrom(start, N, best)
  <2>1. Size(s) = N
    BY SizeIs
  <2> QED BY <1>1, <2>1 DEF BestOf
<1>6. hit \subseteq 0 .. N - 1 /\ best \subseteq hit
  BY <1>3
<1>7. hit # {} => best # {}
  <2> DEFINE p == [k \in 0 .. N - 1 |-> WeightedScore(s, w, k)]
  <2>1. p \in [0 .. N - 1 -> Fractions]
    BY WeightedScoreType
  <2>2. \A k \in hit : p[k] = WeightedScore(s, w, k)
    BY <1>6
  <2>3. ASSUME hit # {} PROVE \E k \in hit : \A m \in hit : ~Greater(p[m], p[k])
    <3> HIDE DEF p, hit
    <3> QED BY <1>6, <2>1, <2>3, GreatestExists
  <2> HIDE DEF p, hit
  <2> QED BY <2>2, <2>3
<1>8. BelowSkew(w, N - 1) /\ s[N - 1] > 0 => N - 1 \in hit
  BY <1>4
<1>9. CASE best = {}
  <2>1. hit = {} /\ c = NoNode
    BY <1>5, <1>7, <1>9
  <2> HIDE DEF hit
  <2> QED BY <2>1, <1>8
<1>10. CASE best # {}
  <2>1. c \in best
    <3>1. best \subseteq 0 .. N - 1
      BY <1>6
    <3> HIDE DEF best
    <3> QED BY <3>1, <1>5, <1>10, FirstFromInSet
  <2>2. c \in hit /\ \A m \in hit : ~Greater(WeightedScore(s, w, m), WeightedScore(s, w, c))
    BY <2>1
  <2>3. c \in 0 .. N - 1 /\ s[c] > 0
    BY <2>2, <1>6
  <2> HIDE DEF hit, best
  <2> QED BY <2>2, <2>3, <1>8
<1> QED BY <1>9, <1>10

(* The three rules together.                                               *)
LEMMA WeightedBestSound ==
  ASSUME NEW N \in Nat \ {0}, NEW maxHit \in Nat, NEW s \in [0 .. N - 1 -> 0 .. maxHit],
         NEW w \in [0 .. N - 1 -> Nat], NEW c \in WeightedBest(s, w, maxHit)
  PROVE  LET last == N - 1
             considered == BelowSkew(w, last) /\ s[last] > 0
         IN  /\ c \in 0 .. N - 1
             /\ \/ s[c] = maxHit
                \/ /\ s[c] > 0
                   /\ considered => ~Greater(WeightedScore(s, w, last), WeightedScore(s, w, c))
                \/ c \in Lightest(w) /\ ~considered
<1> DEFINE starts == 0 .. N - 1
           matched == {AllMatched(s, maxHit, i) : i \in starts}
           weighted == UNION {LoadWeighted(s, w, i) : i \in starts}
           lightest == {MinLoaded(w, i) : i \in starts}
           considered == BelowSkew(w, N - 1) /\ s[N - 1] > 0
<1>1. c \in IF NoNode \notin matched THEN matched
            ELSE (weighted \ {NoNode}) \cup (IF NoNode \in weighted THEN lightest ELSE {})
  <2>1. DOMAIN s = starts
    OBVIOUS
  <2> QED BY <2>1 DEF WeightedBest
<1>2. CASE c \in matched /\ c # NoNode
  <2>1. c \in Matched(s, maxHit)
    BY <1>2, AllMatchedSound
  <2> QED BY <2>1 DEF Matched
<1>3. CASE c \in weighted /\ c # NoNode
  <2>1. PICK i \in starts : c \in LoadWeighted(s, w, i)
    BY <1>3
  <2> QED BY <2>1, <1>3, LoadWeightedSound
<1>4. CASE c \in lightest /\ NoNode \in weighted
  <2>1. c \in Lightest(w)
    BY <1>4, MinLoadedSound
  <2>2. PICK i \in starts : NoNode \in LoadWeighted(s, w, i)
    BY <1>4
  <2>3. NoNode \notin 0 .. N - 1
    BY DEF NoNode
  <2>4. ~considered
    BY <2>2, <2>3, LoadWeightedSound
  <2>5. c \in 0 .. N - 1
    BY <2>1 DEF Lightest
  <2> QED BY <2>1, <2>4, <2>5
<1>5. \/ c \in matched /\ c # NoNode
      \/ c \in weighted /\ c # NoNode
      \/ c \in lightest /\ NoNode \in weighted
  <2> HIDE DEF matched, weighted, lightest
  <2> QED BY <1>1
<1> QED BY <1>2, <1>3, <1>4, <1>5

(* A node is chosen for all its matches, for some, or for its load.        *)
LEMMA NoMatchIsLightest ==
  ASSUME NEW N \in Nat \ {0}, NEW maxHit \in Nat, NEW s \in [0 .. N - 1 -> 0 .. maxHit],
         NEW w \in [0 .. N - 1 -> Nat], NEW c \in WeightedBest(s, w, maxHit)
  PROVE  s[c] = maxHit \/ s[c] > 0 \/ c \in Lightest(w)
<1> DEFINE considered == BelowSkew(w, N - 1) /\ s[N - 1] > 0
           worse == Greater(WeightedScore(s, w, N - 1), WeightedScore(s, w, c))
<1>1. \/ s[c] = maxHit
      \/ s[c] > 0 /\ (considered => ~worse)
      \/ c \in Lightest(w) /\ ~considered
  BY WeightedBestSound
<1> HIDE DEF considered, worse
<1> QED BY <1>1

(* Of two nodes, a weighted score that is not lower and a load that is not *)
(* lower mean a score that is not lower.                                   *)
LEMMA HeavierMatchesMore ==
  ASSUME NEW N \in Nat \ {0}, NEW maxHit \in Nat, NEW s \in [0 .. N - 1 -> 0 .. maxHit],
         NEW w \in [0 .. N - 1 -> Nat], NEW l \in 0 .. N - 1, NEW c \in 0 .. N - 1,
         w[l] <= w[c], Total(w) > 0,
         ~Greater(WeightedScore(s, w, l), WeightedScore(s, w, c))
  PROVE  s[l] <= s[c]
<1> DEFINE T == Total(w)  sl == s[l]  sc == s[c]  wl == w[l] * N  wc == w[c] * N
<1>1. /\ Size(w) = N /\ T \in Nat \ {0}
      /\ sl \in Nat /\ sc \in Nat /\ wl \in Nat /\ wc \in Nat
  <2>1. Size(w) = N /\ T \in Nat \ {0}
    <3>1. Size(w) = N
      BY SizeIs
    <3>2. Total(w) \in Nat
      BY TotalIsNat
    <3> QED BY <3>1, <3>2
  <2>2. w[l] \in Nat /\ w[c] \in Nat /\ sl \in Nat /\ sc \in Nat
    OBVIOUS
  <2>3. wl \in Nat /\ wc \in Nat
    BY <2>2
  <2> HIDE DEF T, sl, sc, wl, wc
  <2> QED BY <2>1, <2>2, <2>3
<1>2. wl <= wc
  BY TimesMonotonic
<1>3. WeightedScore(s, w, l) = IF wl > T THEN <<sl * T, wl>> ELSE <<sl, 1>>
  BY <1>1 DEF WeightedScore
<1>4. WeightedScore(s, w, c) = IF wc > T THEN <<sc * T, wc>> ELSE <<sc, 1>>
  BY <1>1 DEF WeightedScore
<1> HIDE DEF T, sl, sc, wl, wc
<1>5. CASE wl > T
  <2>1. wc > T
    BY <1>1, <1>2, <1>5
  <2>2. (sl * T) * wc <= (sc * T) * wl
    BY <1>1, <1>3, <1>4, <1>5, <2>1 DEF Greater
  <2>3. (sc * T) * wl <= (sc * T) * wc
    BY <1>1, <1>2, SMT
  <2>4. sl * (T * wc) <= sc * (T * wc)
    <3>1. /\ (sl * T) * wc = sl * (T * wc) /\ (sl * T) * wc \in Nat
          /\ (sc * T) * wc = sc * (T * wc) /\ (sc * T) * wc \in Nat
          /\ (sc * T) * wl \in Nat
      BY <1>1, SMT
    <3> QED BY <2>2, <2>3, <3>1
  <2>5. T * wc \in Nat \ {0}
    BY <1>1, <2>1
  <2>6. sl <= sc
    BY <1>1, <2>4, <2>5, TimesCancels
  <2> QED BY <2>6 DEF sl, sc
<1>6. CASE ~(wl > T) /\ wc > T
  <2>1. sl * wc <= (sc * T) * 1
    BY <1>1, <1>3, <1>4, <1>6 DEF Greater
  <2>2. sl * T <= sl * wc
    BY <1>1, <1>6, SMT
  <2>3. sl * T <= sc * T
    <3>1. sl * wc \in Nat /\ sc * T \in Nat /\ sl * T \in Nat
      BY <1>1, SMT
    <3> QED BY <2>1, <2>2, <3>1
  <2>4. sl <= sc
    BY <1>1, <2>3, TimesCancels
  <2> QED BY <2>4 DEF sl, sc
<1>7. CASE ~(wl > T) /\ ~(wc > T)
  <2>1. sl <= sc
    BY <1>1, <1>3, <1>4, <1>7 DEF Greater
  <2> QED BY <2>1 DEF sl, sc
<1> QED BY <1>5, <1>6, <1>7

(* A node without a single match is chosen only for storing least          *)
(* (route.c:25-101): three rules with three random starts never send a     *)
(* segment to a busy stranger.                                             *)
THEOREM OnlyLightestStrangers ==
  ASSUME NEW N \in Nat \ {0}, NEW maxHit \in Nat \ {0}, NEW s \in [0 .. N - 1 -> 0 .. maxHit],
         NEW w \in [0 .. N - 1 -> Nat], NEW c \in WeightedBest(s, w, maxHit), s[c] = 0
  PROVE  \A k \in 0 .. N - 1 : w[c] <= w[k]
<1>1. s[c] = maxHit \/ s[c] > 0 \/ c \in Lightest(w)
  BY NoMatchIsLightest
<1> QED BY <1>1 DEF Lightest

(* The last node is never passed over for one that matches less and stores *)
(* no less.  It is the one node that every scan tests with its own load;   *)
(* for the others route.c:62 may read something else, and this can fail.   *)
THEOREM LastNodeNotDominated ==
  ASSUME NEW N \in Nat \ {0}, NEW maxHit \in Nat \ {0}, NEW s \in [0 .. N - 1 -> 0 .. maxHit],
         NEW w \in [0 .. N - 1 -> Nat], NEW c \in WeightedBest(s, w, maxHit),
         BelowSkew(w, N - 1), w[N - 1] <= w[c]
  PROVE  s[N - 1] <= s[c]
<1> DEFINE last == N - 1
<1>1. /\ c \in 0 .. N - 1
      /\ \/ s[c] = maxHit
         \/ s[last] > 0 => ~Greater(WeightedScore(s, w, last), WeightedScore(s, w, c))
         \/ ~(s[last] > 0)
  BY WeightedBestSound
<1>2. Total(w) > 0
  BY DEF BelowSkew
<1>3. last \in 0 .. N - 1 /\ s[last] \in 0 .. maxHit /\ s[c] \in 0 .. maxHit
  BY <1>1
<1>4. CASE s[c] = maxHit
  BY <1>3, <1>4
<1>5. CASE ~(s[last] > 0)
  BY <1>3, <1>5
<1>6. CASE ~Greater(WeightedScore(s, w, last), WeightedScore(s, w, c))
  <2> HIDE DEF last
  <2>1. last = N - 1
    BY DEF last
  <2> QED BY <1>1, <1>2, <1>3, <1>6, <2>1, HeavierMatchesMore
<1> QED BY <1>1, <1>4, <1>5, <1>6

(* A node that matches everything is chosen if there is one.               *)
LEMMA FullMatchIsBest ==
  ASSUME NEW N \in Nat \ {0}, NEW maxHit \in Nat, NEW s \in [0 .. N - 1 -> 0 .. maxHit],
         NEW w \in [0 .. N - 1 -> Nat], NEW c \in WeightedBest(s, w, maxHit)
  PROVE  Matched(s, maxHit) # {} => c \in Matched(s, maxHit)
<1> DEFINE starts == 0 .. N - 1
           matched == {AllMatched(s, maxHit, i) : i \in starts}
           full == Matched(s, maxHit)
<1> SUFFICES ASSUME full # {} PROVE c \in full
  OBVIOUS
<1>1. full \subseteq 0 .. N - 1
  BY DEF Matched
<1>2. Size(s) = N
  BY SizeIs
<1>3. ASSUME NEW i \in starts PROVE AllMatched(s, maxHit, i) \in full
  <2>1. AllMatched(s, maxHit, i) = FirstFrom(i, N, full)
    BY <1>1, <1>2 DEF AllMatched
  <2>2. FirstFrom(i, N, full) \in full
    <3> HIDE DEF full
    <3> QED BY <1>1, FirstFromInSet
  <2> QED BY <2>1, <2>2
<1>4. matched \subseteq full
  BY <1>3
<1>5. NoNode \notin full
  <2>1. NoNode \notin 0 .. N - 1
    BY DEF NoNode
  <2> QED BY <1>1, <2>1
<1>6. c \in matched
  <2>1. DOMAIN s = starts
    OBVIOUS
  <2>2. NoNode \notin matched
    BY <1>4, <1>5
  <2> QED BY <2>1, <2>2 DEF WeightedBest
<1> QED BY <1>4, <1>6

(* find_weighted_best on the nodes considered returns one of them, and one  *)
(* that matches everything if there is one among them.                     *)
LEMMA BestAmongSound ==
  ASSUME NEW S, NEW dst \in Seq(S), dst # <<>>, NEW maxHit \in Nat, NEW hit, NEW weight,
         \A n \in ToSet(dst) : hit[n] \in 0 .. maxHit /\ weight[n] \in Nat,
         NEW t \in BestAmong(dst, hit, weight, maxHit)
  PROVE  /\ t \in ToSet(dst)
         /\ (\E n \in ToSet(dst) : hit[n] = maxHit) => hit[t] = maxHit
<1> DEFINE N == Len(dst)
           s == [j \in 0 .. N - 1 |-> hit[dst[j + 1]]]
           w == [j \in 0 .. N - 1 |-> weight[dst[j + 1]]]
<1>1. N \in Nat \ {0} /\ DOMAIN dst = 1 .. N
  OBVIOUS
<1>2. \A j \in 0 .. N - 1 : dst[j + 1] \in S /\ dst[j + 1] \in ToSet(dst)
  <2> TAKE j \in 0 .. N - 1
  <2>1. j + 1 \in DOMAIN dst
    BY <1>1
  <2> QED BY <2>1, <1>1 DEF ToSet
<1>3. s \in [0 .. N - 1 -> 0 .. maxHit] /\ w \in [0 .. N - 1 -> Nat]
  BY <1>2
<1>4. PICK c \in WeightedBest(s, w, maxHit) : t = dst[c + 1]
  BY DEF BestAmong, NodeAt
<1>5. \A j \in 0 .. N - 1 : s[j] = hit[dst[j + 1]]
  OBVIOUS
<1> HIDE DEF N, s, w
<1>6. c \in 0 .. N - 1
  BY <1>1, <1>3, WeightedBestSound
<1>7. ASSUME NEW k \in 0 .. N - 1, s[k] = maxHit PROVE s[c] = maxHit
  <2>1. k \in Matched(s, maxHit)
    BY <1>3, <1>7 DEF Matched
  <2>2. c \in Matched(s, maxHit)
    BY <1>1, <1>3, <2>1, FullMatchIsBest
  <2> QED BY <2>2 DEF Matched
<1>8. ASSUME NEW n \in ToSet(dst), hit[n] = maxHit PROVE hit[t] = maxHit
  <2>1. PICK i \in 1 .. N : n = dst[i]
    BY <1>1 DEF ToSet
  <2>2. i - 1 \in 0 .. N - 1 /\ (i - 1) + 1 = i
    BY <1>1
  <2>3. s[i - 1] = maxHit
    BY <1>5, <1>8, <2>1, <2>2
  <2>4. s[c] = maxHit
    BY <1>7, <2>2, <2>3
  <2> QED BY <1>4, <1>5, <1>6, <2>4
<1> QED BY <1>2, <1>4, <1>6, <1>8

-----------------------------------------------------------------------------
(* What a sequence holds after an append.                                  *)
LEMMA ToSetAppend ==
  ASSUME NEW T, NEW r \in Seq(T), NEW x
  PROVE  Len(Append(r, x)) = Len(r) + 1 /\ ToSet(Append(r, x)) = ToSet(r) \cup {x}
<1> DEFINE a == Append(r, x)
           m == Len(r)
<1>1. m \in Nat /\ DOMAIN r = 1 .. m /\ DOMAIN a = 1 .. m + 1 /\ Len(a) = m + 1
  OBVIOUS
<1>2. a[m + 1] = x /\ \A i \in 1 .. m : a[i] = r[i]
  OBVIOUS
<1>3. \A i \in 1 .. m + 1 : i \in 1 .. m \/ i = m + 1
  BY <1>1
<1>4. 1 .. m \subseteq 1 .. m + 1 /\ m + 1 \in 1 .. m + 1
  BY <1>1
<1> HIDE DEF a, m
<1>5. ToSet(a) = ToSet(r) \cup {x}
  BY <1>1, <1>2, <1>3, <1>4 DEF ToSet
<1> QED BY <1>1, <1>5 DEF a, m

(* Where e is in the sequence s.                                           *)
PlacesOf(s, e) == {i \in DOMAIN s : s[i] = e}

(* The loop that copies the elements other than e has in rest[i] what it    *)
(* copied of the first i.                                                  *)
Copies(rest, s, e) ==
  /\ rest[0] = <<>>
  /\ \A i \in 1 .. Len(s) :
       rest[i] = IF s[i] = e THEN rest[i - 1] ELSE Append(rest[i - 1], s[i])
  /\ Without(s, e) = rest[Len(s)]

LEMMA WithoutLoop ==
  ASSUME NEW T, NEW s \in Seq(T), NEW e
  PROVE  \E rest \in [0 .. Len(s) -> Seq(T \ {e})] : Copies(rest, s, e)
<1> DEFINE n == Len(s)
           R == Seq(T \ {e})
           Next(i, r) == IF s[i] = e THEN r ELSE Append(r, s[i])
           g == [i \in 1 .. n |-> [r \in R |-> Next(i, r)]]
           rest == CHOOSE r : r = [i \in 0 .. n |-> IF i = 0 THEN <<>>
                                    ELSE IF s[i] = e THEN r[i - 1]
                                    ELSE Append(r[i - 1], s[i])]
<1>1. n \in Nat /\ DOMAIN s = 1 .. n /\ \A i \in 1 .. n : s[i] \in T
  OBVIOUS
<1>2. ASSUME NEW i \in 1 .. n, NEW r \in R PROVE Next(i, r) \in R
  <2>1. s[i] # e => s[i] \in T \ {e}
    BY <1>1
  <2> HIDE DEF n
  <2> QED BY <2>1
<1>3. PICK f : Loop(f, n, R, <<>>, g)
  <2>1. g \in [1 .. n -> [R -> R]] /\ <<>> \in R
    BY <1>2
  <2> HIDE DEF g, n, R
  <2> QED BY <1>1, <2>1, RecursiveFunction
<1>4. f = [i \in 0 .. n |-> IF i = 0 THEN <<>>
                             ELSE IF s[i] = e THEN f[i - 1] ELSE Append(f[i - 1], s[i])]
  <2>1. ASSUME NEW i \in 1 .. n PROVE f[i] = Next(i, f[i - 1])
    <3>1. f[i - 1] \in R /\ f[i] = g[i][f[i - 1]]
      <4> HIDE DEF g, R
      <4> QED BY <1>1, <1>3 DEF Loop
    <3> HIDE DEF Next, R
    <3> QED BY <3>1
  <2>2. f[0] = <<>> /\ f = [i \in 0 .. n |-> f[i]]
    <3> HIDE DEF g, R, n
    <3> QED BY <1>3 DEF Loop
  <2>3. ASSUME NEW i \in 0 .. n
        PROVE  f[i] = IF i = 0 THEN <<>>
                      ELSE IF s[i] = e THEN f[i - 1] ELSE Append(f[i - 1], s[i])
    <3>1. CASE i = 0
      BY <2>2, <3>1
    <3>2. CASE i # 0
      <4>1. i \in 1 .. n
        BY <1>1, <3>2
      <4>2. f[i] = Next(i, f[i - 1])
        BY <2>1, <4>1
      <4> QED BY <3>2, <4>2
    <3> QED BY <3>1, <3>2
  <2> QED BY <2>2, <2>3
<1>5. /\ rest[0] = <<>>
      /\ \A i \in 1 .. n : rest[i] = Next(i, rest[i - 1])
  <2>1. rest = [i \in 0 .. n |-> IF i = 0 THEN <<>>
                                 ELSE IF s[i] = e THEN rest[i - 1]
                                 ELSE Append(rest[i - 1], s[i])]
    BY <1>4
  <2> HIDE DEF rest
  <2>2. rest[0] = <<>>
    BY <1>1, <2>1
  <2>3. ASSUME NEW i \in 1 .. n PROVE rest[i] = Next(i, rest[i - 1])
    <3>1. i \in 0 .. n /\ i # 0
      BY <1>1
    <3> HIDE DEF n
    <3> QED BY <2>1, <3>1
  <2> QED BY <2>2, <2>3
<1>6. Without(s, e) = rest[n]
  BY DEF Without
<1>7. rest = [i \in 0 .. n |-> rest[i]]
  <2>1. rest = [i \in 0 .. n |-> IF i = 0 THEN <<>>
                                 ELSE IF s[i] = e THEN rest[i - 1]
                                 ELSE Append(rest[i - 1], s[i])]
    BY <1>4
  <2> HIDE DEF rest
  <2> QED BY <2>1
<1> DEFINE G == {i \in 0 .. n : rest[i] \in R}
<1> HIDE DEF rest
<1>8. 0 \in G
  <2>1. rest[0] \in R /\ 0 \in 0 .. n
    <3>1. rest[0] = <<>> /\ <<>> \in R
      BY <1>5
    <3> QED BY <1>1, <3>1
  <2> QED BY <2>1
<1>9. ASSUME NEW i \in 1 .. n, i - 1 \in G PROVE i \in G
  <2>1. rest[i] \in R
    <3> HIDE DEF Next, R
    <3> QED BY <1>2, <1>5, <1>9
  <2> QED BY <1>1, <2>1
<1>10. \A i \in 0 .. n : i \in G
  <2> HIDE DEF G, n
  <2> QED BY <1>1, <1>8, <1>9, UpTo
<1>11. rest \in [0 .. n -> R]
  <2> HIDE DEF R, n
  <2> QED BY <1>7, <1>10
<1> QED BY <1>5, <1>6, <1>11 DEF Copies

(* The sequence without e: what else was there, and as many elements fewer. *)
LEMMA WithoutSound ==
  ASSUME NEW T, NEW s \in Seq(T), NEW e
  PROVE  /\ Without(s, e) \in Seq(T \ {e})
         /\ Len(Without(s, e)) + Cardinality(PlacesOf(s, e)) = Len(s)
         /\ ToSet(Without(s, e)) = ToSet(s) \ {e}
<1> DEFINE n == Len(s)
           R == Seq(T \ {e})
           Next(i, r) == IF s[i] = e THEN r ELSE Append(r, s[i])
           Gone(i) == {j \in 1 .. i : s[j] = e}
           Kept(i) == {s[j] : j \in {k \in 1 .. i : s[k] # e}}
<1>1. n \in Nat /\ DOMAIN s = 1 .. n /\ \A i \in 1 .. n : s[i] \in T
  OBVIOUS
<1>2. ASSUME NEW i \in 1 .. n, NEW r \in R PROVE Next(i, r) \in R
  <2>1. s[i] # e => s[i] \in T \ {e}
    BY <1>1
  <2> HIDE DEF n
  <2> QED BY <2>1
<1>3. PICK rest \in [0 .. Len(s) -> Seq(T \ {e})] : Copies(rest, s, e)
  BY WithoutLoop
<1>5. /\ rest[0] = <<>>
      /\ \A i \in 1 .. n : rest[i] = Next(i, rest[i - 1])
  BY <1>3 DEF Copies
<1>6. Without(s, e) = rest[n]
  BY <1>3 DEF Copies
<1> DEFINE G == {i \in 0 .. n : /\ rest[i] \in R
                                /\ Len(rest[i]) + Cardinality(Gone(i)) = i
                                /\ ToSet(rest[i]) = Kept(i)}
<1>7. 0 \in G
  <2>1. rest[0] = <<>> /\ Gone(0) = {} /\ Kept(0) = {}
    BY <1>1, <1>5
  <2>2. <<>> \in R /\ Len(<<>>) = 0 /\ ToSet(<<>>) = {}
    BY DEF ToSet
  <2>3. Cardinality({}) = 0
    BY FS_EmptySet
  <2>4. Len(rest[0]) + Cardinality(Gone(0)) = 0
    BY <2>1, <2>2, <2>3
  <2>5. rest[0] \in R /\ ToSet(rest[0]) = Kept(0) /\ 0 \in 0 .. n
    <3> HIDE DEF n
    <3> QED BY <1>1, <2>1, <2>2
  <2> HIDE DEF R, Gone, Kept, n
  <2> QED BY <2>4, <2>5
<1>8. ASSUME NEW i \in 1 .. n, i - 1 \in G PROVE i \in G
  <2> DEFINE r == rest[i - 1]
             gone == Cardinality(Gone(i - 1))
  <2>1. r \in R /\ Len(r) + gone = i - 1 /\ ToSet(r) = Kept(i - 1)
    BY <1>8
  <2>2. rest[i] = Next(i, r)
    BY <1>5
  <2>3. rest[i] \in R
    BY <1>2, <2>1, <2>2
  <2>4. IsFiniteSet(Gone(i - 1)) /\ i \notin Gone(i - 1) /\ gone \in Nat
    <3>1. IsFiniteSet(1 .. i - 1)
      BY FS_Interval
    <3>2. Gone(i - 1) \in SUBSET (1 .. i - 1)
      OBVIOUS
    <3>3. i \notin Gone(i - 1)
      OBVIOUS
    <3> HIDE DEF Gone
    <3> QED BY <3>1, <3>2, <3>3, FS_Subset, FS_CardinalityType
  <2>5. i \in 0 .. n /\ i \in Nat /\ Len(r) \in Nat
    BY <1>1, <2>1
  <2>6. CASE s[i] = e
    <3>1. Gone(i) = Gone(i - 1) \cup {i} /\ Kept(i) = Kept(i - 1)
      BY <2>6
    <3>2. Cardinality(Gone(i)) = gone + 1
      <4> HIDE DEF Gone
      <4> QED BY <2>4, <3>1, FS_AddElement
    <3>3. rest[i] = r
      BY <2>2, <2>6
    <3>4. Len(rest[i]) + Cardinality(Gone(i)) = i /\ ToSet(rest[i]) = Kept(i)
      <4> HIDE DEF Gone, Kept, r, gone
      <4> QED BY <2>1, <2>4, <2>5, <3>1, <3>2, <3>3
    <3> QED BY <2>3, <2>5, <3>4
  <2>7. CASE s[i] # e
    <3>1. Gone(i) = Gone(i - 1)
      BY <2>7
    <3>2. Kept(i) = Kept(i - 1) \cup {s[i]}
      BY <2>7
    <3>3. rest[i] = Append(r, s[i])
      BY <2>2, <2>7
    <3>4. Len(rest[i]) = Len(r) + 1 /\ ToSet(rest[i]) = ToSet(r) \cup {s[i]}
      <4> HIDE DEF r
      <4> QED BY <2>1, <3>3, ToSetAppend
    <3>5. Len(rest[i]) + Cardinality(Gone(i)) = i /\ ToSet(rest[i]) = Kept(i)
      <4>1. Cardinality(Gone(i)) = gone
        BY <3>1
      <4> HIDE DEF Gone, Kept, r, gone
      <4> QED BY <2>1, <2>4, <2>5, <3>2, <3>4, <4>1
    <3> QED BY <2>3, <2>5, <3>5
  <2> QED BY <2>6, <2>7
<1>9. n \in G
  <2>1. \A i \in 0 .. n : i \in G
    <3> HIDE DEF G, n
    <3> QED BY <1>1, <1>7, <1>8, UpTo
  <2> HIDE DEF G, n
  <2> QED BY <1>1, <2>1
<1>10. Kept(n) = ToSet(s) \ {e} /\ Gone(n) = PlacesOf(s, e)
  BY <1>1 DEF ToSet, PlacesOf
<1>11. /\ rest[n] \in R
       /\ Len(rest[n]) + Cardinality(Gone(n)) = n
       /\ ToSet(rest[n]) = Kept(n)
  <2> HIDE DEF n, R, Kept, Gone
  <2> QED BY <1>9
<1> HIDE DEF Kept, Gone
<1> QED BY <1>6, <1>10, <1>11

-----------------------------------------------------------------------------
(* The nodes that are addressed, each once.                                *)
LEMMA AddressedSound ==
  ASSUME NEW S, NEW homes \in Seq(S)
  PROVE  /\ AddressedNodes(homes) \in Seq(S)
         /\ IsInjective(AddressedNodes(homes))
         /\ ToSet(AddressedNodes(homes)) = ToSet(homes)
<1> DEFINE n == Len(homes)
           R == {r \in Seq(S) : IsInjective(r)}
           Next(i, r) == IF Contains(r, homes[i]) THEN r ELSE Append(r, homes[i])
           g == [i \in 1 .. n |-> [r \in R |-> Next(i, r)]]
           dst == CHOOSE r : r = [i \in 0 .. n |-> IF i = 0 THEN <<>>
           ELSE IF Contains(r[i - 1], homes[i]) THEN r[i - 1]
           ELSE Append(r[i - 1], homes[i])]
           First(i) == {homes[j] : j \in 1 .. i}
           G == {i \in 0 .. n : dst[i] \in R /\ ToSet(dst[i]) = First(i)}
<1>1. n \in Nat /\ DOMAIN homes = 1 .. n /\ \A i \in 1 .. n : homes[i] \in S
  OBVIOUS
<1>2. /\ <<>> \in R
      /\ \A i \in 1 .. n : \A r \in R :
           Next(i, r) \in R /\ ToSet(Next(i, r)) = ToSet(r) \cup {homes[i]}
  <2>1. <<>> \in R
    BY DEF IsInjective
  <2>2. ASSUME NEW i \in 1 .. n, NEW r \in R
        PROVE  Next(i, r) \in R /\ ToSet(Next(i, r)) = ToSet(r) \cup {homes[i]}
    <3> DEFINE h == homes[i]
    <3>1. r \in Seq(S) /\ IsInjective(r) /\ h \in S /\ DOMAIN r = 1 .. Len(r)
      BY <1>1
    <3>2. Contains(r, h) <=> h \in ToSet(r)
      BY <3>1 DEF Contains, ToSet
    <3>3. CASE Contains(r, h)
      BY <3>1, <3>2, <3>3
    <3>4. CASE ~Contains(r, h)
      <4> DEFINE a == Append(r, h)
                 m == Len(r)
      <4>1. Next(i, r) = a
        BY <3>4
      <4>2. a \in Seq(S)
        BY <3>1
      <4>3. ToSet(a) = ToSet(r) \cup {h}
        BY <3>1, ToSetAppend
      <4>4. /\ m \in Nat /\ DOMAIN a = 1 .. m + 1 /\ a[m + 1] = h
            /\ \A j \in 1 .. m : a[j] = r[j] /\ r[j] # h
        BY <3>1, <3>4 DEF Contains
      <4>5. \A j \in 1 .. m + 1 : j \in 1 .. m \/ j = m + 1
        BY <4>4
      <4>6. IsInjective(a)
        <5> SUFFICES ASSUME NEW j \in 1 .. m + 1, NEW k \in 1 .. m + 1, a[j] = a[k]
                     PROVE  j = k
          <6> HIDE DEF a, m
          <6> QED BY <4>4 DEF IsInjective
        <5>1. DOMAIN r = 1 .. m
          BY <3>1
        <5> HIDE DEF a, m, h
        <5> QED BY <3>1, <4>4, <4>5, <5>1 DEF IsInjective
      <4> HIDE DEF a
      <4> QED BY <4>1, <4>2, <4>3, <4>6
    <3> QED BY <3>3, <3>4
  <2> QED BY <2>1, <2>2
<1>3. PICK f : Loop(f, n, R, <<>>, g)
  <2>1. g \in [1 .. n -> [R -> R]] /\ <<>> \in R
    BY <1>2
  <2> HIDE DEF g, n, R
  <2> QED BY <1>1, <2>1, RecursiveFunction
<1>4. f = [i \in 0 .. n |-> IF i = 0 THEN <<>>
           ELSE IF Contains(f[i - 1], homes[i]) THEN f[i - 1]
           ELSE Append(f[i - 1], homes[i])]
  <2>1. ASSUME NEW i \in 1 .. n PROVE f[i] = Next(i, f[i - 1])
    <3>1. f[i - 1] \in R /\ f[i] = g[i][f[i - 1]]
      <4> HIDE DEF g, R
      <4> QED BY <1>1, <1>3 DEF Loop
    <3> HIDE DEF Next, R
    <3> QED BY <3>1
  <2>2. f[0] = <<>> /\ f = [i \in 0 .. n |-> f[i]]
    <3> HIDE DEF g, R, n
    <3> QED BY <1>3 DEF Loop
  <2>3. ASSUME NEW i \in 0 .. n
        PROVE  f[i] = IF i = 0 THEN <<>>
           ELSE IF Contains(f[i - 1], homes[i]) THEN f[i - 1]
           ELSE Append(f[i - 1], homes[i])
    <3>1. CASE i = 0
      BY <2>2, <3>1
    <3>2. CASE i # 0
      <4>1. i \in 1 .. n
        BY <1>1, <3>2
      <4>2. f[i] = Next(i, f[i - 1])
        BY <2>1, <4>1
      <4> QED BY <3>2, <4>2
    <3> QED BY <3>1, <3>2
  <2> QED BY <2>2, <2>3
<1>5. /\ dst[0] = <<>>
      /\ \A i \in 1 .. n : dst[i] = Next(i, dst[i - 1])
  <2>1. dst = [i \in 0 .. n |-> IF i = 0 THEN <<>>
           ELSE IF Contains(dst[i - 1], homes[i]) THEN dst[i - 1]
           ELSE Append(dst[i - 1], homes[i])]
    BY <1>4
  <2> HIDE DEF dst
  <2>2. dst[0] = <<>>
    BY <1>1, <2>1
  <2>3. ASSUME NEW i \in 1 .. n PROVE dst[i] = Next(i, dst[i - 1])
    <3>1. i \in 0 .. n /\ i # 0
      BY <1>1
    <3> HIDE DEF n
    <3> QED BY <2>1, <3>1
  <2> QED BY <2>2, <2>3
<1>6. AddressedNodes(homes) = dst[n]
  BY DEF AddressedNodes
<1> HIDE DEF dst
<1>7. 0 \in G
  <2>1. dst[0] = <<>> /\ First(0) = {}
    BY <1>1, <1>5
  <2>2. ToSet(<<>>) = {}
    BY DEF ToSet
  <2> HIDE DEF R, First, n
  <2> QED BY <1>1, <1>2, <2>1, <2>2
<1>8. ASSUME NEW i \in 1 .. n, i - 1 \in G PROVE i \in G
  <2>1. dst[i - 1] \in R /\ ToSet(dst[i - 1]) = First(i - 1)
    BY <1>8
  <2>2. dst[i] = Next(i, dst[i - 1]) /\ i \in 0 .. n
    BY <1>1, <1>5
  <2>3. First(i) = First(i - 1) \cup {homes[i]}
    OBVIOUS
  <2> HIDE DEF Next, R, First, n
  <2> QED BY <1>2, <2>1, <2>2, <2>3
<1>9. n \in G
  <2>1. \A i \in 0 .. n : i \in G
    <3> HIDE DEF G, n
    <3> QED BY <1>1, <1>7, <1>8, UpTo
  <2> HIDE DEF G, n
  <2> QED BY <1>1, <2>1
<1>10. First(n) = ToSet(homes)
  BY <1>1 DEF ToSet
<1>11. dst[n] \in R /\ ToSet(dst[n]) = First(n)
  <2> HIDE DEF n, R, First
  <2> QED BY <1>9
<1> HIDE DEF First
<1> QED BY <1>6, <1>10, <1>11

-----------------------------------------------------------------------------
(* One feature enters a cache of at most size.                             *)
LEMMA EnteredSound ==
  ASSUME NEW T, NEW recent \in Seq(T), NEW f \in T, NEW size \in Nat \ {0},
         Len(recent) <= size
  PROVE  /\ Entered(recent, f, size) \in Seq(T)
         /\ Len(Entered(recent, f, size)) <= size
         /\ ToSet(Entered(recent, f, size)) \subseteq ToSet(recent) \cup {f}
<1> DEFINE others == Without(recent, f)
           gone == Cardinality(PlacesOf(recent, f))
           kept == IF Len(others) = size THEN Tail(others) ELSE others
<1>1. /\ others \in Seq(T \ {f}) /\ Len(others) + gone = Len(recent)
      /\ ToSet(others) = ToSet(recent) \ {f}
  BY WithoutSound
<1>2. gone \in Nat
  <2>1. IsFiniteSet(DOMAIN recent)
    <3>1. DOMAIN recent = 1 .. Len(recent) /\ 1 \in Int /\ Len(recent) \in Int
      OBVIOUS
    <3> QED BY <3>1, FS_Interval
  <2>2. PlacesOf(recent, f) \in SUBSET (DOMAIN recent)
    BY DEF PlacesOf
  <2> QED BY <2>1, <2>2, FS_Subset, FS_CardinalityType
<1>3. others \in Seq(T) /\ Len(others) \in Nat /\ Len(others) <= size
  <2>1. others \in Seq(T)
    <3> HIDE DEF others
    <3> QED BY <1>1
  <2>2. Len(others) \in Nat /\ Len(recent) \in Nat
    <3> HIDE DEF others
    <3> QED BY <2>1
  <2> HIDE DEF others, gone
  <2> QED BY <1>1, <1>2, <2>1, <2>2
<1>4. /\ kept \in Seq(T) /\ Len(kept) + 1 <= size
      /\ ToSet(kept) \subseteq ToSet(others)
  <2>1. CASE Len(others) = size
    <3>1. kept = Tail(others) /\ others # <<>>
      BY <1>3, <2>1
    <3> HIDE DEF others, kept
    <3>2. /\ Tail(others) \in Seq(T) /\ Len(Tail(others)) = Len(others) - 1
          /\ \A i \in 1 .. Len(others) - 1 : Tail(others)[i] = others[i + 1]
      BY <1>3, <3>1
    <3>3. ToSet(Tail(others)) \subseteq ToSet(others)
      <4>1. DOMAIN Tail(others) = 1 .. Len(others) - 1 /\ DOMAIN others = 1 .. Len(others)
        BY <1>3, <3>2
      <4>2. \A i \in 1 .. Len(others) - 1 : i + 1 \in 1 .. Len(others)
        BY <1>3
      <4> QED BY <3>2, <4>1, <4>2 DEF ToSet
    <3> QED BY <1>3, <2>1, <3>1, <3>2, <3>3
  <2>2. CASE Len(others) # size
    <3>1. kept = others
      BY <2>2
    <3> HIDE DEF others, kept
    <3> QED BY <1>3, <2>2, <3>1
  <2> QED BY <2>1, <2>2
<1>5. Entered(recent, f, size) = Append(kept, f)
  BY DEF Entered
<1> HIDE DEF kept, others, gone
<1>6. Append(kept, f) \in Seq(T) /\ Len(kept) \in Nat
  BY <1>4
<1>7. Len(Append(kept, f)) = Len(kept) + 1 /\ ToSet(Append(kept, f)) = ToSet(kept) \cup {f}
  BY <1>4, ToSetAppend
<1> QED BY <1>1, <1>4, <1>5, <1>6, <1>7

(* So do the features of a segment, one after the other.                   *)
LEMMA EnteredAllSound ==
  ASSUME NEW T, NEW recent \in Seq(T), NEW feature \in Seq(T), NEW size \in Nat \ {0},
         Len(recent) <= size
  PROVE  /\ EnteredAll(recent, feature, size) \in Seq(T)
         /\ Len(EnteredAll(recent, feature, size)) <= size
         /\ ToSet(EnteredAll(recent, feature, size)) \subseteq ToSet(recent) \cup ToSet(feature)
<1> DEFINE n == Len(feature)
           R == {r \in Seq(T) : /\ Len(r) <= size
                                /\ ToSet(r) \subseteq ToSet(recent) \cup ToSet(feature)}
           Next(i, r) == Entered(r, feature[i], size)
           g == [i \in 1 .. n |-> [r \in R |-> Next(i, r)]]
           after == CHOOSE r : r = [i \in 0 .. n |-> IF i = 0 THEN recent ELSE Entered(r[i - 1], feature[i], size)]
           G == {i \in 0 .. n : after[i] \in R}
<1>1. /\ n \in Nat
      /\ \A i \in 1 .. n : feature[i] \in T /\ feature[i] \in ToSet(feature)
  BY DEF ToSet
<1>2. recent \in R /\ \A i \in 1 .. n : \A r \in R : Next(i, r) \in R
  <2>1. ASSUME NEW i \in 1 .. n, NEW r \in R PROVE Next(i, r) \in R
    <3> DEFINE e == Entered(r, feature[i], size)
    <3>1. e \in Seq(T) /\ Len(e) <= size /\ ToSet(e) \subseteq ToSet(r) \cup {feature[i]}
      BY <1>1, EnteredSound
    <3> HIDE DEF e
    <3>2. e \in R
      BY <1>1, <3>1
    <3> QED BY <3>2 DEF e
  <2> QED BY <2>1
<1>3. PICK f : Loop(f, n, R, recent, g)
  <2>1. g \in [1 .. n -> [R -> R]] /\ recent \in R
    BY <1>2
  <2> HIDE DEF g, n, R
  <2> QED BY <1>1, <2>1, RecursiveFunction
<1>4. f = [i \in 0 .. n |-> IF i = 0 THEN recent ELSE Entered(f[i - 1], feature[i], size)]
  <2>1. ASSUME NEW i \in 1 .. n PROVE f[i] = Next(i, f[i - 1])
    <3>1. f[i - 1] \in R /\ f[i] = g[i][f[i - 1]]
      <4> HIDE DEF g, R
      <4> QED BY <1>1, <1>3 DEF Loop
    <3> HIDE DEF Next, R
    <3> QED BY <3>1
  <2>2. f[0] = recent /\ f = [i \in 0 .. n |-> f[i]]
    <3> HIDE DEF g, R, n
    <3> QED BY <1>3 DEF Loop
  <2>3. ASSUME NEW i \in 0 .. n
        PROVE  f[i] = IF i = 0 THEN recent ELSE Entered(f[i - 1], feature[i], size)
    <3>1. CASE i = 0
      BY <2>2, <3>1
    <3>2. CASE i # 0
      <4>1. i \in 1 .. n
        BY <1>1, <3>2
      <4>2. f[i] = Next(i, f[i - 1])
        BY <2>1, <4>1
      <4> QED BY <3>2, <4>2
    <3> QED BY <3>1, <3>2
  <2> QED BY <2>2, <2>3
<1>5. /\ after[0] = recent
      /\ \A i \in 1 .. n : after[i] = Next(i, after[i - 1])
  <2>1. after = [i \in 0 .. n |-> IF i = 0 THEN recent ELSE Entered(after[i - 1], feature[i], size)]
    BY <1>4
  <2> HIDE DEF after
  <2>2. after[0] = recent
    BY <1>1, <2>1
  <2>3. ASSUME NEW i \in 1 .. n PROVE after[i] = Next(i, after[i - 1])
    <3>1. i \in 0 .. n /\ i # 0
      BY <1>1
    <3> HIDE DEF n
    <3> QED BY <2>1, <3>1
  <2> QED BY <2>2, <2>3
<1>6. EnteredAll(recent, feature, size) = after[n]
  BY DEF EnteredAll
<1> HIDE DEF after
<1>7. 0 \in G
  BY <1>1, <1>2, <1>5
<1>8. ASSUME NEW i \in 1 .. n, i - 1 \in G PROVE i \in G
  <2>1. after[i] = Next(i, after[i - 1]) /\ i \in 0 .. n /\ after[i - 1] \in R
    BY <1>1, <1>5, <1>8
  <2> HIDE DEF Next, R, n
  <2> QED BY <1>2, <2>1
<1>9. n \in G
  <2>1. \A i \in 0 .. n : i \in G
    <3> HIDE DEF G, n
    <3> QED BY <1>1, <1>7, <1>8, UpTo
  <2> HIDE DEF G, n
  <2> QED BY <1>1, <2>1
<1> QED BY <1>6, <1>9

-----------------------------------------------------------------------------
(* The places of a sequence.                                               *)
LEMMA IndicesFinite ==
  ASSUME NEW n \in Nat
  PROVE  IsFiniteSet(1 .. n) /\ Cardinality(1 .. n) = n
<1>1. 1 \in Int /\ n \in Int
  OBVIOUS
<1>2. IsFiniteSet(1 .. n) /\ Cardinality(1 .. n) = IF 1 > n THEN 0 ELSE n - 1 + 1
  BY <1>1, FS_Interval
<1> QED BY <1>2

(* A sequence without repetitions has as many elements as places.          *)
LEMMA InjectiveSize ==
  ASSUME NEW S, NEW c \in Seq(S), IsInjective(c)
  PROVE  /\ IsFiniteSet(ToSet(c)) /\ Cardinality(ToSet(c)) = Len(c)
         /\ ToSet(c) \subseteq S
<1>1. Len(c) \in Nat /\ DOMAIN c = 1 .. Len(c) /\ c \in [1 .. Len(c) -> ToSet(c)]
  BY DEF ToSet
<1>2. c \in Surjection(1 .. Len(c), ToSet(c)) /\ c \in Injection(1 .. Len(c), ToSet(c))
  BY <1>1 DEF Surjection, Injection, ToSet, IsInjective
<1>3. IsFiniteSet(1 .. Len(c)) /\ Cardinality(1 .. Len(c)) = Len(c)
  BY <1>1, IndicesFinite
<1>4. IsFiniteSet(ToSet(c)) /\ Cardinality(ToSet(c)) = Len(c)
  BY <1>2, <1>3, FS_Surjection
<1>5. ToSet(c) \subseteq S
  BY <1>1 DEF ToSet
<1> QED BY <1>4, <1>5

(* All nodes, in order.                                                    *)
LEMMA AllNodesSound ==
  ASSUME NEW N \in Nat \ {0}, NEW all, all = [i \in 1 .. N |-> i - 1]
  PROVE  /\ all \in Seq(0 .. N - 1) /\ all # <<>> /\ IsInjective(all)
         /\ ToSet(all) = 0 .. N - 1
<1>1. DOMAIN all = 1 .. N /\ \A i \in 1 .. N : all[i] = i - 1 /\ all[i] \in 0 .. N - 1
  OBVIOUS
<1>2. all \in Seq(0 .. N - 1) /\ all # <<>>
  BY <1>1
<1>3. IsInjective(all)
  BY <1>1 DEF IsInjective
<1>4. \A n \in 0 .. N - 1 : n + 1 \in 1 .. N /\ all[n + 1] = n
  BY <1>1
<1>5. ToSet(all) = 0 .. N - 1
  <2>1. ToSet(all) = {all[i] : i \in 1 .. N}
    BY <1>1 DEF ToSet
  <2>2. \A n \in 0 .. N - 1 : n \in {all[i] : i \in 1 .. N}
    BY <1>4
  <2>3. \A i \in 1 .. N : all[i] \in 0 .. N - 1
    BY <1>1
  <2> QED BY <2>1, <2>2, <2>3
<1> QED BY <1>2, <1>3, <1>5

(* The features of a segment that a cache holds: at most all, and all of   *)
(* them only if it holds every one.                                        *)
LEMMA CacheHitsSound ==
  ASSUME NEW T, NEW recent \in Seq(T), NEW feature \in Seq(T)
  PROVE  /\ CacheHits(recent, feature) \in 0 .. Len(feature)
         /\ CacheHits(recent, feature) = Len(feature) => ToSet(feature) \subseteq ToSet(recent)
<1> DEFINE held == {i \in DOMAIN feature : Contains(recent, feature[i])}
           D == DOMAIN feature
<1>1. D = 1 .. Len(feature) /\ Len(feature) \in Nat
  OBVIOUS
<1>2. CacheHits(recent, feature) = Cardinality(held)
  BY DEF CacheHits
<1>3. held \in SUBSET D
  OBVIOUS
<1>4. IsFiniteSet(D) /\ Cardinality(D) = Len(feature)
  <2> HIDE DEF D
  <2> QED BY <1>1, IndicesFinite
<1>5. Cardinality(held) \in Nat /\ Cardinality(held) <= Len(feature)
      /\ (Cardinality(held) = Len(feature) => held = D)
  <2> HIDE DEF held, D
  <2>1. /\ IsFiniteSet(held) /\ Cardinality(held) <= Cardinality(D)
        /\ Cardinality(D) = Cardinality(held) => D = held
    BY <1>3, <1>4, FS_Subset
  <2>2. Cardinality(held) \in Nat
    BY <2>1, FS_CardinalityType
  <2> QED BY <1>4, <2>1, <2>2
<1>6. ASSUME CacheHits(recent, feature) = Len(feature), NEW i \in D
      PROVE  feature[i] \in ToSet(recent)
  <2>1. i \in held
    BY <1>2, <1>5, <1>6
  <2>2. Contains(recent, feature[i])
    BY <2>1
  <2>3. DOMAIN recent = 1 .. Len(recent)
    OBVIOUS
  <2> QED BY <2>2, <2>3 DEF Contains, ToSet
<1>7. CacheHits(recent, feature) = Len(feature) => ToSet(feature) \subseteq ToSet(recent)
  BY <1>6 DEF ToSet
<1> QED BY <1>1, <1>2, <1>5, <1>7
=============================================================================
