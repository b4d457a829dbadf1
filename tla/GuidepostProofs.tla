-------------------------- MODULE GuidepostProofs --------------------------
(***************************************************************************)
(* The routing by guideposts is correct for any number of nodes, features, *)
(* segments and parts, in the three builds, whatever the thresholds.       *)
(*                                                                         *)
(* The invariant follows a segment through gp_route.  Rounds says where    *)
(* the query to each node is: out, answered, or read.  Requests carries    *)
(* what a query and a reply mean from the moment the query is made up to   *)
(* the choice of the target: which features of the segment it counts, and  *)
(* that the node has them.  Truth is what makes the features that are not  *)
(* asked for hits on the node.  A node that has the whole segment when it  *)
(* is asked thereby reports all features, and BestSound (FullMatchIsBest   *)
(* of NodeChoiceProofs) makes the target such a node.                      *)
(*                                                                         *)
(* What the nodes do meanwhile only adds to what they hold (Grows): one    *)
(* lemma, NodeStep, shows that it disturbs nothing the client relies on.   *)
(***************************************************************************)
EXTENDS Guidepost, NodeChoiceProofs

(* What of S the slices of a node have together: all in one of them.       *)
Known(held, S) == S = {} \/ \E k \in held : S \subseteq k

(* Every slice of a node is still there, perhaps with more features.       *)
Larger(held, now) == \A k \in held : \E j \in now : k \subseteq j

TypesNode ==
  /\ build \in Builds
  /\ slices \in [Nodes -> SUBSET SUBSET Features]
  /\ stored \in [Nodes -> 0 .. MaxStored[build]]

TypesNet ==
  /\ query \in [Nodes -> Queries \cup {None}]
  /\ feaReply \in [Nodes -> Replies \cup {None}]
  /\ segment \in [Nodes -> BOOLEAN]
  /\ segReply \in [Nodes -> Nat \cup {None}]

TypesGp ==
  /\ gp \in [Nodes -> [Parts -> SUBSET Features]]
  /\ hitPos \in [Nodes -> Seq(Parts)]
  /\ \A n \in Nodes : Len(hitPos[n]) <= FEATURE_NUM
  /\ storage \in [Nodes -> Nat]

TypesRound ==
  /\ re \in [Nodes -> Replies]
  /\ count \in 0 .. NodeNum

TypesCache ==
  /\ cache \in [Nodes -> Seq(Features)]
  /\ \A n \in Nodes : Len(cache[n]) <= LCACHE_SIZE
  /\ known \in [Nodes -> Nat]

TypesHist ==
  /\ full \subseteq Nodes
  /\ sent \in [Nodes -> SUBSET Features]

Places == {"idle", "route", "ask", "collect", "update", "send", "await"}

Types ==
  /\ TypesNode /\ TypesNet /\ TypesGp /\ TypesRound /\ TypesCache /\ TypesHist
  /\ pc \in Places

(* What there is at each place of the client's code: a segment except when *)
(* it is idle, a target while the segment is sent, replies in re and a     *)
(* history of matches only when they were asked for.                       *)
Phases ==
  /\ IF pc = "idle" THEN feature = <<>> ELSE feature \in Segments[build]
  /\ IF pc \in {"send", "await"} THEN target \in Nodes ELSE target = NoNode
  /\ pc \notin {"collect", "update"} => re = [n \in Nodes |-> Unread]
  /\ pc \in {"idle", "route", "ask"} => full = {}
  /\ pc \in {"collect", "update"} => full \subseteq Considered

(* The nodes whose reply the client has read.                              *)
Read == {n \in Nodes : re[n].storage # None}

(* A node that was asked has the query, or its reply can be read, or was:  *)
(* one of the three; the same for the segment and the target; and count is *)
(* the number of replies read.                                             *)
Rounds ==
  /\ \A n \in Nodes : (pc = "await" /\ n = target) \/ (~segment[n] /\ segReply[n] = None)
  /\ pc = "await" => (segment[target] <=> segReply[target] = None)
  /\ pc \notin {"collect", "update"} =>
       \A n \in Nodes : query[n] = None /\ feaReply[n] = None
  /\ \A n \in Nodes :
       /\ query[n] # None => feaReply[n] = None /\ re[n].storage = None
       /\ feaReply[n] # None => re[n].storage = None
       /\ query[n] # None \/ feaReply[n] # None \/ re[n].storage # None => n \in Considered
       /\ pc \in {"collect", "update"} /\ n \in Considered =>
            query[n] # None \/ feaReply[n] # None \/ re[n].storage # None
  /\ pc = "collect" => count = Cardinality(Read) /\ count < Len(Candidates)
  /\ pc = "update" => \A n \in Considered : re[n].storage # None

(* A query asks for features of the segment; those it does not ask for are *)
(* hits, and the node has them.                                            *)
QueryGood(n, q) ==
  /\ q.hit <= HIT_THRES
  /\ DOMAIN q.fea \subseteq DOMAIN feature
  /\ q.hit + Cardinality(DOMAIN q.fea) = Len(feature)
  /\ q.old \subseteq DOMAIN q.fea
  /\ \A i \in q.old : feature[i] \in Indexed(n)
  /\ \A i \in DOMAIN q.fea : q.fea[i] = feature[i]
  /\ \A i \in DOMAIN feature \ DOMAIN q.fea : feature[i] \in Indexed(n)
  /\ n \in full => q.old = DOMAIN q.fea

(* A reply counts no feature twice, and all of them only if the node has    *)
(* them; the node stores what it says, and its slice is one of the node's. *)
ReplyGood(n, r) ==
  /\ r.hit <= Len(feature)
  /\ r.storage \in Nat /\ r.storage <= stored[n]
  /\ Known(slices[n], r.slice)
  /\ r.hit = Len(feature) => ToSet(feature) \subseteq Indexed(n)
  /\ n \in full => r.hit = Len(feature)

Requests ==
  \A n \in Nodes :
    /\ query[n] # None => QueryGood(n, query[n])
    /\ feaReply[n] # None => ReplyGood(n, feaReply[n])
    /\ re[n] # Unread => ReplyGood(n, re[n])

(* Of the features of the segment, the hits and those to be asked for are   *)
(* all, and use_force runs only when there are few hits.                   *)
Hits ==
  \A n \in Nodes : n \in Considered =>
    /\ pc \in {"ask", "collect", "update"} =>
         Len(hitPos[n]) <= HIT_THRES /\ Len(hitPos[n]) <= Len(feature)
    /\ pc = "ask" => Len(hitPos[n]) + Cardinality(AskFor(n)) = Len(feature)

Estimates ==
  /\ EstimateLags
  /\ \A n \in Nodes : segReply[n] # None => segReply[n] <= stored[n]

(* A guidepost, in the words of Known.                                     *)
Truth == \A n \in Nodes, p \in Parts : Known(slices[n], gp[n][p])

(* A cache has features the node was sent or is about to be sent.          *)
Pending(n) == IF pc \in {"send", "await"} /\ n = target THEN ToSet(feature) ELSE {}
Caches ==
  \A n \in Nodes : IF build = "ssdedup" THEN ToSet(cache[n]) \subseteq sent[n] \cup Pending(n)
                   ELSE cache[n] = <<>>

IInv ==
  /\ Types /\ Phases /\ Rounds /\ Requests /\ Hits /\ Estimates
  /\ Truth /\ FewPartsUsed /\ Caches /\ FullMatchFound

-----------------------------------------------------------------------------
(* The constants.                                                          *)
LEMMA Sizes ==
  /\ NodeNum \in Nat \ {0} /\ GP_PART \in Nat \ {0} /\ HIT_THRES \in Nat
  /\ FEATURE_NUM \in Nat \ {0} /\ EXP_SEGMENT_SIZE \in Nat /\ LCACHE_SIZE \in Nat \ {0}
  /\ AnyLoads \subseteq Nat
  /\ \A b \in Builds : MaxStored[b] \in Nat
  /\ HomeOf \in [Features -> Nodes]
BY ConstantAssumption DEF Nodes

LEMMA SegmentType ==
  ASSUME NEW b \in Builds, NEW s \in Segments[b]
  PROVE  /\ s \in Seq(Features) /\ Len(s) \in 1 .. FEATURE_NUM
         /\ DOMAIN s = 1 .. Len(s) /\ ToSet(s) \subseteq Features /\ s # <<>>
<1>1. s \in Seq(Features) /\ Len(s) \in 1 .. FEATURE_NUM
  BY ConstantAssumption
<1>2. FEATURE_NUM \in Nat
  BY Sizes
<1> QED BY <1>1, <1>2 DEF ToSet

LEMMA NodesFacts ==
  /\ IsFiniteSet(Nodes) /\ Cardinality(Nodes) = NodeNum
  /\ Nodes \subseteq Nat /\ NoNode \notin Nodes
<1>1. NodeNum \in Nat \ {0} /\ 0 \in Int /\ NodeNum - 1 \in Int
  BY Sizes
<1>2. /\ IsFiniteSet(0 .. NodeNum - 1)
      /\ Cardinality(0 .. NodeNum - 1) = IF 0 > NodeNum - 1 THEN 0 ELSE (NodeNum - 1) - 0 + 1
  BY <1>1, FS_Interval
<1> QED BY <1>1, <1>2 DEF Nodes, NoNode

-----------------------------------------------------------------------------
(* What grows keeps what it has.                                           *)
LEMMA LargerKnows ==
  ASSUME NEW held, NEW now, Larger(held, now), NEW S, Known(held, S)
  PROVE  Known(now, S)
BY DEF Larger, Known

LEMMA LargerHas ==
  ASSUME NEW held, NEW now, Larger(held, now)
  PROVE  UNION held \subseteq UNION now
BY DEF Larger

-----------------------------------------------------------------------------
(* The nodes that are considered: all, or those the features point to.     *)
LEMMA CandidatesSound ==
  ASSUME build \in Builds, feature \in Segments[build]
  PROVE  /\ Candidates \in Seq(Nodes) /\ Candidates # <<>>
         /\ Considered \subseteq Nodes /\ IsFiniteSet(Considered)
         /\ Len(Candidates) = Cardinality(Considered)
<1> DEFINE c == Candidates
           all == [i \in 1 .. NodeNum |-> i - 1]
           homes == [i \in DOMAIN feature |-> HomeOf[feature[i]]]
<1>1. c \in Seq(Nodes) /\ c # <<>> /\ IsInjective(c)
  <2>1. CASE build = "sigma"
    <3>1. feature \in Seq(Features) /\ DOMAIN feature = 1 .. Len(feature) /\ feature # <<>>
      BY SegmentType
    <3>2. homes \in Seq(Nodes) /\ DOMAIN homes = DOMAIN feature
      BY <3>1, Sizes
    <3>3. /\ AddressedNodes(homes) \in Seq(Nodes) /\ IsInjective(AddressedNodes(homes))
          /\ ToSet(AddressedNodes(homes)) = ToSet(homes)
      <4> HIDE DEF homes
      <4> QED BY <3>2, AddressedSound
    <3>4. ToSet(homes) # {} /\ ToSet(<<>>) = {}
      <4>1. 1 \in DOMAIN homes
        BY <3>1, <3>2
      <4> QED BY <4>1 DEF ToSet
    <3>5. c = AddressedNodes(homes)
      BY <2>1 DEF Candidates
    <3> HIDE DEF c, homes
    <3> QED BY <3>3, <3>4, <3>5
  <2>2. CASE build # "sigma"
    <3>1. c = all
      BY <2>2 DEF Candidates
    <3>2. all \in Seq(Nodes) /\ all # <<>> /\ IsInjective(all)
      <4> HIDE DEF all
      <4>1. all = [i \in 1 .. NodeNum |-> i - 1]
        BY DEF all
      <4> QED BY <4>1, Sizes, AllNodesSound DEF Nodes
    <3> HIDE DEF c, all
    <3> QED BY <3>1, <3>2
  <2> QED BY <2>1, <2>2
<1> HIDE DEF c
<1>2. IsFiniteSet(ToSet(c)) /\ Cardinality(ToSet(c)) = Len(c) /\ ToSet(c) \subseteq Nodes
  BY <1>1, InjectiveSize
<1> QED BY <1>1, <1>2 DEF c, Considered

(* The node chosen among them.                                             *)
LEMMA BestSound ==
  ASSUME build \in Builds, feature \in Segments[build],
         NEW hit, NEW loads, \A n \in Considered : hit[n] \in 0 .. Len(feature) /\ loads[n] \in Nat,
         NEW t \in Best(hit, loads)
  PROVE  /\ t \in Considered /\ t \in Nodes
         /\ (\E n \in Considered : hit[n] = Len(feature)) => hit[t] = Len(feature)
<1> DEFINE c == Candidates
           m == Len(feature)
<1>1. c \in Seq(Nodes) /\ c # <<>> /\ Considered \subseteq Nodes /\ m \in Nat
  BY CandidatesSound, SegmentType
<1>2. Considered = ToSet(c) /\ t \in BestAmong(c, hit, loads, m)
  BY DEF Considered, Best
<1> HIDE DEF c, m
<1>3. \A n \in ToSet(c) : hit[n] \in 0 .. m /\ loads[n] \in Nat
  BY <1>2 DEF m
<1>4. t \in ToSet(c) /\ ((\E n \in ToSet(c) : hit[n] = m) => hit[t] = m)
  BY <1>1, <1>2, <1>3, BestAmongSound
<1> QED BY <1>1, <1>2, <1>4 DEF m

(* An estimate is a number, as long as no more features hit than there are. *)
LEMMA ExpectedIsNat ==
  ASSUME build \in Builds, feature \in Segments[build], NEW hit \in 0 .. Len(feature)
  PROVE  Expected(hit) \in Nat
<1> DEFINE a == EXP_SEGMENT_SIZE * (Len(feature) - hit)
<1>1. Len(feature) \in Nat /\ EXP_SEGMENT_SIZE \in Nat /\ FEATURE_NUM \in Nat \ {0}
  BY SegmentType, Sizes
<1>2. Len(feature) - hit \in Nat
  BY <1>1
<1>3. a \in Nat
  BY <1>1, <1>2
<1> HIDE DEF a
<1>4. a \div FEATURE_NUM \in Nat
  BY <1>1, <1>3
<1> QED BY <1>4 DEF Expected, a

-----------------------------------------------------------------------------
(* match_in_gp finds a part that has the feature, if there is one.         *)
LEMMA HitPartSound ==
  ASSUME NEW n, NEW f
  PROVE  /\ HitPart(n, f) \in Parts \cup {None}
         /\ HitPart(n, f) # None => f \in gp[n][HitPart(n, f)]
<1> DEFINE has == {p \in Parts : f \in gp[n][p]}
<1>1. HitPart(n, f) = IF has = {} THEN None ELSE Min(has)
  BY DEF HitPart
<1>2. ASSUME has # {} PROVE Min(has) \in has
  <2>1. has \subseteq Nat
    BY Sizes DEF Parts
  <2> HIDE DEF has
  <2>2. PICK x \in has : \A y \in has : x <= y
    BY <1>2, <2>1, Smallest
  <2> QED BY <2>2 DEF Min
<1>3. CASE has = {}
  BY <1>1, <1>3
<1>4. CASE has # {}
  <2>1. HitPart(n, f) \in has
    BY <1>1, <1>2, <1>4
  <2> QED BY <2>1
<1> QED BY <1>3, <1>4

(* Every feature of the segment is a hit or is asked for.                  *)
LEMMA HitPartsSound ==
  ASSUME build \in Builds, feature \in Segments[build], NEW n
  PROVE  /\ HitParts(n) \in Seq(Parts)
         /\ Len(HitParts(n)) + Cardinality(AskFor(n)) = Len(feature)
         /\ Cardinality(AskFor(n)) \in Nat /\ IsFiniteSet(AskFor(n))
         /\ AskFor(n) \subseteq DOMAIN feature
         /\ AskFor(n) = {} \/ Len(HitParts(n)) < Len(feature)
<1> DEFINE s == [i \in DOMAIN feature |-> HitPart(n, feature[i])]
           T == Parts \cup {None}
<1>1. DOMAIN feature = 1 .. Len(feature) /\ Len(feature) \in Nat /\ FEATURE_NUM \in Nat
  BY SegmentType, Sizes
<1>2. s \in Seq(T) /\ Len(s) = Len(feature) /\ DOMAIN s = DOMAIN feature
  <2>1. \A i \in 1 .. Len(feature) : HitPart(n, feature[i]) \in T
    BY HitPartSound
  <2> HIDE DEF T
  <2> QED BY <1>1, <2>1
<1>3. T \ {None} = Parts
  BY Sizes, NoneAssumption DEF Parts
<1>4. AskFor(n) = PlacesOf(s, None)
  BY DEF AskFor, PlacesOf
<1>5. HitParts(n) = Without(s, None)
  BY DEF HitParts
<1> HIDE DEF s, T
<1>6. /\ HitParts(n) \in Seq(T \ {None})
      /\ Len(HitParts(n)) + Cardinality(AskFor(n)) = Len(feature)
  <2>1. /\ Without(s, None) \in Seq(T \ {None})
        /\ Len(Without(s, None)) + Cardinality(PlacesOf(s, None)) = Len(s)
    BY <1>2, WithoutSound
  <2> QED BY <1>2, <1>4, <1>5, <2>1
<1>7. IsFiniteSet(AskFor(n)) /\ AskFor(n) \subseteq DOMAIN feature
  <2>1. AskFor(n) \subseteq DOMAIN feature
    BY DEF AskFor
  <2>2. IsFiniteSet(1 .. Len(feature))
    BY <1>1, FS_Interval
  <2> QED BY <1>1, <2>1, <2>2, FS_Subset
<1>8. Cardinality(AskFor(n)) \in Nat /\ (Cardinality(AskFor(n)) = 0 <=> AskFor(n) = {})
  BY <1>7, FS_CardinalityType, FS_EmptySet
<1>9. HitParts(n) \in Seq(Parts) /\ Len(HitParts(n)) \in Nat
  BY <1>3, <1>6
<1> QED BY <1>1, <1>6, <1>7, <1>8, <1>9

(* A node has the features that hit in its guidepost.                      *)
LEMMA HitIsIndexed ==
  ASSUME Truth, NEW n \in Nodes, NEW i \in DOMAIN feature, i \notin AskFor(n)
  PROVE  feature[i] \in Indexed(n)
<1> DEFINE p == HitPart(n, feature[i])
<1>1. p # None
  BY DEF AskFor
<1>2. p \in Parts /\ feature[i] \in gp[n][p]
  BY <1>1, HitPartSound
<1> HIDE DEF p
<1>3. Known(slices[n], gp[n][p])
  BY <1>2 DEF Truth
<1> QED BY <1>2, <1>3 DEF Known, Indexed

(* lru_id: with fewer hits than the last h parts there are, one of these   *)
(* has none, and the part that is replaced is among them.                  *)
LEMMA LruIdIsLast ==
  ASSUME NEW n \in Nodes, hitPos[n] \in Seq(Parts), Len(hitPos[n]) <= HIT_THRES,
         HIT_THRES + 1 < GP_PART
  PROVE  LruId(n) \in Parts /\ LruId(n) + HIT_THRES + 1 >= GP_PART
<1> DEFINE pos == hitPos[n]
           last == GP_PART - HIT_THRES - 1 .. GP_PART - 1
           hit == {pos[i] : i \in DOMAIN pos}
           free == {p \in Parts : p \notin hit}
<1>1. /\ GP_PART \in Nat \ {0} /\ HIT_THRES \in Nat /\ Parts \subseteq Nat
      /\ last \subseteq Parts /\ Len(pos) \in Nat /\ DOMAIN pos = 1 .. Len(pos)
  BY Sizes DEF Parts
<1>2. IsFiniteSet(hit) /\ Cardinality(hit) <= HIT_THRES /\ Cardinality(hit) \in Nat
  <2>1. pos \in Surjection(DOMAIN pos, hit)
    <3>1. pos \in [DOMAIN pos -> hit]
      OBVIOUS
    <3>2. \A h \in hit : \E i \in DOMAIN pos : pos[i] = h
      OBVIOUS
    <3> HIDE DEF pos, hit
    <3> QED BY <3>1, <3>2 DEF Surjection
  <2>2. IsFiniteSet(DOMAIN pos) /\ Cardinality(DOMAIN pos) = Len(pos)
    BY <1>1, IndicesFinite
  <2> HIDE DEF pos, hit
  <2>3. IsFiniteSet(hit) /\ Cardinality(hit) <= Cardinality(DOMAIN pos)
    BY <2>1, <2>2, FS_Surjection
  <2>4. Cardinality(hit) \in Nat
    BY <2>3, FS_CardinalityType
  <2> QED BY <1>1, <2>2, <2>3, <2>4 DEF pos
<1>3. \E p \in last : p \in free
  <2>1. SUFFICES ASSUME last \subseteq hit PROVE FALSE
    BY <1>1
  <2>2. Cardinality(last) = HIT_THRES + 1
    <3> DEFINE a == GP_PART - HIT_THRES - 1
               b == GP_PART - 1
    <3>1. a \in Int /\ b \in Int /\ ~(a > b) /\ b - a + 1 = HIT_THRES + 1
      BY <1>1
    <3>2. last = a .. b
      OBVIOUS
    <3> HIDE DEF a, b, last
    <3>3. Cardinality(a .. b) = IF a > b THEN 0 ELSE b - a + 1
      BY <3>1, FS_Interval
    <3> QED BY <3>1, <3>2, <3>3
  <2> HIDE DEF last, hit
  <2>3. Cardinality(last) <= Cardinality(hit)
    BY <1>2, <2>1, FS_Subset
  <2> QED BY <1>1, <1>2, <2>2, <2>3
<1>4. PICK z \in last : z \in free
  BY <1>3
<1>5. \A p : HitsOn(n, p) = {} <=> p \notin hit
  BY DEF HitsOn
<1>6. \A p : Cardinality(HitsOn(n, p)) \in Nat /\ (Cardinality(HitsOn(n, p)) = 0 <=> HitsOn(n, p) = {})
  <2> TAKE p
  <2>1. IsFiniteSet(DOMAIN pos)
    BY <1>1, FS_Interval
  <2>2. HitsOn(n, p) \in SUBSET (DOMAIN pos)
    BY DEF HitsOn
  <2>3. IsFiniteSet(HitsOn(n, p))
    BY <2>1, <2>2, FS_Subset
  <2> QED BY <2>3, FS_CardinalityType, FS_EmptySet
<1>7. Fewest(n) = free
  <2>1. ASSUME NEW p \in Fewest(n) PROVE p \in free
    <3>1. p \in Parts /\ Cardinality(HitsOn(n, p)) <= Cardinality(HitsOn(n, z))
      BY <1>1, <1>4 DEF Fewest
    <3>2. Cardinality(HitsOn(n, z)) = 0
      BY <1>4, <1>5, <1>6
    <3>3. Cardinality(HitsOn(n, p)) = 0
      BY <1>6, <3>1, <3>2
    <3> QED BY <1>5, <1>6, <3>1, <3>3
  <2>2. ASSUME NEW p \in free PROVE p \in Fewest(n)
    <3>1. p \in Parts /\ Cardinality(HitsOn(n, p)) = 0
      BY <1>5, <1>6
    <3>2. \A q \in Parts : 0 <= Cardinality(HitsOn(n, q))
      BY <1>6
    <3> QED BY <3>1, <3>2 DEF Fewest
  <2> HIDE DEF free
  <2> QED BY <2>1, <2>2
<1>8. PICK m \in free : \A q \in free : q <= m
  <2> DEFINE D == {GP_PART - p : p \in free}
  <2>1. D \subseteq Nat /\ D # {}
    <3>1. \A p \in Parts : GP_PART - p \in Nat
      BY <1>1 DEF Parts
    <3> QED BY <1>4, <3>1
  <2>2. PICK x \in D : \A y \in D : x <= y
    <3> HIDE DEF D
    <3> QED BY <2>1, Smallest
  <2>3. PICK m \in free : x = GP_PART - m
    OBVIOUS
  <2>4. ASSUME NEW q \in free PROVE q <= m
    <3>1. x <= GP_PART - q
      BY <2>2
    <3>2. q \in Nat /\ m \in Nat
      BY <1>1
    <3> QED BY <1>1, <2>3, <3>1, <3>2
  <2> QED BY <2>4
<1>9. \A q \in free \ {m} : m > q
  <2> TAKE q \in free \ {m}
  <2>1. q <= m /\ q # m
    BY <1>8
  <2>2. q \in Nat /\ m \in Nat
    BY <1>1
  <2> HIDE DEF free
  <2> QED BY <2>1, <2>2
<1> DEFINE P(p) == \A q \in Fewest(n) \ {p} :
                     IF HitsOn(n, p) = {} THEN p > q ELSE Min(HitsOn(n, p)) > Min(HitsOn(n, q))
<1>10. \A p \in free : HitsOn(n, p) = {}
  BY <1>5
<1>11. m \in Fewest(n) /\ P(m)
  BY <1>7, <1>8, <1>9, <1>10
<1>12. LruId(n) \in Fewest(n) /\ P(LruId(n))
  <2>1. LruId(n) = CHOOSE p \in Fewest(n) : P(p)
    BY DEF LruId
  <2> HIDE DEF P
  <2> QED BY <1>11, <2>1
<1>13. LruId(n) >= z
  <2> DEFINE p == LruId(n)
  <2>1. p \in free /\ z \in free /\ HitsOn(n, p) = {}
    BY <1>4, <1>7, <1>10, <1>12
  <2>2. z # p => p > z
    BY <1>7, <1>12, <2>1
  <2>3. p \in Nat /\ z \in Nat
    BY <1>1, <2>1
  <2> QED BY <2>2, <2>3
<1>14. LruId(n) \in Parts /\ LruId(n) \in Nat /\ z \in Nat /\ z >= GP_PART - HIT_THRES - 1
  <2>1. LruId(n) \in Parts /\ z \in Parts
    BY <1>4, <1>7, <1>12
  <2>2. \A p \in last : p >= GP_PART - HIT_THRES - 1
    BY <1>1
  <2> QED BY <1>1, <2>1, <2>2
<1> QED BY <1>1, <1>13, <1>14

-----------------------------------------------------------------------------
(* Nothing has happened yet.                                               *)
LEMMA InitSound == Init => IInv
<1> SUFFICES ASSUME Init PROVE IInv
  OBVIOUS
<1>1. /\ build \in Builds
      /\ slices = [n \in Nodes |-> {}] /\ stored = [n \in Nodes |-> 0]
      /\ query = [n \in Nodes |-> None] /\ feaReply = [n \in Nodes |-> None]
      /\ segment = [n \in Nodes |-> FALSE] /\ segReply = [n \in Nodes |-> None]
      /\ pc = "idle" /\ feature = <<>> /\ gp = [n \in Nodes |-> [p \in Parts |-> {}]]
      /\ hitPos = [n \in Nodes |-> <<>>] /\ storage = [n \in Nodes |-> 0]
      /\ re = [n \in Nodes |-> Unread] /\ count = 0 /\ target = NoNode
      /\ cache = [n \in Nodes |-> <<>>] /\ known = [n \in Nodes |-> 0]
      /\ full = {} /\ sent = [n \in Nodes |-> {}]
  BY DEF Init
<1>2. Types
  <2>1. TypesNode
    <3>1. 0 \in 0 .. MaxStored[build]
      BY <1>1, Sizes
    <3> QED BY <1>1, <3>1 DEF TypesNode
  <2>2. TypesNet
    BY <1>1 DEF TypesNet
  <2>3. TypesGp
    BY <1>1, Sizes DEF TypesGp
  <2>4. TypesRound
    BY <1>1, Sizes DEF TypesRound, Unread, Replies
  <2>5. TypesCache
    BY <1>1, Sizes DEF TypesCache
  <2>6. TypesHist
    BY <1>1 DEF TypesHist
  <2> QED BY <1>1, <2>1, <2>2, <2>3, <2>4, <2>5, <2>6 DEF Types, Places
<1>3. Phases
  BY <1>1 DEF Phases
<1>4. Rounds
  BY <1>1 DEF Rounds, Unread
<1>5. Requests
  BY <1>1 DEF Requests
<1>6. Hits
  BY <1>1 DEF Hits
<1>7. Estimates
  BY <1>1 DEF Estimates, EstimateLags
<1>8. Truth
  BY <1>1 DEF Truth, Known
<1>9. FewPartsUsed
  BY <1>1 DEF FewPartsUsed
<1>10. Caches
  <2>1. ToSet(<<>>) = {}
    BY DEF ToSet
  <2> QED BY <1>1, <2>1 DEF Caches
<1>11. FullMatchFound
  BY <1>1 DEF FullMatchFound
<1> QED
  BY <1>2, <1>3, <1>4, <1>5, <1>6, <1>7, <1>8, <1>9, <1>10, <1>11 DEF IInv

-----------------------------------------------------------------------------
(* What a step of the nodes does to what they hold.                        *)
Grows ==
  \A n \in Nodes : Larger(slices[n], slices'[n]) /\ stored[n] <= stored'[n]

LEMMA SameIsLarger ==
  ASSUME slices' = slices, \A n \in Nodes : stored[n] <= stored'[n]
  PROVE  Grows
BY DEF Grows, Larger

LEMMA NumbersStored ==
  ASSUME NEW b \in Builds, NEW s \in [Nodes -> 0 .. MaxStored[b]]
  PROVE  \A n \in Nodes : s[n] \in Nat
<1>1. MaxStored[b] \in Nat
  BY Sizes
<1>2. \A x \in 0 .. MaxStored[b] : x \in Nat
  BY <1>1
<1> QED BY <1>2

(* The nodes considered depend on nothing but the segment.                 *)
LEMMA ConsideredStays ==
  ASSUME build' = build, feature' = feature
  PROVE  Candidates' = Candidates /\ Considered' = Considered
BY DEF Candidates, Considered

(* What a node has indexed it keeps.                                       *)
LEMMA IndexedGrows ==
  ASSUME Grows, NEW n \in Nodes
  PROVE  Indexed(n) \subseteq Indexed(n)'
BY LargerHas DEF Grows, Indexed

(* Queries and replies remain as good as they were when the nodes grow.    *)
LEMMA QueryStays ==
  ASSUME Grows, feature' = feature, full' = full, NEW n \in Nodes,
         QueryGood(n, query[n]), query'[n] = query[n]
  PROVE  QueryGood(n, query[n])'
BY IndexedGrows DEF QueryGood

LEMMA ReplyStays ==
  ASSUME Grows, TypesNode, TypesNode', feature' = feature, full' = full,
         NEW n \in Nodes, NEW r, ReplyGood(n, r)
  PROVE  ReplyGood(n, r)'
<1>1. stored[n] \in Nat /\ stored'[n] \in Nat
  BY NumbersStored DEF TypesNode
<1>2. Known(slices'[n], r.slice)
  BY LargerKnows DEF Grows, ReplyGood
<1>3. r.storage \in Nat /\ r.storage <= stored'[n]
  BY <1>1 DEF Grows, ReplyGood
<1> QED BY <1>2, <1>3, IndexedGrows DEF ReplyGood

-----------------------------------------------------------------------------
(* A step of the nodes leaves the client alone; what the client believes of *)
(* them is as true as before.                                              *)
LEMMA NodeStep ==
  ASSUME IInv, UNCHANGED <<build, clientVars>>, Grows, TypesNode', TypesNet'
  PROVE  /\ Types' /\ Phases' /\ Hits' /\ Truth' /\ FewPartsUsed' /\ Caches'
         /\ FullMatchFound' /\ EstimateLags'
<1> USE DEF clientVars, gpVars, roundVars, cacheVars, histVars
<1>1. Candidates' = Candidates /\ Considered' = Considered
  BY ConsideredStays
<1>2. Types'
  <2>1. Types
    BY DEF IInv
  <2> QED BY <2>1 DEF Types, TypesGp, TypesRound, TypesCache, TypesHist
<1>3. Phases'
  BY <1>1 DEF IInv, Phases
<1>4. Hits'
  <2>1. \A n \in Nodes : AskFor(n)' = AskFor(n)
    BY DEF AskFor, HitPart
  <2> QED BY <1>1, <2>1 DEF IInv, Hits
<1>5. Truth'
  <2>1. Truth
    BY DEF IInv
  <2> QED BY <2>1, LargerKnows DEF Truth, Grows
<1>6. FewPartsUsed'
  <2>1. FewPartsUsed
    BY DEF IInv
  <2> QED BY <2>1 DEF FewPartsUsed
<1>7. Caches'
  <2>1. Caches
    BY DEF IInv
  <2> QED BY <2>1 DEF Caches, Pending
<1>8. FullMatchFound'
  <2>1. FullMatchFound /\ (pc \in {"send", "await"} => target \in Nodes)
    BY DEF IInv, Phases
  <2> QED BY <2>1, IndexedGrows DEF FullMatchFound
<1>9. EstimateLags'
  <2>1. ASSUME NEW n \in Nodes, pc = "idle" \/ n # target PROVE storage[n] <= stored'[n]
    <3>1. storage[n] <= stored[n] /\ stored[n] <= stored'[n]
      BY <2>1 DEF IInv, Estimates, EstimateLags, Grows
    <3>2. storage[n] \in Nat /\ stored[n] \in Nat /\ stored'[n] \in Nat
      BY NumbersStored DEF IInv, Types, TypesGp, TypesNode
    <3> QED BY <3>1, <3>2
  <2> QED BY <2>1 DEF EstimateLags
<1> QED BY <1>2, <1>3, <1>4, <1>5, <1>6, <1>7, <1>8, <1>9

(* A node grows on its own: no message is touched.                         *)
LEMMA GrowthSound ==
  ASSUME IInv, UNCHANGED <<build, netVars, clientVars>>, Grows, TypesNode'
  PROVE  IInv'
<1> USE DEF netVars
<1>1. TypesNet'
  BY DEF IInv, Types, TypesNet
<1>2. /\ Types' /\ Phases' /\ Hits' /\ Truth' /\ FewPartsUsed' /\ Caches'
      /\ FullMatchFound' /\ EstimateLags'
  BY <1>1, NodeStep
<1> USE DEF clientVars, gpVars, roundVars, cacheVars, histVars
<1>3. Rounds'
  <2>1. Candidates' = Candidates /\ Considered' = Considered
    BY ConsideredStays
  <2>2. Read' = Read
    BY DEF Read
  <2> QED BY <2>1, <2>2 DEF IInv, Rounds
<1>4. Requests'
  <2> SUFFICES ASSUME NEW n \in Nodes
               PROVE  /\ query'[n] # None => QueryGood(n, query[n])'
                      /\ feaReply'[n] # None => ReplyGood(n, feaReply[n])'
                      /\ re'[n] # Unread => ReplyGood(n, re[n])'
    BY DEF Requests
  <2>1. /\ query[n] # None => QueryGood(n, query[n])
        /\ feaReply[n] # None => ReplyGood(n, feaReply[n])
        /\ re[n] # Unread => ReplyGood(n, re[n])
        /\ TypesNode
    BY DEF IInv, Requests, Types
  <2>2. query[n] # None => QueryGood(n, query[n])'
    BY <2>1, QueryStays
  <2>3. feaReply[n] # None => ReplyGood(n, feaReply[n])'
    BY <2>1, ReplyStays
  <2>4. re[n] # Unread => ReplyGood(n, re[n])'
    BY <2>1, ReplyStays
  <2> QED BY <2>2, <2>3, <2>4
<1>5. \A n \in Nodes : segReply'[n] # None => segReply'[n] <= stored'[n]
  <2> TAKE n \in Nodes
  <2>1. segReply[n] # None => segReply[n] <= stored[n] /\ segReply[n] \in Nat
    BY DEF IInv, Estimates, Types, TypesNet
  <2>2. stored[n] \in Nat /\ stored'[n] \in Nat /\ stored[n] <= stored'[n]
    BY NumbersStored DEF IInv, Types, TypesNode, Grows
  <2> QED BY <2>1, <2>2
<1> QED BY <1>2, <1>3, <1>4, <1>5 DEF IInv, Estimates

(* A feature is indexed in a slice with room, or in a new one.             *)
LEMMA IndexFeatureSound ==
  ASSUME IInv, UNCHANGED build, NEW n \in Nodes, NEW f \in Features, IndexFeature(n, f)
  PROVE  IInv'
<1>1. UNCHANGED <<stored, netVars, clientVars>>
  BY DEF IndexFeature
<1>2. TypesNode
  BY DEF IInv, Types
<1>3. PICK now \in SUBSET SUBSET Features :
        slices' = [slices EXCEPT ![n] = now] /\ Larger(slices[n], now)
  <2>1. CASE \E k \in slices[n] : slices' = [slices EXCEPT ![n] = (@ \ {k}) \cup {k \cup {f}}]
    <3>1. PICK k \in slices[n] : slices' = [slices EXCEPT ![n] = (@ \ {k}) \cup {k \cup {f}}]
      BY <2>1
    <3> DEFINE now == (slices[n] \ {k}) \cup {k \cup {f}}
    <3>2. slices' = [slices EXCEPT ![n] = now]
      BY <1>2, <3>1 DEF TypesNode
    <3>3. now \in SUBSET SUBSET Features
      <4>1. slices[n] \in SUBSET SUBSET Features /\ k \in SUBSET Features
        BY <1>2, <3>1 DEF TypesNode
      <4> QED BY <4>1
    <3>4. Larger(slices[n], now)
      <4>1. \A j \in slices[n] : j # k => j \in now
        OBVIOUS
      <4>2. k \cup {f} \in now /\ k \subseteq k \cup {f}
        OBVIOUS
      <4> HIDE DEF now
      <4> QED BY <4>1, <4>2 DEF Larger
    <3> HIDE DEF now
    <3> QED BY <3>2, <3>3, <3>4
  <2>2. CASE slices' = [slices EXCEPT ![n] = @ \cup {{f}}]
    <3> DEFINE now == slices[n] \cup {{f}}
    <3>1. slices' = [slices EXCEPT ![n] = now]
      BY <1>2, <2>2 DEF TypesNode
    <3>2. now \in SUBSET SUBSET Features
      <4>1. slices[n] \in SUBSET SUBSET Features
        BY <1>2 DEF TypesNode
      <4> QED BY <4>1
    <3>3. Larger(slices[n], now)
      BY DEF Larger
    <3> HIDE DEF now
    <3> QED BY <3>1, <3>2, <3>3
  <2> QED BY <2>1, <2>2 DEF IndexFeature
<1>4. TypesNode'
  BY <1>1, <1>2, <1>3 DEF TypesNode
<1>5. \A m \in Nodes : Larger(slices[m], slices'[m])
  <2>1. \A m \in Nodes : slices'[m] = IF m = n THEN now ELSE slices[m]
    BY <1>2, <1>3 DEF TypesNode
  <2>2. \A m \in Nodes : Larger(slices[m], slices[m])
    BY DEF Larger
  <2> QED BY <1>3, <2>1, <2>2
<1>6. \A m \in Nodes : stored[m] <= stored'[m]
  BY <1>1, <1>2, NumbersStored DEF TypesNode
<1>7. Grows
  BY <1>5, <1>6 DEF Grows
<1> QED BY <1>1, <1>4, <1>7, GrowthSound

(* Chunks are stored: on their own, or with the answer to a segment.       *)
LEMMA StoredGrows ==
  ASSUME TypesNode, UNCHANGED <<build, slices>>, NEW n \in Nodes,
         NEW new \in 0 .. MaxStored[build] - stored[n],
         stored' = [stored EXCEPT ![n] = @ + new]
  PROVE  Grows /\ TypesNode'
<1>1. MaxStored[build] \in Nat /\ \A m \in Nodes : stored[m] \in 0 .. MaxStored[build]
  BY Sizes DEF TypesNode
<1>2. new \in Nat /\ stored[n] + new \in 0 .. MaxStored[build] /\ stored[n] <= stored[n] + new
  <2>1. stored[n] \in 0 .. MaxStored[build]
    BY <1>1
  <2> QED BY <1>1, <2>1
<1>3. \A m \in Nodes : stored'[m] = IF m = n THEN stored[n] + new ELSE stored[m]
  BY DEF TypesNode
<1>4. \A m \in Nodes : stored[m] <= stored'[m]
  <2>1. \A x \in 0 .. MaxStored[build] : x <= x
    BY <1>1
  <2> QED BY <1>1, <1>2, <1>3, <2>1
<1>5. TypesNode'
  <2>1. [stored EXCEPT ![n] = @ + new] \in [Nodes -> 0 .. MaxStored[build]]
    BY <1>1, <1>2 DEF TypesNode
  <2> QED BY <2>1 DEF TypesNode
<1>6. Grows
  BY <1>4, SameIsLarger
<1> QED BY <1>5, <1>6

LEMMA StoreChunkSound ==
  ASSUME IInv, UNCHANGED build, NEW n \in Nodes, StoreChunk(n)
  PROVE  IInv'
<1>1. UNCHANGED <<slices, netVars, clientVars>> /\ stored' = [stored EXCEPT ![n] = @ + 1]
  BY DEF StoreChunk
<1>2. TypesNode
  BY DEF IInv, Types
<1>3. 1 \in 0 .. MaxStored[build] - stored[n]
  <2>1. stored[n] \in 0 .. MaxStored[build] /\ MaxStored[build] \in Nat
    BY <1>2, Sizes DEF TypesNode
  <2> QED BY <2>1 DEF StoreChunk
<1>4. Grows /\ TypesNode'
  BY <1>1, <1>2, <1>3, StoredGrows
<1> QED BY <1>1, <1>4, GrowthSound

(* The target answers the segment with what it stores then.                *)
LEMMA AnswerSegmentSound ==
  ASSUME IInv, UNCHANGED build, NEW n \in Nodes, AnswerSegment(n)
  PROVE  IInv'
<1>1. UNCHANGED <<slices, query, feaReply, clientVars>> /\ segment[n]
  BY DEF AnswerSegment
<1>2. TypesNode /\ TypesNet
  BY DEF IInv, Types
<1>3. PICK new \in 0 .. MaxStored[build] - stored[n] :
        stored' = [stored EXCEPT ![n] = @ + new]
  BY DEF AnswerSegment
<1>4. segReply' = [segReply EXCEPT ![n] = stored'[n]] /\ segment' = [segment EXCEPT ![n] = FALSE]
  BY DEF AnswerSegment
<1>5. Grows /\ TypesNode'
  BY <1>1, <1>2, <1>3, StoredGrows
<1>6. \A m \in Nodes : stored'[m] \in Nat /\ stored[m] \in Nat /\ stored[m] <= stored'[m]
  BY <1>2, <1>5, NumbersStored DEF TypesNode, Grows
<1>7. TypesNet'
  BY <1>1, <1>2, <1>4, <1>6 DEF TypesNet
<1>8. /\ Types' /\ Phases' /\ Hits' /\ Truth' /\ FewPartsUsed' /\ Caches'
      /\ FullMatchFound' /\ EstimateLags'
  BY <1>1, <1>5, <1>7, NodeStep
<1> USE DEF clientVars, gpVars, roundVars, cacheVars, histVars
<1>9. pc = "await" /\ n = target
  BY <1>1 DEF IInv, Rounds
<1>10. Rounds'
  <2>1. Candidates' = Candidates /\ Considered' = Considered /\ Read' = Read
    BY <1>1, ConsideredStays DEF Read
  <2>2. \A m \in Nodes : m # target => ~segment'[m] /\ segReply'[m] = None
    <3>1. \A m \in Nodes : m # target => ~segment[m] /\ segReply[m] = None
      BY DEF IInv, Rounds
    <3> QED BY <1>2, <1>4, <1>9, <3>1 DEF TypesNet
  <2>3. ~segment'[target] /\ segReply'[target] # None
    <3>1. segment'[n] = FALSE /\ segReply'[n] = stored'[n]
      BY <1>2, <1>4 DEF TypesNet
    <3> QED BY <1>6, <1>9, <3>1, NoneAssumption
  <2>4. pc' = "await" /\ target' = target
    BY <1>1, <1>9
  <2>5. \A m \in Nodes : (pc' = "await" /\ m = target') \/ (~segment'[m] /\ segReply'[m] = None)
    BY <2>2, <2>4
  <2>6. segment'[target'] <=> segReply'[target'] = None
    BY <2>3, <2>4
  <2>7. \A m \in Nodes :
          /\ query[m] = None /\ feaReply[m] = None
          /\ query[m] # None \/ feaReply[m] # None \/ re[m].storage # None => m \in Considered
    BY <1>9 DEF IInv, Rounds
  <2> QED BY <1>1, <2>1, <2>4, <2>5, <2>6, <2>7 DEF Rounds
<1>11. Requests'
  <2>1. \A m \in Nodes : query[m] = None /\ feaReply[m] = None /\ (re[m] # Unread => ReplyGood(m, re[m]))
    BY <1>9 DEF IInv, Rounds, Requests
  <2>2. \A m \in Nodes : re[m] # Unread => ReplyGood(m, re[m])'
    BY <1>1, <1>2, <1>5, <2>1, ReplyStays
  <2> QED BY <1>1, <2>1, <2>2 DEF Requests
<1>12. \A m \in Nodes : segReply'[m] # None => segReply'[m] <= stored'[m]
  <2> TAKE m \in Nodes
  <2>1. m # n => segReply'[m] = segReply[m]
    BY <1>2, <1>4 DEF TypesNet
  <2>2. m # n => segReply[m] = None
    BY <1>9 DEF IInv, Rounds
  <2>3. segReply'[n] = stored'[n]
    BY <1>2, <1>4 DEF TypesNet
  <2> QED BY <1>6, <2>1, <2>2, <2>3
<1> QED BY <1>8, <1>10, <1>11, <1>12 DEF IInv, Estimates

(* A node answers the query: it finds features it had when it was asked,   *)
(* and any it got since.                                                   *)
LEMMA AnswerQuerySound ==
  ASSUME IInv, UNCHANGED build, NEW n \in Nodes, AnswerQuery(n)
  PROVE  IInv'
<1> DEFINE q == query[n]
           asked == q.fea
           D == DOMAIN asked
           indexed == {i \in D : asked[i] \in Indexed(n)}
<1>1. /\ UNCHANGED <<nodeVars, segment, segReply, clientVars>> /\ q # None
      /\ query' = [query EXCEPT ![n] = None]
  BY DEF AnswerQuery
<1>2. PICK at : /\ q.old \subseteq at /\ at \subseteq q.old \cup indexed
                /\ \E slice : /\ feaReply' = [feaReply EXCEPT ![n] =
                                    [hit |-> q.hit + Cardinality(at), storage |-> stored[n], slice |-> slice]]
                              /\ slice = {} \/ \E k \in slices[n] : slice \subseteq k
  BY DEF AnswerQuery
<1>3. PICK slice : /\ feaReply' = [feaReply EXCEPT ![n] =
                        [hit |-> q.hit + Cardinality(at), storage |-> stored[n], slice |-> slice]]
                   /\ slice = {} \/ \E k \in slices[n] : slice \subseteq k
  BY <1>2
<1> DEFINE r == [hit |-> q.hit + Cardinality(at), storage |-> stored[n], slice |-> slice]
<1>4. TypesNode /\ TypesNet /\ QueryGood(n, q) /\ q \in Queries
  BY <1>1 DEF IInv, Types, TypesNet, Requests
<1>5. feature \in Segments[build] /\ pc \in {"collect", "update"}
  BY <1>1 DEF IInv, Phases, Rounds
<1>6. DOMAIN feature = 1 .. Len(feature) /\ Len(feature) \in Nat
  BY <1>4, <1>5, SegmentType DEF TypesNode
<1>7. IsFiniteSet(D) /\ at \subseteq D /\ IsFiniteSet(at)
      /\ Cardinality(at) \in Nat /\ Cardinality(D) \in Nat
      /\ Cardinality(at) <= Cardinality(D) /\ (Cardinality(at) = Cardinality(D) => at = D)
  <2>1. D \subseteq DOMAIN feature /\ q.old \subseteq D
    BY <1>4 DEF QueryGood
  <2>2. IsFiniteSet(DOMAIN feature)
    BY <1>6, FS_Interval
  <2>3. IsFiniteSet(D)
    <3> HIDE DEF D
    <3> QED BY <2>1, <2>2, FS_Subset
  <2>4. at \subseteq D
    BY <1>2, <2>1
  <2> HIDE DEF D
  <2> QED BY <2>3, <2>4, FS_Subset, FS_CardinalityType
<1>8. stored[n] \in Nat
  BY <1>4, NumbersStored DEF TypesNode
<1>9. q.hit \in Nat /\ q.hit + Cardinality(D) = Len(feature)
  BY <1>4 DEF QueryGood, Queries
<1>10. /\ r.hit = q.hit + Cardinality(at) /\ r.hit \in Nat /\ r.hit <= Len(feature)
       /\ r.storage = stored[n] /\ r.slice = slice /\ (r.hit = Len(feature) => at = D)
  <2>1. r.hit = q.hit + Cardinality(at) /\ r.storage = stored[n] /\ r.slice = slice
    OBVIOUS
  <2> HIDE DEF r, D, q
  <2> QED BY <1>6, <1>7, <1>9, <2>1
<1>11. ReplyGood(n, r)
  <2>1. Known(slices[n], r.slice)
    BY <1>3, <1>10 DEF Known
  <2>2. ASSUME r.hit = Len(feature) PROVE ToSet(feature) \subseteq Indexed(n)
    <3>1. at = D
      BY <1>10, <2>2
    <3>2. \A i \in D : feature[i] \in Indexed(n)
      BY <1>2, <1>4, <3>1 DEF QueryGood
    <3>3. \A i \in DOMAIN feature : feature[i] \in Indexed(n)
      BY <1>4, <3>2 DEF QueryGood
    <3> QED BY <3>3 DEF ToSet
  <2>3. ASSUME n \in full PROVE r.hit = Len(feature)
    <3>1. at = D
      BY <1>2, <1>4, <1>7, <2>3 DEF QueryGood
    <3> HIDE DEF D, q, r
    <3> QED BY <1>9, <1>10, <3>1
  <2>4. r.storage \in Nat /\ r.storage <= stored[n]
    BY <1>8, <1>10
  <2> HIDE DEF r
  <2> QED BY <1>10, <2>1, <2>2, <2>3, <2>4 DEF ReplyGood
<1>12. r \in Replies
  <2>1. slice \in SUBSET Features
    <3>1. slices[n] \in SUBSET SUBSET Features
      BY <1>4 DEF TypesNode
    <3> QED BY <1>3, <3>1
  <2> HIDE DEF q, D
  <2> QED BY <1>8, <1>10, <2>1 DEF Replies
<1> HIDE DEF r
<1>13. PICK v : v = r
  OBVIOUS
<1>14. /\ feaReply' = [feaReply EXCEPT ![n] = v]
       /\ ReplyGood(n, v) /\ v \in Replies
  BY <1>3, <1>11, <1>12, <1>13 DEF r
<1> HIDE DEF q, D, indexed
<1>15. Grows /\ TypesNode'
  <2>1. slices' = slices /\ stored' = stored
    BY <1>1 DEF nodeVars
  <2>2. \A m \in Nodes : stored[m] <= stored[m]
    BY <1>4, NumbersStored DEF TypesNode
  <2> QED BY <1>4, <2>1, <2>2, SameIsLarger DEF TypesNode
<1>16. TypesNet'
  BY <1>1, <1>4, <1>14 DEF TypesNet
<1>17. /\ Types' /\ Phases' /\ Hits' /\ Truth' /\ FewPartsUsed' /\ Caches'
       /\ FullMatchFound' /\ EstimateLags'
  BY <1>1, <1>15, <1>16, NodeStep
<1>18. /\ \A m \in Nodes : query'[m] = IF m = n THEN None ELSE query[m]
       /\ \A m \in Nodes : feaReply'[m] = IF m = n THEN v ELSE feaReply[m]
       /\ v # None
  BY <1>1, <1>4, <1>14, NoneAssumption DEF TypesNet
<1> USE DEF nodeVars, clientVars, gpVars, roundVars, cacheVars, histVars
<1>19. Rounds'
  <2>1. Candidates' = Candidates /\ Considered' = Considered /\ Read' = Read
    BY <1>1, ConsideredStays DEF Read
  <2>2. UNCHANGED <<pc, re, count, segment, segReply, target>>
    BY <1>1
  <2>3. query[n] # None
    BY <1>1 DEF q
  <2> QED BY <1>5, <1>18, <2>1, <2>2, <2>3 DEF IInv, Rounds
<1>20. Requests'
  <2> SUFFICES ASSUME NEW m \in Nodes
               PROVE  /\ query'[m] # None => QueryGood(m, query[m])'
                      /\ feaReply'[m] # None => ReplyGood(m, feaReply[m])'
                      /\ re'[m] # Unread => ReplyGood(m, re[m])'
    BY DEF Requests
  <2>1. /\ query[m] # None => QueryGood(m, query[m])
        /\ feaReply[m] # None => ReplyGood(m, feaReply[m])
        /\ re[m] # Unread => ReplyGood(m, re[m])
    BY DEF IInv, Requests
  <2>2. query'[m] # None => QueryGood(m, query[m])'
    BY <1>1, <1>15, <1>18, <2>1, QueryStays
  <2>3. re'[m] # Unread => ReplyGood(m, re[m])'
    BY <1>1, <1>4, <1>15, <2>1, ReplyStays
  <2>4. CASE m = n
    <3>1. ReplyGood(n, v)'
      BY <1>1, <1>4, <1>15, <1>14, ReplyStays
    <3> QED BY <1>18, <2>2, <2>3, <2>4, <3>1
  <2>5. CASE m # n
    <3>1. feaReply'[m] = feaReply[m]
      BY <1>18, <2>5
    <3>2. feaReply'[m] # None => ReplyGood(m, feaReply[m])'
      BY <1>1, <1>4, <1>15, <2>1, <3>1, ReplyStays
    <3> QED BY <2>2, <2>3, <3>2
  <2> QED BY <2>4, <2>5
<1>21. \A m \in Nodes : segReply'[m] # None => segReply'[m] <= stored'[m]
  BY <1>1 DEF IInv, Estimates
<1> QED BY <1>17, <1>19, <1>20, <1>21 DEF IInv, Estimates

-----------------------------------------------------------------------------
(* The parts of the invariant that are about what a step leaves alone.     *)
LEMMA NodesStay ==
  ASSUME TypesNode, UNCHANGED <<build, nodeVars>>
  PROVE  Grows /\ TypesNode' /\ \A n \in Nodes : Indexed(n)' = Indexed(n)
<1>1. slices' = slices /\ stored' = stored /\ build' = build
  BY DEF nodeVars
<1>2. \A n \in Nodes : stored[n] <= stored[n]
  BY NumbersStored DEF TypesNode
<1>3. TypesNode'
  BY <1>1 DEF TypesNode
<1> QED BY <1>1, <1>2, <1>3, SameIsLarger DEF Indexed

LEMMA TruthStays ==
  ASSUME Truth, FewPartsUsed, UNCHANGED <<slices, gp>>
  PROVE  Truth' /\ FewPartsUsed'
BY DEF Truth, FewPartsUsed

(* A segment is taken up.                                                  *)
LEMMA NextSegmentSound ==
  ASSUME IInv, UNCHANGED build, NextSegment
  PROVE  IInv'
<1>1. /\ pc = "idle" /\ pc' = "route" /\ feature' \in Segments[build]
      /\ UNCHANGED <<nodeVars, netVars, gpVars, storage, roundVars, target, cacheVars, histVars>>
  BY DEF NextSegment, Goto
<1>2. UNCHANGED <<slices, stored, query, feaReply, segment, segReply, gp, hitPos, storage, re,
                  count, target, cache, known, full, sent>>
  BY <1>1 DEF nodeVars, netVars, gpVars, roundVars, cacheVars, histVars
<1>3. Types'
  <2>1. TypesNode' /\ TypesNet' /\ TypesGp' /\ TypesRound' /\ TypesCache' /\ TypesHist'
    BY <1>2 DEF IInv, Types, TypesNode, TypesNet, TypesGp, TypesRound, TypesCache, TypesHist
  <2> QED BY <1>1, <2>1 DEF Types, Places
<1>4. target = NoNode /\ full = {} /\ re = [n \in Nodes |-> Unread]
  BY <1>1 DEF IInv, Phases
<1>5. Phases'
  BY <1>1, <1>2, <1>4 DEF Phases
<1>6. \A n \in Nodes : /\ query[n] = None /\ feaReply[n] = None /\ re[n] = Unread
                       /\ ~segment[n] /\ segReply[n] = None
  BY <1>1, <1>4 DEF IInv, Rounds
<1>7. Rounds'
  <2>1. \A n \in Nodes : re'[n].storage = None
    BY <1>2, <1>6 DEF Unread
  <2> QED BY <1>1, <1>2, <1>6, <2>1 DEF Rounds
<1>8. Requests'
  BY <1>2, <1>6 DEF Requests
<1>9. Hits'
  BY <1>1 DEF Hits
<1>10. Estimates'
  <2>1. \A n \in Nodes : storage[n] <= stored[n]
    BY <1>1 DEF IInv, Estimates, EstimateLags
  <2> QED BY <1>2, <1>6, <2>1 DEF Estimates, EstimateLags
<1>11. Truth' /\ FewPartsUsed'
  BY <1>2, TruthStays DEF IInv
<1>12. Caches'
  BY <1>1, <1>2 DEF IInv, Caches, Pending
<1>13. FullMatchFound'
  BY <1>1 DEF FullMatchFound
<1> QED BY <1>3, <1>5, <1>7, <1>8, <1>9, <1>10, <1>11, <1>12, <1>13 DEF IInv

(* The segment is on its way to the target.                                *)
LEMMA SendSegmentSound ==
  ASSUME IInv, UNCHANGED build, SendSegment
  PROVE  IInv'
<1>1. /\ pc = "send" /\ pc' = "await" /\ segment' = [segment EXCEPT ![target] = TRUE]
      /\ UNCHANGED <<slices, stored, query, feaReply, segReply, feature, gp, hitPos, storage, re,
                     count, target, cache, known, full, sent>>
  BY DEF SendSegment, Goto, nodeVars, gpVars, roundVars, cacheVars, histVars
<1>2. target \in Nodes /\ feature \in Segments[build] /\ re = [n \in Nodes |-> Unread]
  BY <1>1 DEF IInv, Phases
<1>3. segment' \in [Nodes -> BOOLEAN]
  BY <1>1 DEF IInv, Types, TypesNet
<1>4. Types'
  <2>1. TypesNode' /\ TypesGp' /\ TypesRound' /\ TypesCache' /\ TypesHist'
    BY <1>1 DEF IInv, Types, TypesNode, TypesGp, TypesRound, TypesCache, TypesHist
  <2>2. TypesNet'
    BY <1>1, <1>3 DEF IInv, Types, TypesNet
  <2> QED BY <1>1, <2>1, <2>2 DEF Types, Places
<1>5. Phases'
  BY <1>1, <1>2 DEF Phases
<1>6. \A n \in Nodes : /\ query[n] = None /\ feaReply[n] = None /\ re[n] = Unread
                       /\ ~segment[n] /\ segReply[n] = None
  BY <1>1, <1>2 DEF IInv, Rounds
<1>7. \A n \in Nodes : segment'[n] <=> n = target
  BY <1>1, <1>2, <1>6 DEF IInv, Types, TypesNet
<1>8. Rounds'
  <2>1. \A n \in Nodes : re'[n].storage = None
    BY <1>1, <1>6 DEF Unread
  <2>2. \A n \in Nodes : n = target \/ ~segment'[n]
    BY <1>7
  <2>3. segment'[target] /\ segReply'[target] = None
    BY <1>1, <1>2, <1>6, <1>7
  <2> QED BY <1>1, <1>6, <2>1, <2>2, <2>3 DEF Rounds
<1>9. Requests'
  BY <1>1, <1>6 DEF Requests
<1>10. Hits'
  BY <1>1 DEF Hits
<1>11. Estimates'
  BY <1>1 DEF IInv, Estimates, EstimateLags
<1>12. Truth' /\ FewPartsUsed'
  BY <1>1, TruthStays DEF IInv
<1>13. Caches'
  BY <1>1 DEF IInv, Caches, Pending
<1>14. FullMatchFound'
  BY <1>1 DEF IInv, FullMatchFound, Indexed
<1> QED BY <1>4, <1>5, <1>8, <1>9, <1>10, <1>11, <1>12, <1>13, <1>14 DEF IInv

(* The target has answered; what it stores is known again.                 *)
LEMMA TakeReplySound ==
  ASSUME IInv, UNCHANGED build, TakeReply
  PROVE  IInv'
<1>1. /\ pc = "await" /\ pc' = "idle" /\ segReply[target] # None
      /\ storage' = [storage EXCEPT ![target] = segReply[target]]
      /\ segReply' = [segReply EXCEPT ![target] = None]
      /\ target' = NoNode /\ feature' = <<>> /\ full' = {}
      /\ sent' = IF build # "ssdedup" THEN sent
                 ELSE [sent EXCEPT ![target] = @ \cup ToSet(feature)]
      /\ UNCHANGED <<slices, stored, query, feaReply, segment, gp, hitPos, re, count, cache, known>>
  BY DEF TakeReply, Goto, FromReply, nodeVars, gpVars, roundVars, cacheVars
<1>2. target \in Nodes /\ feature \in Segments[build] /\ re = [n \in Nodes |-> Unread]
  BY <1>1 DEF IInv, Phases
<1>3. ToSet(feature) \subseteq Features
  BY <1>2, SegmentType DEF IInv, Types, TypesNode
<1>4. segReply[target] \in Nat /\ segReply[target] <= stored[target]
  BY <1>1, <1>2 DEF IInv, Types, TypesNet, Estimates
<1>5. storage' \in [Nodes -> Nat] /\ segReply' \in [Nodes -> Nat \cup {None}]
  BY <1>1, <1>4 DEF IInv, Types, TypesNet, TypesGp
<1>6. Types'
  <2>1. TypesNode' /\ TypesNet' /\ TypesGp' /\ TypesRound' /\ TypesCache'
    BY <1>1, <1>5 DEF IInv, Types, TypesNode, TypesNet, TypesGp, TypesRound, TypesCache
  <2>2. TypesHist'
    <3>1. sent \in [Nodes -> SUBSET Features]
      BY DEF IInv, Types, TypesHist
    <3>2. [sent EXCEPT ![target] = @ \cup ToSet(feature)] \in [Nodes -> SUBSET Features]
      BY <1>3, <3>1
    <3> QED BY <1>1, <3>1, <3>2 DEF TypesHist
  <2> QED BY <1>1, <2>1, <2>2 DEF Types, Places
<1>7. Phases'
  BY <1>1, <1>2 DEF Phases
<1>8. \A n \in Nodes : query[n] = None /\ feaReply[n] = None /\ re[n] = Unread
  BY <1>1, <1>2 DEF IInv, Rounds
<1>9. \A n \in Nodes : ~segment[n] /\ segReply'[n] = None
  <2>1. ~segment[target] /\ segReply'[target] = None
    BY <1>1, <1>2 DEF IInv, Rounds, Types, TypesNet
  <2>2. \A n \in Nodes : n # target => ~segment[n] /\ segReply'[n] = None
    BY <1>1 DEF IInv, Rounds, Types, TypesNet
  <2> QED BY <2>1, <2>2
<1>10. Rounds'
  <2>1. \A n \in Nodes : re'[n].storage = None
    BY <1>1, <1>8 DEF Unread
  <2> QED BY <1>1, <1>8, <1>9, <2>1 DEF Rounds
<1>11. Requests'
  BY <1>1, <1>8 DEF Requests
<1>12. Hits'
  BY <1>1 DEF Hits
<1>13. Estimates'
  <2>1. \A n \in Nodes : storage'[n] = IF n = target THEN segReply[target] ELSE storage[n]
    BY <1>1 DEF IInv, Types, TypesGp
  <2>2. \A n \in Nodes : n # target => storage[n] <= stored[n]
    BY DEF IInv, Estimates, EstimateLags
  <2> QED BY <1>1, <1>4, <1>9, <2>1, <2>2 DEF Estimates, EstimateLags
<1>14. Truth' /\ FewPartsUsed'
  BY <1>1, TruthStays DEF IInv
<1>15. Caches'
  <2> SUFFICES ASSUME NEW n \in Nodes
               PROVE  IF build = "ssdedup" THEN ToSet(cache[n]) \subseteq sent'[n]
                      ELSE cache[n] = <<>>
    BY <1>1 DEF Caches, Pending
  <2>1. CASE build = "ssdedup"
    <3>1. ToSet(cache[n]) \subseteq sent[n] \cup (IF n = target THEN ToSet(feature) ELSE {})
      BY <1>1, <2>1 DEF IInv, Caches, Pending
    <3>2. sent'[n] = IF n = target THEN sent[n] \cup ToSet(feature) ELSE sent[n]
      BY <1>1, <2>1 DEF IInv, Types, TypesHist
    <3> QED BY <2>1, <3>1, <3>2
  <2>2. CASE build # "ssdedup"
    BY <2>2 DEF IInv, Caches
  <2> QED BY <2>1, <2>2
<1>16. FullMatchFound'
  BY <1>1 DEF FullMatchFound
<1> QED BY <1>6, <1>7, <1>10, <1>11, <1>12, <1>13, <1>14, <1>15, <1>16 DEF IInv

-----------------------------------------------------------------------------
(* gp_route's end: the cache of the target learns the segment.             *)
LEMMA SendToSound ==
  ASSUME IInv, build' = build, pc \in {"route", "update"}, pc' = "send",
         feature' = feature, sent' = sent, NEW t \in Nodes, SendTo(t)
  PROVE  /\ target' = t /\ Caches'
         /\ cache' \in [Nodes -> Seq(Features)]
         /\ \A n \in Nodes : Len(cache'[n]) <= LCACHE_SIZE
<1>1. target' = t
  BY DEF SendTo
<1>2. feature \in Segments[build] /\ feature \in Seq(Features) /\ LCACHE_SIZE \in Nat \ {0}
  BY SegmentType, Sizes DEF IInv, Phases, Types, TypesNode
<1>3. cache \in [Nodes -> Seq(Features)] /\ \A n \in Nodes : Len(cache[n]) <= LCACHE_SIZE
  BY DEF IInv, Types, TypesCache
<1>4. \A n \in Nodes : IF build = "ssdedup" THEN ToSet(cache[n]) \subseteq sent[n] ELSE cache[n] = <<>>
  BY DEF IInv, Caches, Pending
<1>5. CASE build # "ssdedup"
  <2>1. cache' = cache
    BY <1>5 DEF SendTo
  <2> QED BY <1>1, <1>3, <1>4, <1>5, <2>1 DEF Caches
<1>6. CASE build = "ssdedup"
  <2> DEFINE now == EnteredAll(cache[t], feature, LCACHE_SIZE)
  <2>1. cache' = [cache EXCEPT ![t] = now]
    BY <1>6 DEF SendTo
  <2>2. /\ now \in Seq(Features) /\ Len(now) <= LCACHE_SIZE
        /\ ToSet(now) \subseteq ToSet(cache[t]) \cup ToSet(feature)
    BY <1>2, <1>3, EnteredAllSound
  <2> HIDE DEF now
  <2>3. \A n \in Nodes : cache'[n] = IF n = t THEN now ELSE cache[n]
    BY <1>3, <2>1
  <2>4. cache' \in [Nodes -> Seq(Features)] /\ \A n \in Nodes : Len(cache'[n]) <= LCACHE_SIZE
    BY <1>3, <2>1, <2>2, <2>3
  <2>5. Caches'
    <3> SUFFICES ASSUME NEW n \in Nodes
                 PROVE  ToSet(cache'[n]) \subseteq sent[n] \cup (IF n = t THEN ToSet(feature) ELSE {})
      BY <1>1, <1>6 DEF Caches, Pending
    <3>1. CASE n = t
      BY <1>4, <1>6, <2>2, <2>3, <3>1
    <3>2. CASE n # t
      BY <1>4, <1>6, <2>3, <3>2
    <3> QED BY <3>1, <3>2
  <2> QED BY <1>1, <2>4, <2>5
<1> QED BY <1>5, <1>6

(* The features of the segment that a cache holds; all of them only if it  *)
(* holds the segment.                                                      *)
LEMMA CacheHitSound ==
  ASSUME build \in Builds, feature \in Segments[build], NEW n,
         cache[n] \in Seq(Features)
  PROVE  /\ CacheHit(n) \in 0 .. Len(feature)
         /\ CacheHit(n) = Len(feature) => ToSet(feature) \subseteq ToSet(cache[n])
BY SegmentType, CacheHitsSound DEF CacheHit

(* All nodes are considered unless the features point to some.             *)
LEMMA AllConsidered ==
  ASSUME build # "sigma"
  PROVE  Considered = Nodes
<1>1. Candidates = [i \in 1 .. NodeNum |-> i - 1]
  BY DEF Candidates
<1>2. ToSet(Candidates) = 0 .. NodeNum - 1
  BY <1>1, Sizes, AllNodesSound
<1> QED BY <1>2 DEF Considered, Nodes

-----------------------------------------------------------------------------
(* What every step of gp_route finds: a segment, no target, no message.    *)
LEMMA RouteFinds ==
  ASSUME IInv, pc \in {"route", "ask"}
  PROVE  /\ build \in Builds /\ feature \in Segments[build]
         /\ target = NoNode /\ full = {} /\ re = [n \in Nodes |-> Unread]
         /\ \A n \in Nodes : /\ query[n] = None /\ feaReply[n] = None
                             /\ re[n] = Unread /\ re[n].storage = None
                             /\ ~segment[n] /\ segReply[n] = None
                             /\ storage[n] \in Nat /\ stored[n] \in Nat /\ storage[n] <= stored[n]
<1>1. /\ build \in Builds /\ feature \in Segments[build] /\ pc \notin {"send", "await"}
      /\ target = NoNode /\ full = {} /\ re = [n \in Nodes |-> Unread]
  BY DEF IInv, Phases, Types, TypesNode
<1>2. \A n \in Nodes : /\ query[n] = None /\ feaReply[n] = None
                       /\ ~segment[n] /\ segReply[n] = None
  BY <1>1 DEF IInv, Rounds
<1>3. \A n \in Nodes : re[n] = Unread /\ re[n].storage = None
  BY <1>1 DEF Unread
<1>4. \A n \in Nodes : n # NoNode
  BY NodesFacts
<1>5. \A n \in Nodes : storage[n] <= stored[n]
  BY <1>1, <1>4 DEF IInv, Estimates, EstimateLags
<1>6. \A n \in Nodes : storage[n] \in Nat /\ stored[n] \in Nat
  BY NumbersStored DEF IInv, Types, TypesGp, TypesNode
<1> QED BY <1>1, <1>2, <1>3, <1>5, <1>6

(* A segment that the caches know goes to a node whose cache knows it best. *)
LEMMA UseLcacheSound ==
  ASSUME IInv, UNCHANGED build, UseLcache
  PROVE  IInv'
<1> DEFINE hits == [n \in Nodes |-> CacheHit(n)]
<1>1. /\ pc = "route" /\ pc' = "send" /\ build = "ssdedup"
      /\ full' = {n \in Nodes : CacheHit(n) = Len(feature)}
      /\ UNCHANGED <<slices, stored, query, feaReply, segment, segReply, feature, gp, hitPos,
                     storage, re, count, sent>>
  BY DEF UseLcache, Goto, CacheKnows, nodeVars, netVars, gpVars, roundVars
<1>2. PICK t \in Best(hits, known) :
        SendTo(t) /\ known' = [known EXCEPT ![t] = @ + Expected(CacheHit(t))]
  BY DEF UseLcache
<1>3. /\ build \in Builds /\ feature \in Segments[build]
      /\ target = NoNode /\ full = {} /\ re = [n \in Nodes |-> Unread]
      /\ \A n \in Nodes : /\ query[n] = None /\ feaReply[n] = None
                          /\ re[n] = Unread /\ re[n].storage = None
                          /\ ~segment[n] /\ segReply[n] = None
                          /\ storage[n] <= stored[n]
  BY <1>1, RouteFinds
<1>4. \A n \in Nodes : cache[n] \in Seq(Features) /\ known[n] \in Nat
  BY DEF IInv, Types, TypesCache
<1>5. \A n \in Nodes : /\ CacheHit(n) \in 0 .. Len(feature)
                       /\ CacheHit(n) = Len(feature) => ToSet(feature) \subseteq ToSet(cache[n])
  BY <1>3, <1>4, CacheHitSound
<1>6. /\ t \in Nodes
      /\ (\E n \in Considered : hits[n] = Len(feature)) => hits[t] = Len(feature)
  <2>1. \A n \in Considered : hits[n] \in 0 .. Len(feature) /\ known[n] \in Nat
    BY <1>1, <1>4, <1>5, AllConsidered
  <2> HIDE DEF hits
  <2> QED BY <1>2, <1>3, <2>1, BestSound
<1>7. /\ target' = t /\ Caches'
      /\ cache' \in [Nodes -> Seq(Features)]
      /\ \A n \in Nodes : Len(cache'[n]) <= LCACHE_SIZE
  BY <1>1, <1>2, <1>6, SendToSound
<1>8. Types'
  <2>1. TypesNode' /\ TypesNet' /\ TypesGp' /\ TypesRound'
    BY <1>1 DEF IInv, Types, TypesNode, TypesNet, TypesGp, TypesRound
  <2>2. known' \in [Nodes -> Nat]
    <3>1. Expected(CacheHit(t)) \in Nat /\ known[t] \in Nat
      BY <1>3, <1>4, <1>5, <1>6, ExpectedIsNat
    <3>2. known[t] + Expected(CacheHit(t)) \in Nat
      BY <3>1
    <3> QED BY <1>2, <1>6, <3>2 DEF IInv, Types, TypesCache
  <2>3. TypesCache'
    BY <1>7, <2>2 DEF TypesCache
  <2>4. TypesHist'
    BY <1>1 DEF IInv, Types, TypesHist
  <2> QED BY <1>1, <2>1, <2>3, <2>4 DEF Types, Places
<1>9. Phases'
  BY <1>1, <1>3, <1>6, <1>7 DEF Phases
<1>10. Rounds'
  BY <1>1, <1>3 DEF Rounds
<1>11. Requests'
  BY <1>1, <1>3 DEF Requests
<1>12. Hits'
  BY <1>1 DEF Hits
<1>13. Estimates'
  BY <1>1, <1>3 DEF Estimates, EstimateLags
<1>14. Truth' /\ FewPartsUsed'
  BY <1>1, TruthStays DEF IInv
<1>15. FullMatchFound'
  <2> SUFFICES ASSUME full' # {}
               PROVE  ToSet(feature) \subseteq sent[t]
    BY <1>1, <1>7 DEF FullMatchFound
  <2>1. \E n \in Nodes : CacheHit(n) = Len(feature)
    BY <1>1
  <2>2. CacheHit(t) = Len(feature)
    BY <1>1, <1>6, <2>1, AllConsidered
  <2>3. ToSet(cache[t]) \subseteq sent[t]
    BY <1>1, <1>6 DEF IInv, Caches, Pending
  <2> QED BY <1>5, <1>6, <2>2, <2>3
<1> QED BY <1>7, <1>8, <1>9, <1>10, <1>11, <1>12, <1>13, <1>14, <1>15 DEF IInv

(* A segment goes to the node whose guidepost knows it best, or the nodes  *)
(* will be asked.                                                          *)
LEMMA UseGpSound ==
  ASSUME IInv, UNCHANGED build, UseGp
  PROVE  IInv'
<1> DEFINE hit == [n \in Nodes |-> Len(hitPos'[n])]
<1>1. /\ pc = "route"
      /\ hitPos' = [n \in Nodes |-> IF n \in Considered THEN <<>> \o HitParts(n) ELSE hitPos[n]]
      /\ UNCHANGED <<slices, stored, query, feaReply, segment, segReply, feature, gp,
                     re, count, known, sent>>
  BY DEF UseGp, Reset, nodeVars, netVars, roundVars
<1>2. \/ /\ pc' = "send" /\ full' = {n \in Considered : hit[n] = Len(feature)}
         /\ \E loads \in LoadsOfUseGp : \E t \in Best(hit, loads) :
              SendTo(t) /\ storage' = [storage EXCEPT ![t] = @ + Expected(hit[t])]
      \/ /\ pc' = "ask" /\ \A n \in Considered : ~Enough(hit[n])
         /\ UNCHANGED <<storage, target, cache, full>>
  BY DEF UseGp, Goto
<1>3. /\ build \in Builds /\ feature \in Segments[build]
      /\ target = NoNode /\ full = {} /\ re = [n \in Nodes |-> Unread]
      /\ \A n \in Nodes : /\ query[n] = None /\ feaReply[n] = None
                          /\ re[n] = Unread /\ re[n].storage = None
                          /\ ~segment[n] /\ segReply[n] = None
                          /\ storage[n] \in Nat /\ storage[n] <= stored[n]
  BY <1>1, RouteFinds
<1>4. Considered \subseteq Nodes /\ Considered' = Considered
  BY <1>1, <1>3, CandidatesSound, ConsideredStays
<1>5. Len(feature) \in 1 .. FEATURE_NUM /\ FEATURE_NUM \in Nat /\ Len(feature) \in Nat
      /\ DOMAIN feature = 1 .. Len(feature)
  BY <1>3, SegmentType, Sizes
<1>6. \A n \in Nodes :
        /\ HitParts(n) \in Seq(Parts) /\ Len(HitParts(n)) \in Nat /\ Cardinality(AskFor(n)) \in Nat
        /\ Len(HitParts(n)) + Cardinality(AskFor(n)) = Len(feature)
        /\ AskFor(n) = {} \/ Len(HitParts(n)) < Len(feature)
  BY <1>3, HitPartsSound
<1>7. \A n \in Considered : hitPos'[n] = HitParts(n) /\ hit[n] = Len(HitParts(n)) /\ hit[n] \in 0 .. Len(feature)
  <2> TAKE n \in Considered
  <2>1. n \in Nodes
    BY <1>4
  <2>2. hitPos'[n] = <<>> \o HitParts(n)
    BY <1>1, <2>1
  <2>3. <<>> \o HitParts(n) = HitParts(n)
    BY <1>6, <2>1
  <2>4. hit[n] = Len(HitParts(n))
    BY <2>1, <2>2, <2>3
  <2>5. Len(HitParts(n)) \in 0 .. Len(feature)
    BY <1>5, <1>6, <2>1
  <2> QED BY <2>2, <2>3, <2>4, <2>5
<1>8. hitPos' \in [Nodes -> Seq(Parts)] /\ \A n \in Nodes : Len(hitPos'[n]) <= FEATURE_NUM
  <2>1. \A n \in Nodes : n \notin Considered => hitPos'[n] = hitPos[n]
    BY <1>1
  <2>2. \A n \in Considered : hitPos'[n] \in Seq(Parts) /\ Len(hitPos'[n]) <= FEATURE_NUM
    <3> TAKE n \in Considered
    <3>1. n \in Nodes /\ hitPos'[n] = HitParts(n) /\ Len(HitParts(n)) \in 0 .. Len(feature)
      BY <1>4, <1>7
    <3>2. Len(HitParts(n)) <= FEATURE_NUM
      BY <1>5, <3>1
    <3> QED BY <1>6, <3>1, <3>2
  <2>3. \A n \in Nodes : hitPos[n] \in Seq(Parts) /\ Len(hitPos[n]) <= FEATURE_NUM
    BY DEF IInv, Types, TypesGp
  <2>4. \A n \in Nodes : hitPos'[n] \in Seq(Parts) /\ Len(hitPos'[n]) <= FEATURE_NUM
    BY <2>1, <2>2, <2>3
  <2>5. hitPos' = [n \in Nodes |-> hitPos'[n]]
    BY <1>1
  <2> QED BY <2>4, <2>5
<1>9. TypesNode' /\ TypesNet' /\ TypesRound'
  BY <1>1 DEF IInv, Types, TypesNode, TypesNet, TypesRound
<1>10. Truth' /\ FewPartsUsed'
  BY <1>1, TruthStays DEF IInv
<1>11. Requests'
  BY <1>1, <1>3 DEF Requests
<1>12. pc' \notin {"await", "collect", "update"} => Rounds'
  BY <1>1, <1>3 DEF Rounds
<1>13. CASE /\ pc' = "ask" /\ \A n \in Considered : ~Enough(hit[n])
            /\ UNCHANGED <<storage, target, cache, full>>
  <2>1. Types'
    <3>1. TypesGp' /\ TypesCache' /\ TypesHist'
      BY <1>1, <1>8, <1>13 DEF IInv, Types, TypesGp, TypesCache, TypesHist
    <3> QED BY <1>9, <1>13, <3>1 DEF Types, Places
  <2>2. Phases'
    BY <1>1, <1>3, <1>13 DEF Phases
  <2>3. Hits'
    <3> SUFFICES ASSUME NEW n \in Considered
                 PROVE  /\ Len(hitPos'[n]) <= HIT_THRES /\ Len(hitPos'[n]) <= Len(feature)
                        /\ Len(hitPos'[n]) + Cardinality(AskFor(n)) = Len(feature)
      <4>1. \A n \in Nodes : AskFor(n)' = AskFor(n)
        BY <1>1 DEF AskFor, HitPart
      <4> QED BY <1>1, <1>4, <1>13, <4>1 DEF Hits
    <3>1. ~(Len(HitParts(n)) > HIT_THRES) /\ Len(HitParts(n)) \in Nat /\ HIT_THRES \in Nat
      BY <1>4, <1>6, <1>7, <1>13, Sizes DEF Enough
    <3>2. Len(HitParts(n)) <= HIT_THRES
      BY <3>1
    <3>3. Len(HitParts(n)) \in 0 .. Len(feature) /\ hitPos'[n] = HitParts(n)
      BY <1>7
    <3>4. Len(HitParts(n)) + Cardinality(AskFor(n)) = Len(feature)
      BY <1>4, <1>6
    <3> QED BY <1>5, <3>2, <3>3, <3>4
  <2>4. Estimates'
    BY <1>1, <1>3, <1>13 DEF Estimates, EstimateLags
  <2>5. Caches'
    BY <1>1, <1>13 DEF IInv, Caches, Pending
  <2>6. FullMatchFound'
    BY <1>13 DEF FullMatchFound
  <2>7. Rounds'
    BY <1>12, <1>13
  <2> QED BY <1>10, <1>11, <2>1, <2>2, <2>3, <2>4, <2>5, <2>6, <2>7 DEF IInv
<1>14. CASE /\ pc' = "send" /\ full' = {n \in Considered : hit[n] = Len(feature)}
            /\ \E loads \in LoadsOfUseGp : \E t \in Best(hit, loads) :
                 SendTo(t) /\ storage' = [storage EXCEPT ![t] = @ + Expected(hit[t])]
  <2>0. PICK loads \in LoadsOfUseGp : \E t \in Best(hit, loads) :
          SendTo(t) /\ storage' = [storage EXCEPT ![t] = @ + Expected(hit[t])]
    BY <1>14
  <2>1. PICK t \in Best(hit, loads) :
          SendTo(t) /\ storage' = [storage EXCEPT ![t] = @ + Expected(hit[t])]
    BY <2>0
  <2>2. \A n \in Nodes : loads[n] \in Nat
    <3>1. CASE build = "sigma"
      BY <2>1, <3>1, Sizes DEF LoadsOfUseGp
    <3>2. CASE build # "sigma"
      BY <1>3, <2>1, <3>2 DEF LoadsOfUseGp
    <3> QED BY <3>1, <3>2
  <2>3. /\ t \in Considered /\ t \in Nodes
        /\ (\E n \in Considered : hit[n] = Len(feature)) => hit[t] = Len(feature)
    <3>1. \A n \in Considered : hit[n] \in 0 .. Len(feature) /\ loads[n] \in Nat
      BY <1>4, <1>7, <2>2
    <3> HIDE DEF hit
    <3> QED BY <1>3, <2>1, <3>1, BestSound
  <2>4. /\ target' = t /\ Caches'
        /\ cache' \in [Nodes -> Seq(Features)]
        /\ \A n \in Nodes : Len(cache'[n]) <= LCACHE_SIZE
    BY <1>1, <1>14, <2>1, <2>3, SendToSound
  <2>5. storage' \in [Nodes -> Nat] /\ \A n \in Nodes : n # t => storage'[n] = storage[n]
    <3>1. hit[t] \in 0 .. Len(feature)
      BY <1>7, <2>3
    <3>2. storage \in [Nodes -> Nat]
      BY DEF IInv, Types, TypesGp
    <3> HIDE DEF hit
    <3>3. Expected(hit[t]) \in Nat /\ storage[t] \in Nat
      BY <1>3, <2>3, <3>1, ExpectedIsNat
    <3>4. storage[t] + Expected(hit[t]) \in Nat
      BY <3>3
    <3> QED BY <2>1, <2>3, <3>2, <3>4
  <2>6. Types'
    <3>1. TypesGp'
      BY <1>1, <1>8, <2>5 DEF IInv, Types, TypesGp
    <3>2. TypesCache'
      BY <1>1, <2>4 DEF IInv, Types, TypesCache
    <3>3. TypesHist'
      <4>1. full' \subseteq Nodes
        BY <1>4, <1>14
      <4> QED BY <1>1, <4>1 DEF IInv, Types, TypesHist
    <3> QED BY <1>9, <1>14, <3>1, <3>2, <3>3 DEF Types, Places
  <2>7. Phases'
    BY <1>1, <1>3, <1>14, <2>3, <2>4 DEF Phases
  <2>8. Hits'
    BY <1>14 DEF Hits
  <2>9. Estimates'
    BY <1>1, <1>3, <1>14, <2>4, <2>5 DEF Estimates, EstimateLags
  <2>10. FullMatchFound'
    <3> SUFFICES ASSUME full' # {}
                 PROVE  ToSet(feature) \subseteq Indexed(t)
      BY <1>1, <1>14, <2>4 DEF FullMatchFound, Indexed
    <3>1. hit[t] = Len(feature)
      BY <1>14, <2>3
    <3>2. Len(HitParts(t)) = Len(feature)
      BY <1>7, <2>3, <3>1
    <3>3. AskFor(t) = {}
      BY <1>5, <1>6, <2>3, <3>2
    <3>4. \A i \in DOMAIN feature : feature[i] \in Indexed(t)
      BY <2>3, <3>3, HitIsIndexed DEF IInv
    <3> QED BY <3>4 DEF ToSet
  <2>11. Rounds'
    BY <1>12, <1>14
  <2> QED BY <1>10, <1>11, <2>4, <2>6, <2>7, <2>8, <2>9, <2>10, <2>11 DEF IInv
<1> QED BY <1>2, <1>13, <1>14

-----------------------------------------------------------------------------
(* The nodes considered are asked.                                         *)
LEMMA AskNodesSound ==
  ASSUME IInv, UNCHANGED build, AskNodes
  PROVE  IInv'
<1> DEFINE Fea(n) == [i \in AskFor(n) |-> feature[i]]
           Old(n) == {i \in AskFor(n) : feature[i] \in Indexed(n)}
           Query(n) == [hit |-> Len(hitPos[n]), fea |-> Fea(n), old |-> Old(n)]
<1>1. /\ pc = "ask" /\ pc' = "collect"
      /\ query' = [n \in Nodes |-> IF n \notin Considered THEN None ELSE Query(n)]
      /\ count' = 0 /\ re' = [n \in Nodes |-> Unread]
      /\ full' = {n \in Considered : ToSet(feature) \subseteq Indexed(n)}
      /\ UNCHANGED <<slices, stored, feaReply, segment, segReply, feature, gp, hitPos, storage,
                     target, cache, known, sent>>
  BY DEF AskNodes, Goto, CountFrom, nodeVars, gpVars, cacheVars
<1>2. /\ build \in Builds /\ feature \in Segments[build]
      /\ target = NoNode /\ full = {} /\ re = [n \in Nodes |-> Unread]
      /\ \A n \in Nodes : /\ query[n] = None /\ feaReply[n] = None
                          /\ re[n] = Unread /\ re[n].storage = None
                          /\ ~segment[n] /\ segReply[n] = None
                          /\ storage[n] <= stored[n]
  BY <1>1, RouteFinds
<1>3. /\ Considered \subseteq Nodes /\ Candidates' = Candidates /\ Considered' = Considered
      /\ Candidates # <<>> /\ Candidates \in Seq(Nodes)
  BY <1>1, <1>2, CandidatesSound, ConsideredStays
<1>4. /\ Len(feature) \in 1 .. FEATURE_NUM /\ FEATURE_NUM \in Nat /\ Len(feature) \in Nat
      /\ DOMAIN feature = 1 .. Len(feature) /\ feature \in Seq(Features)
  BY <1>2, SegmentType, Sizes
<1>5. \A n \in Nodes : AskFor(n) \subseteq DOMAIN feature
  BY DEF AskFor
<1>6. \A n \in Considered :
        /\ Len(hitPos[n]) \in Nat /\ Len(hitPos[n]) <= HIT_THRES /\ Len(hitPos[n]) <= Len(feature)
        /\ Len(hitPos[n]) + Cardinality(AskFor(n)) = Len(feature)
  BY <1>1, <1>3 DEF IInv, Hits, Types, TypesGp
<1>7. \A n \in Considered : Query(n) \in Queries
  <2> TAKE n \in Considered
  <2>1. AskFor(n) \in SUBSET (1 .. FEATURE_NUM) /\ AskFor(n) \subseteq Nat
    BY <1>3, <1>4, <1>5
  <2>2. Fea(n) \in [AskFor(n) -> Features]
    BY <1>3, <1>4, <1>5
  <2>3. Fea(n) \in UNION {[asked -> Features] : asked \in SUBSET (1 .. FEATURE_NUM)}
    <3> HIDE DEF Fea
    <3> QED BY <2>1, <2>2
  <2>4. Old(n) \in SUBSET Nat
    BY <2>1
  <2> HIDE DEF Fea, Old
  <2> QED BY <1>6, <2>3, <2>4 DEF Queries
<1>8. \A n \in Considered : Query(n) # None
  BY <1>7, NoneAssumption
<1>9. \A n \in Nodes : query'[n] = IF n \notin Considered THEN None ELSE Query(n)
  BY <1>1
<1>10. \A n \in Considered : QueryGood(n, query[n])'
  <2> SUFFICES ASSUME NEW n \in Considered PROVE QueryGood(n, query[n])'
    OBVIOUS
  <2>1. n \in Nodes /\ Indexed(n)' = Indexed(n)
    BY <1>1, <1>3 DEF Indexed
  <2>2. /\ query'[n].hit = Len(hitPos[n]) /\ query'[n].fea = Fea(n) /\ query'[n].old = Old(n)
    <3>1. query'[n] = Query(n)
      BY <1>9, <2>1
    <3>2. Query(n).hit = Len(hitPos[n]) /\ Query(n).fea = Fea(n) /\ Query(n).old = Old(n)
      <4> HIDE DEF Fea, Old
      <4> QED OBVIOUS
    <3> HIDE DEF Query, Fea, Old
    <3> QED BY <3>1, <3>2
  <2>3. DOMAIN Fea(n) = AskFor(n) /\ \A i \in AskFor(n) : Fea(n)[i] = feature[i]
    OBVIOUS
  <2>4. Old(n) \subseteq AskFor(n) /\ \A i \in Old(n) : feature[i] \in Indexed(n)
    OBVIOUS
  <2>5. \A i \in DOMAIN feature \ AskFor(n) : feature[i] \in Indexed(n)
    BY <2>1, HitIsIndexed DEF IInv
  <2>6. ASSUME n \in full' PROVE Old(n) = AskFor(n)
    <3>1. \A i \in DOMAIN feature : feature[i] \in Indexed(n)
      BY <1>1, <2>6 DEF ToSet
    <3> QED BY <1>5, <2>1, <3>1
  <2> HIDE DEF Fea, Old, Query
  <2> QED BY <1>1, <1>5, <1>6, <2>1, <2>2, <2>3, <2>4, <2>5, <2>6 DEF QueryGood
<1> HIDE DEF Query
<1>11. Types'
  <2>1. TypesNode' /\ TypesGp' /\ TypesCache'
    BY <1>1 DEF IInv, Types, TypesNode, TypesGp, TypesCache
  <2>2. TypesNet'
    <3>1. query' \in [Nodes -> Queries \cup {None}]
      BY <1>1, <1>7
    <3> QED BY <1>1, <3>1 DEF IInv, Types, TypesNet
  <2>3. TypesRound'
    BY <1>1, Sizes DEF TypesRound, Unread, Replies
  <2>4. TypesHist'
    BY <1>1, <1>3 DEF IInv, Types, TypesHist
  <2> QED BY <1>1, <2>1, <2>2, <2>3, <2>4 DEF Types, Places
<1>12. Phases'
  BY <1>1, <1>2, <1>3 DEF Phases
<1>13. \A n \in Nodes : re'[n] = Unread /\ re'[n].storage = None
  BY <1>1 DEF Unread
<1>14. Rounds'
  <2>1. Cardinality(Read') = 0
    <3>1. Read' = {}
      BY <1>13 DEF Read
    <3> QED BY <3>1, FS_EmptySet
  <2>2. 0 < Len(Candidates)
    BY <1>3
  <2> QED BY <1>1, <1>2, <1>3, <1>8, <1>9, <1>13, <2>1, <2>2 DEF Rounds
<1>15. Requests'
  BY <1>1, <1>2, <1>9, <1>10, <1>13 DEF Requests
<1>16. Hits'
  BY <1>1, <1>3, <1>6 DEF Hits
<1>17. Estimates'
  BY <1>1, <1>2 DEF Estimates, EstimateLags
<1>18. Truth' /\ FewPartsUsed'
  BY <1>1, TruthStays DEF IInv
<1>19. Caches'
  BY <1>1 DEF IInv, Caches, Pending
<1>20. FullMatchFound'
  BY <1>1 DEF FullMatchFound
<1> QED BY <1>11, <1>12, <1>14, <1>15, <1>16, <1>17, <1>18, <1>19, <1>20 DEF IInv

-----------------------------------------------------------------------------
(* Only replies to queries can be read while queries are out, one of each  *)
(* node: the events counted are the replies read.                          *)
LEMMA EventsAreReplies ==
  ASSUME IInv, pc = "collect"
  PROVE  LET ready == {n \in Nodes : feaReply[n] # None}
         IN  IsFiniteSet(ready) /\ Events(ReadyFds) = Cardinality(ready)
<1> DEFINE ready == {n \in Nodes : feaReply[n] # None}
           fds == {<<n, "fea">> : n \in ready}
           fd == [n \in ready |-> <<n, "fea">>]
<1>1. IsFiniteSet(ready)
  <2>1. ready \in SUBSET Nodes
    OBVIOUS
  <2> HIDE DEF ready
  <2> QED BY <2>1, NodesFacts, FS_Subset
<1>2. ReadyFds = fds
  <2>1. \A n \in Nodes : segReply[n] = None
    BY DEF IInv, Rounds
  <2>2. {<<n, "seg">> : n \in {m \in Nodes : segReply[m] # None}} = {}
    BY <2>1
  <2> QED BY <2>2 DEF ReadyFds
<1>3. fd \in Bijection(ready, fds)
  <2> HIDE DEF ready
  <2>1. fd \in [ready -> fds]
    OBVIOUS
  <2>2. \A m, n \in ready : fd[m] = fd[n] => m = n
    OBVIOUS
  <2>3. \A x \in fds : \E n \in ready : fd[n] = x
    OBVIOUS
  <2> HIDE DEF fd, fds
  <2> QED BY <2>1, <2>2, <2>3 DEF Bijection, Injection, Surjection, IsInjective
<1>4. Cardinality(fds) = Cardinality(ready)
  <2> HIDE DEF ready, fds, fd
  <2> QED BY <1>1, <1>3, FS_Bijection DEF ExistsBijection
<1> QED BY <1>1, <1>2, <1>4 DEF Events

(* The replies that can be read are read.  All nodes have been heard when  *)
(* as many events have come as there are nodes considered.                 *)
LEMMA CollectSound ==
  ASSUME IInv, UNCHANGED build, Collect
  PROVE  IInv'
<1> DEFINE ready == {n \in Nodes : feaReply[n] # None}
<1>1. /\ pc = "collect" /\ count' = count + Events(ReadyFds)
      /\ re' = [n \in Nodes |-> IF feaReply[n] # None THEN feaReply[n] ELSE re[n]]
      /\ feaReply' = [n \in Nodes |-> None]
      /\ pc' = IF count' < Len(Candidates) THEN "collect" ELSE "update"
      /\ UNCHANGED <<slices, stored, query, segment, segReply, feature, gp, hitPos, storage,
                     target, cache, known, full, sent>>
  BY DEF Collect, Goto, nodeVars, gpVars, cacheVars, histVars
<1>2. TypesNode /\ TypesNet /\ TypesRound /\ build \in Builds /\ feature \in Segments[build]
  BY <1>1 DEF IInv, Types, TypesNode, Phases
<1>3. /\ Considered \subseteq Nodes /\ Candidates' = Candidates /\ Considered' = Considered
      /\ Len(Candidates) = Cardinality(Considered) /\ IsFiniteSet(Considered)
  BY <1>1, <1>2, CandidatesSound, ConsideredStays
<1>4. Grows /\ TypesNode'
  <2>1. UNCHANGED <<build, nodeVars>>
    BY <1>1 DEF nodeVars
  <2> QED BY <1>2, <2>1, NodesStay
<1>5. \A n \in Nodes :
        /\ feaReply[n] # None => ReplyGood(n, feaReply[n]) /\ re[n].storage = None
        /\ re[n] # Unread => ReplyGood(n, re[n])
        /\ query[n] # None => QueryGood(n, query[n]) /\ feaReply[n] = None /\ re[n].storage = None
        /\ query[n] # None \/ feaReply[n] # None \/ re[n].storage # None => n \in Considered
        /\ n \in Considered => query[n] # None \/ feaReply[n] # None \/ re[n].storage # None
        /\ ~segment[n] /\ segReply[n] = None
  BY <1>1 DEF IInv, Requests, Rounds
<1>6. \A n \in Nodes : re'[n] = IF feaReply[n] # None THEN feaReply[n] ELSE re[n]
  BY <1>1
<1>7. \A n \in Nodes : feaReply[n] # None => re'[n].storage # None
  <2> TAKE n \in Nodes
  <2>1. feaReply[n] # None => feaReply[n].storage \in Nat
    BY <1>5 DEF ReplyGood
  <2> QED BY <1>6, <2>1, NoneAssumption
<1>8. Read' = Read \cup ready /\ Read \cap ready = {}
  <2>1. \A n \in Nodes : re'[n].storage # None <=> re[n].storage # None \/ feaReply[n] # None
    BY <1>6, <1>7
  <2>2. Read' = {n \in Nodes : re'[n].storage # None}
    BY DEF Read
  <2> QED BY <1>5, <2>1, <2>2 DEF Read
<1>9. IsFiniteSet(ready) /\ Events(ReadyFds) = Cardinality(ready) /\ count = Cardinality(Read)
  BY <1>1, EventsAreReplies DEF IInv, Rounds
<1>10. IsFiniteSet(Read) /\ Read \subseteq Considered
  <2>1. Read \subseteq Considered
    BY <1>5 DEF Read
  <2> QED BY <1>3, <2>1, FS_Subset
<1>11. count' = Cardinality(Read') /\ Cardinality(Read') \in Nat
  <2> HIDE DEF ready
  <2>1. /\ IsFiniteSet(Read \cup ready)
        /\ Cardinality(Read \cup ready) = Cardinality(Read) + Cardinality(ready) - Cardinality(Read \cap ready)
    BY <1>9, <1>10, FS_Union
  <2>2. Cardinality(Read \cap ready) = 0
    BY <1>8, FS_EmptySet
  <2>3. Cardinality(Read) \in Nat /\ Cardinality(ready) \in Nat /\ Cardinality(Read \cup ready) \in Nat
    BY <1>9, <1>10, <2>1, FS_CardinalityType
  <2> QED BY <1>1, <1>8, <1>9, <2>1, <2>2, <2>3
<1>12. Read' \subseteq Considered
  BY <1>5, <1>8, <1>10
<1>13. /\ Cardinality(Read') <= Cardinality(Considered)
       /\ Cardinality(Considered) = Cardinality(Read') => Considered = Read'
       /\ Cardinality(Considered) \in Nat /\ Cardinality(Considered) <= NodeNum /\ NodeNum \in Nat
  BY <1>3, <1>12, NodesFacts, Sizes, FS_Subset, FS_CardinalityType
<1>14. ~(count' < Len(Candidates)) => \A n \in Considered : re'[n].storage # None
  <2> SUFFICES ASSUME ~(count' < Len(Candidates)) PROVE Considered = Read'
    BY <1>3 DEF Read
  <2> QED BY <1>3, <1>11, <1>13
<1>15. Types'
  <2>1. TypesGp' /\ TypesCache' /\ TypesHist'
    BY <1>1 DEF IInv, Types, TypesGp, TypesCache, TypesHist
  <2>2. TypesNet'
    BY <1>1, <1>2 DEF TypesNet
  <2>3. TypesRound'
    <3>1. re' \in [Nodes -> Replies]
      BY <1>1, <1>2 DEF TypesNet, TypesRound
    <3>2. count' \in 0 .. NodeNum
      BY <1>11, <1>13
    <3> QED BY <3>1, <3>2 DEF TypesRound
  <2> QED BY <1>1, <1>4, <2>1, <2>2, <2>3 DEF Types, Places
<1>16. pc' \in {"collect", "update"} /\ (pc' = "collect" => count' < Len(Candidates))
       /\ (pc' = "update" => ~(count' < Len(Candidates)))
  BY <1>1
<1>17. Phases'
  <2>1. target = NoNode /\ full \subseteq Considered
    BY <1>1 DEF IInv, Phases
  <2> QED BY <1>1, <1>2, <1>3, <1>16, <2>1 DEF Phases
<1>18. \A n \in Nodes : feaReply'[n] = None
  BY <1>1
<1>19. Rounds'
  <2>1. \A n \in Nodes : re'[n].storage # None <=> n \in Read'
    BY DEF Read
  <2>2. \A n \in Nodes :
          /\ query[n] # None => re'[n].storage = None
          /\ query[n] # None \/ re'[n].storage # None => n \in Considered
          /\ n \in Considered => query[n] # None \/ re'[n].storage # None
    BY <1>5, <1>6, <1>7
  <2>3. pc' = "collect" => count' = Cardinality(Read') /\ count' < Len(Candidates)
    BY <1>11, <1>16
  <2>4. pc' = "update" => \A n \in Considered : re'[n].storage # None
    BY <1>14, <1>16
  <2> QED BY <1>1, <1>3, <1>5, <1>16, <1>18, <2>2, <2>3, <2>4 DEF Rounds
<1>20. Requests'
  <2> SUFFICES ASSUME NEW n \in Nodes
               PROVE  /\ query'[n] # None => QueryGood(n, query[n])'
                      /\ re'[n] # Unread => ReplyGood(n, re[n])'
    BY <1>18 DEF Requests
  <2>1. query'[n] # None => QueryGood(n, query[n])'
    BY <1>1, <1>4, <1>5, QueryStays
  <2>2. re'[n] # Unread => ReplyGood(n, re[n])'
    <3>1. CASE feaReply[n] # None
      <4>1. re'[n] = feaReply[n] /\ ReplyGood(n, feaReply[n])
        BY <1>5, <1>6, <3>1
      <4> QED BY <1>1, <1>2, <1>4, <4>1, ReplyStays
    <3>2. CASE feaReply[n] = None
      <4>1. re'[n] = re[n] /\ (re[n] # Unread => ReplyGood(n, re[n]))
        BY <1>5, <1>6, <3>2
      <4> QED BY <1>1, <1>2, <1>4, <4>1, ReplyStays
    <3> QED BY <3>1, <3>2
  <2> QED BY <2>1, <2>2
<1>21. Hits'
  BY <1>1, <1>3, <1>16 DEF IInv, Hits
<1>22. Estimates'
  BY <1>1, <1>16 DEF IInv, Estimates, EstimateLags
<1>23. Truth' /\ FewPartsUsed'
  BY <1>1, TruthStays DEF IInv
<1>24. Caches'
  BY <1>1, <1>16 DEF IInv, Caches, Pending
<1>25. FullMatchFound'
  BY <1>16 DEF FullMatchFound
<1> QED BY <1>15, <1>17, <1>19, <1>20, <1>21, <1>22, <1>23, <1>24, <1>25 DEF IInv

-----------------------------------------------------------------------------
(* The replies replace the parts of the guideposts hit least, and decide   *)
(* where the segment goes.                                                 *)
LEMMA UseForceSound ==
  ASSUME IInv, UNCHANGED build, UseForce
  PROVE  IInv'
<1> DEFINE hits == [n \in Nodes |-> re[n].hit]
           reported == [n \in Nodes |-> IF n \in Considered THEN re[n].storage ELSE storage[n]]
<1>1. /\ pc = "update" /\ pc' = "send" /\ re' = [n \in Nodes |-> Unread]
      /\ gp' = [n \in Nodes |-> IF re[n].hit > HIT_THRES
                                THEN [gp[n] EXCEPT ![LruId(n)] = re[n].slice] ELSE gp[n]]
      /\ known' = IF build = "ssdedup" THEN reported ELSE known
      /\ UNCHANGED <<slices, stored, query, feaReply, segment, segReply, feature, hitPos,
                     count, full, sent>>
  BY DEF UseForce, Goto, Rebuilt, nodeVars, netVars, histVars
<1>2. PICK t \in Best(hits, reported) :
        SendTo(t) /\ storage' = [reported EXCEPT ![t] = @ + Expected(re[t].hit)]
  BY DEF UseForce
<1>3. /\ build \in Builds /\ feature \in Segments[build] /\ target = NoNode
      /\ full \subseteq Considered /\ Len(feature) \in Nat
  BY <1>1, SegmentType DEF IInv, Types, TypesNode, Phases
<1>4. /\ Considered \subseteq Nodes /\ Candidates' = Candidates /\ Considered' = Considered
  BY <1>1, <1>3, CandidatesSound, ConsideredStays
<1>5. \A n \in Nodes :
        /\ re[n] \in Replies
        /\ re[n] # Unread => ReplyGood(n, re[n]) /\ n \in Considered
        /\ n \in Considered => ReplyGood(n, re[n])
        /\ query[n] = None /\ feaReply[n] = None /\ ~segment[n] /\ segReply[n] = None
  <2> TAKE n \in Nodes
  <2>1. n \in Considered => re[n].storage # None
    BY <1>1 DEF IInv, Rounds
  <2>2. re[n].storage # None => re[n] # Unread
    BY DEF Unread
  <2>3. re[n] # Unread => ReplyGood(n, re[n])
    BY DEF IInv, Requests
  <2>4. ReplyGood(n, re[n]) => re[n].storage # None
    BY NoneAssumption DEF ReplyGood
  <2>5. re[n].storage # None => n \in Considered
    BY DEF IInv, Rounds
  <2>6. query[n] = None
    BY <2>1, <2>5, <1>1 DEF IInv, Rounds
  <2>7. feaReply[n] = None /\ ~segment[n] /\ segReply[n] = None
    BY <2>1, <2>5, <1>1 DEF IInv, Rounds
  <2>8. re[n] \in Replies
    BY DEF IInv, Types, TypesRound
  <2> QED BY <2>1, <2>2, <2>3, <2>4, <2>5, <2>6, <2>7, <2>8
<1>6. \A n \in Considered : /\ re[n].hit \in 0 .. Len(feature)
                            /\ re[n].storage \in Nat /\ re[n].storage <= stored[n]
                            /\ re[n].hit = Len(feature) => ToSet(feature) \subseteq Indexed(n)
                            /\ n \in full => re[n].hit = Len(feature)
  <2> TAKE n \in Considered
  <2>1. ReplyGood(n, re[n]) /\ re[n].hit \in Nat
    BY <1>4, <1>5 DEF Replies
  <2> QED BY <1>3, <2>1 DEF ReplyGood
<1>7. \A n \in Nodes : /\ storage[n] \in Nat /\ stored[n] \in Nat /\ storage[n] <= stored[n]
  <2>1. \A n \in Nodes : n # target
    BY <1>3, NodesFacts
  <2> QED BY <2>1, NumbersStored DEF IInv, Types, TypesNode, TypesGp, Estimates, EstimateLags
<1>8. \A n \in Nodes : reported[n] \in Nat /\ reported[n] <= stored[n]
  BY <1>6, <1>7
<1>9. /\ t \in Considered /\ t \in Nodes
      /\ (\E n \in Considered : re[n].hit = Len(feature)) => re[t].hit = Len(feature)
  <2>1. \A n \in Considered : /\ hits[n] = re[n].hit
                              /\ hits[n] \in 0 .. Len(feature) /\ reported[n] \in Nat
    BY <1>4, <1>6, <1>8
  <2> HIDE DEF hits, reported
  <2>2. /\ t \in Considered /\ t \in Nodes
        /\ (\E n \in Considered : hits[n] = Len(feature)) => hits[t] = Len(feature)
    BY <1>2, <1>3, <2>1, BestSound
  <2> QED BY <2>1, <2>2
<1>10. /\ target' = t /\ Caches'
       /\ cache' \in [Nodes -> Seq(Features)]
       /\ \A n \in Nodes : Len(cache'[n]) <= LCACHE_SIZE
  BY <1>1, <1>2, <1>9, SendToSound
<1>11. reported \in [Nodes -> Nat]
  BY <1>8
<1>12. storage' \in [Nodes -> Nat] /\ \A n \in Nodes : n # t => storage'[n] <= stored[n]
  <2> HIDE DEF reported
  <2>1. Expected(re[t].hit) \in Nat /\ reported[t] \in Nat
    BY <1>3, <1>6, <1>9, <1>11, ExpectedIsNat
  <2>2. reported[t] + Expected(re[t].hit) \in Nat
    BY <2>1
  <2>3. \A n \in Nodes : n # t => storage'[n] = reported[n]
    BY <1>2, <1>9, <1>11
  <2> QED BY <1>2, <1>8, <1>9, <1>11, <2>2, <2>3
<1>13. \A n \in Nodes, p \in Parts :
         \/ gp'[n][p] = gp[n][p]
         \/ p = LruId(n) /\ gp'[n][p] = re[n].slice /\ re[n] # Unread
  <2> TAKE n \in Nodes, p \in Parts
  <2>1. gp[n] \in [Parts -> SUBSET Features]
    BY DEF IInv, Types, TypesGp
  <2>2. re[n].hit > HIT_THRES => re[n] # Unread
    BY Sizes DEF Unread
  <2>3. gp'[n] = IF re[n].hit > HIT_THRES
                 THEN [gp[n] EXCEPT ![LruId(n)] = re[n].slice] ELSE gp[n]
    BY <1>1
  <2>4. CASE re[n].hit > HIT_THRES
    BY <2>1, <2>2, <2>3, <2>4
  <2>5. CASE ~(re[n].hit > HIT_THRES)
    BY <2>3, <2>5
  <2> QED BY <2>4, <2>5
<1>14. gp' \in [Nodes -> [Parts -> SUBSET Features]]
  <2>1. \A n \in Nodes : gp'[n] \in [Parts -> SUBSET Features]
    <3> TAKE n \in Nodes
    <3>1. gp[n] \in [Parts -> SUBSET Features] /\ re[n].slice \in SUBSET Features
      BY <1>5 DEF IInv, Types, TypesGp, Replies
    <3>2. [gp[n] EXCEPT ![LruId(n)] = re[n].slice] \in [Parts -> SUBSET Features]
      BY <3>1
    <3> QED BY <1>1, <3>1, <3>2
  <2>2. gp' = [n \in Nodes |-> gp'[n]]
    BY <1>1
  <2> QED BY <2>1, <2>2
<1>15. Types'
  <2>1. TypesNode' /\ TypesNet' /\ TypesHist'
    BY <1>1 DEF IInv, Types, TypesNode, TypesNet, TypesHist
  <2>2. TypesGp'
    BY <1>1, <1>12, <1>14 DEF IInv, Types, TypesGp
  <2>3. TypesRound'
    BY <1>1 DEF IInv, Types, TypesRound, Unread, Replies
  <2>4. TypesCache'
    <3>1. known' \in [Nodes -> Nat]
      BY <1>1, <1>11 DEF IInv, Types, TypesCache
    <3> QED BY <1>10, <3>1 DEF TypesCache
  <2> QED BY <1>1, <2>1, <2>2, <2>3, <2>4 DEF Types, Places
<1>16. Phases'
  BY <1>1, <1>3, <1>9, <1>10 DEF Phases
<1>17. \A n \in Nodes : re'[n] = Unread /\ re'[n].storage = None
  BY <1>1 DEF Unread
<1>18. Rounds'
  BY <1>1, <1>5, <1>17 DEF Rounds
<1>19. Requests'
  BY <1>1, <1>5, <1>17 DEF Requests
<1>20. Hits'
  BY <1>1 DEF Hits
<1>21. Estimates'
  BY <1>1, <1>5, <1>10, <1>12 DEF Estimates, EstimateLags
<1>22. Truth'
  <2> SUFFICES ASSUME NEW n \in Nodes, NEW p \in Parts PROVE Known(slices[n], gp'[n][p])
    BY <1>1 DEF Truth
  <2>1. Known(slices[n], gp[n][p])
    BY DEF IInv, Truth
  <2>2. re[n] # Unread => Known(slices[n], re[n].slice)
    BY <1>5 DEF ReplyGood
  <2>3. CASE gp'[n][p] = gp[n][p]
    BY <2>1, <2>3
  <2>4. CASE gp'[n][p] = re[n].slice /\ re[n] # Unread
    BY <2>2, <2>4
  <2> QED BY <1>13, <2>3, <2>4
<1>23. FewPartsUsed'
  <2> SUFFICES ASSUME NEW n \in Nodes, NEW p \in Parts, gp'[n][p] # {}
               PROVE  p + HIT_THRES + 1 >= GP_PART
    BY DEF FewPartsUsed
  <2>1. CASE gp'[n][p] = gp[n][p]
    BY <2>1 DEF IInv, FewPartsUsed
  <2>2. CASE p = LruId(n) /\ re[n] # Unread
    <3>1. hitPos[n] \in Seq(Parts) /\ Len(hitPos[n]) <= HIT_THRES
      BY <1>1, <1>5, <2>2 DEF IInv, Types, TypesGp, Hits
    <3>2. CASE HIT_THRES + 1 < GP_PART
      BY <2>2, <3>1, <3>2, LruIdIsLast
    <3>3. CASE ~(HIT_THRES + 1 < GP_PART)
      BY <3>3, Sizes DEF Parts
    <3> QED BY <3>2, <3>3
  <2> QED BY <1>13, <2>1, <2>2
<1>24. FullMatchFound'
  <2> SUFFICES ASSUME full # {} PROVE ToSet(feature) \subseteq Indexed(t)
    BY <1>1, <1>10 DEF FullMatchFound, Indexed
  <2>1. \E n \in Considered : re[n].hit = Len(feature)
    BY <1>3, <1>6
  <2> QED BY <1>6, <1>9, <2>1
<1> QED BY <1>10, <1>15, <1>16, <1>18, <1>19, <1>20, <1>21, <1>22, <1>23, <1>24 DEF IInv

-----------------------------------------------------------------------------
(* Every step keeps the invariant.                                         *)
LEMMA StepSound == IInv /\ [Next]_vars => IInv'
<1> SUFFICES ASSUME IInv, [Next]_vars PROVE IInv'
  OBVIOUS
<1>1. CASE UNCHANGED vars
  <2>1. UNCHANGED <<build, nodeVars, netVars, clientVars>>
    BY <1>1 DEF vars
  <2>2. TypesNode
    BY DEF IInv, Types
  <2>3. Grows /\ TypesNode'
    BY <2>1, <2>2, NodesStay
  <2> QED BY <2>1, <2>3, GrowthSound
<1>2. CASE Next
  <2>1. UNCHANGED build /\ (Client \/ \E n \in Nodes : Answer(n) \/ Grow(n))
    BY <1>2 DEF Next
  <2>2. CASE Client
    BY <2>1, <2>2, NextSegmentSound, UseLcacheSound, UseGpSound, AskNodesSound, CollectSound,
       UseForceSound, SendSegmentSound, TakeReplySound DEF Client
  <2>3. CASE \E n \in Nodes : Answer(n)
    BY <2>1, <2>3, AnswerQuerySound, AnswerSegmentSound DEF Answer
  <2>4. CASE \E n \in Nodes : Grow(n)
    BY <2>1, <2>4, StoreChunkSound, IndexFeatureSound DEF Grow
  <2> QED BY <2>1, <2>2, <2>3, <2>4
<1> QED BY <1>1, <1>2

(* The inductive invariant of a client that routes by guideposts.          *)
THEOREM Invariance == Spec => []IInv
BY InitSound, StepSound, PTL DEF Spec

-----------------------------------------------------------------------------
(* gp.table is part of what a node indexed (match_in_gp, update_gp): a hit *)
(* in the guidepost is a hit on the node, however old the guidepost is.    *)
THEOREM GuidepostsNeverLie == Spec => []GuidepostTrue
<1>1. IInv => GuidepostTrue
  BY DEF IInv, Truth, Known, GuidepostTrue
<1> QED BY <1>1, Invariance, PTL

(* lru_id fills no more than HIT_THRES + 1 parts of a guidepost, however   *)
(* many GP_PART gives it.                                                  *)
THEOREM PartsAreWasted == Spec => []FewPartsUsed
<1>1. IInv => FewPartsUsed
  BY DEF IInv
<1> QED BY <1>1, Invariance, PTL

(* Between segments the client believes of no node that it stores more     *)
(* than it does (storage[id] = buf.storage in remote_dedup).               *)
THEOREM EstimatesLag == Spec => []EstimateLags
<1>1. IInv => EstimateLags
  BY DEF IInv, Estimates
<1> QED BY <1>1, Invariance, PTL

(* find_all_matched decides before any load does: a segment that a node    *)
(* was known to have whole goes to a node that has it whole.               *)
THEOREM SegmentFindsItsNode == Spec => []FullMatchFound
<1>1. IInv => FullMatchFound
  BY DEF IInv
<1> QED BY <1>1, Invariance, PTL

(* Counting events (count += nfds in feature_request) is enough: when      *)
(* use_force goes on it has one reply of each node it asked, none is left  *)
(* for the next round, and the client never waits for nobody.              *)
THEOREM EveryReplyIsRead == Spec => []RepliesMatch
<1>1. IInv => RepliesMatch
  <2> SUFFICES ASSUME IInv PROVE RepliesMatch
    OBVIOUS
  <2>1. build \in Builds
    BY DEF IInv, Types, TypesNode
  <2>2. ASSUME pc = "collect" PROVE \E n \in Nodes : query[n] # None \/ feaReply[n] # None
    <3> SUFFICES ASSUME \A n \in Nodes : query[n] = None /\ feaReply[n] = None PROVE FALSE
      OBVIOUS
    <3>1. feature \in Segments[build]
      BY <2>2 DEF IInv, Phases
    <3>2. /\ Considered \subseteq Nodes /\ IsFiniteSet(Considered)
          /\ Len(Candidates) = Cardinality(Considered)
      BY <2>1, <3>1, CandidatesSound
    <3>3. Considered \subseteq Read
      BY <2>2, <3>2 DEF IInv, Rounds, Read
    <3>4. IsFiniteSet(Read)
      <4>1. Read \in SUBSET Nodes
        BY DEF Read
      <4> QED BY <4>1, NodesFacts, FS_Subset
    <3>5. Cardinality(Considered) <= Cardinality(Read)
      BY <3>3, <3>4, FS_Subset
    <3>6. Cardinality(Read) < Cardinality(Considered)
      BY <2>2, <3>2 DEF IInv, Rounds
    <3>7. Cardinality(Read) \in Nat /\ Cardinality(Considered) \in Nat
      BY <3>2, <3>4, FS_CardinalityType
    <3> QED BY <3>5, <3>6, <3>7
  <2>3. pc = "await" => segment[target] \/ segReply[target] # None
    BY DEF IInv, Rounds
  <2>4. ASSUME pc = "update" PROVE \A n \in Nodes : re[n].storage # None <=> n \in Considered
    BY <2>4 DEF IInv, Rounds
  <2>5. pc \notin {"collect", "update"} =>
          \A n \in Nodes : query[n] = None /\ feaReply[n] = None
    BY DEF IInv, Rounds
  <2> QED BY <2>2, <2>3, <2>4, <2>5 DEF RepliesMatch
<1> QED BY <1>1, Invariance, PTL

(* The numbers a routing decision is made of: a query promises at most     *)
(* HIT_THRES hits (feature.c:197), and no node reports more hits than the  *)
(* segment has features, so that fea_num - hit does not wrap round.        *)
THEOREM NumbersAreSound == Spec => []Inv
<1>1. IInv => TypeOK
  <2> SUFFICES ASSUME IInv PROVE TypeOK
    OBVIOUS
  <2>1. Types /\ Phases
    BY DEF IInv
  <2>2. feature \in Segments[build] \cup {<<>>}
    BY <2>1 DEF Phases
  <2>3. target \in Nodes \cup {NoNode}
    BY <2>1 DEF Phases
  <2>4. \A n \in Nodes : feaReply[n] # None =>
          /\ feaReply[n].hit \in Nat /\ feaReply[n].storage \in Nat
          /\ feaReply[n].slice \subseteq Features
    <3> SUFFICES ASSUME NEW n \in Nodes, feaReply[n] # None
                 PROVE  /\ feaReply[n].hit \in Nat /\ feaReply[n].storage \in Nat
                        /\ feaReply[n].slice \subseteq Features
      OBVIOUS
    <3>1. feaReply[n] \in Replies
      BY <2>1 DEF Types, TypesNet
    <3>2. feaReply[n].storage \in Nat
      BY DEF IInv, Requests, ReplyGood
    <3> QED BY <3>1, <3>2 DEF Replies
  <2>5. \A n \in Nodes : /\ hitPos[n] \in Seq(Parts) /\ Len(hitPos[n]) <= FEATURE_NUM
                         /\ cache[n] \in Seq(Features) /\ Len(cache[n]) <= LCACHE_SIZE
    BY <2>1 DEF Types, TypesGp, TypesCache
  <2> QED BY <2>1, <2>2, <2>3, <2>4, <2>5
          DEF TypeOK, Types, TypesNode, TypesNet, TypesGp, TypesRound, TypesCache, Places
<1>2. IInv => PromisesKept
  BY DEF IInv, Requests, QueryGood, PromisesKept
<1>3. IInv => HitsBounded
  <2> SUFFICES ASSUME IInv, NEW n \in Nodes
               PROVE  /\ pc \in {"ask", "collect", "update"} /\ n \in Considered =>
                           Len(hitPos[n]) <= Len(feature)
                      /\ feaReply[n] # None => feaReply[n].hit <= Len(feature)
                      /\ re[n].hit <= Len(feature)
    BY DEF HitsBounded
  <2>1. Len(feature) \in Nat
    <3>1. build \in Builds /\ (feature = <<>> \/ feature \in Segments[build])
      BY DEF IInv, Types, TypesNode, Phases
    <3>2. CASE feature = <<>>
      BY <3>2
    <3>3. CASE feature \in Segments[build]
      BY <3>1, <3>3, SegmentType
    <3> QED BY <3>1, <3>2, <3>3
  <2>2. re[n] = Unread => re[n].hit = 0
    BY DEF Unread
  <2>3. re[n] # Unread => re[n].hit <= Len(feature)
    BY DEF IInv, Requests, ReplyGood
  <2>4. re[n].hit <= Len(feature)
    BY <2>1, <2>2, <2>3
  <2>5. feaReply[n] # None => feaReply[n].hit <= Len(feature)
    BY DEF IInv, Requests, ReplyGood
  <2>6. pc \in {"ask", "collect", "update"} /\ n \in Considered => Len(hitPos[n]) <= Len(feature)
    BY DEF IInv, Hits
  <2> QED BY <2>4, <2>5, <2>6
<1>4. IInv => Inv
  BY <1>1, <1>2, <1>3 DEF Inv
<1> QED BY <1>4, Invariance, PTL
=============================================================================
