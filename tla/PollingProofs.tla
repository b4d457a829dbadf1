---------------------------- MODULE PollingProofs ----------------------------
(***************************************************************************)
(* The routing without guideposts is correct for any number of nodes,      *)
(* features and segments, in the four configurations.                      *)
(*                                                                         *)
(* The invariant follows a segment through force_route, as that of         *)
(* GuidepostProofs does through gp_route.  Beside it, Promises follows     *)
(* each feature of a cache on its way to the node's index: it is put into  *)
(* the cache while the segment waits to be sent (Addressed), travels       *)
(* (Travelling), waits in the handler (todo) and is indexed.  At no moment *)
(* is it in none of these places.                                          *)
(***************************************************************************)
EXTENDS Polling, NodeChoiceProofs

clientVars == <<pc, feature, cacheVars, re, count, target, full>>

(* A query is the client's segment; STATELESS sends it without features.   *)
Queries == Segments \cup {<<>>}
Considered == ToSet(Candidates)

TypesNode ==
  /\ build \in Builds
  /\ indexed \in [Nodes -> SUBSET Features]
  /\ stored \in [Nodes -> 0 .. MaxStored]
  /\ todo \in [Nodes -> Seq(Features)]

TypesNet ==
  /\ query \in [Nodes -> Queries \cup {None}]
  /\ feaReply \in [Nodes -> Replies \cup {None}]
  /\ segment \in [Nodes -> Queries \cup {None}]
  /\ segReply \in [Nodes -> BOOLEAN]

TypesClient ==
  /\ re \in [Nodes -> Replies \cup {None}]
  /\ count \in 0 .. NodeNum
  /\ cache \in [Nodes -> Seq(Features)]
  /\ \A n \in Nodes : Len(cache[n]) <= LCACHE_SIZE
  /\ known \in [Nodes -> Nat]
  /\ full \subseteq Nodes

Places == {"idle", "route", "collect", "choose", "send", "await"}

Types == TypesNode /\ TypesNet /\ TypesClient /\ pc \in Places

(* What there is at each place of the client's code.                       *)
Phases ==
  /\ IF pc = "idle" THEN feature = <<>> ELSE feature \in Segments
  /\ IF pc \in {"send", "await"} THEN target \in Nodes ELSE target = NoNode
  /\ pc \in {"idle", "route"} => re = [n \in Nodes |-> None] /\ full = {}
  /\ pc \in {"collect", "choose"} => full \subseteq Considered /\ build.route # "STATELESS"

(* The nodes whose reply the client has read.                              *)
Read == {n \in Nodes : re[n] # None}

(* A node that was asked has the query, or its reply can be read, or was:  *)
(* one of the three; the same for the segment and the target; and count is *)
(* the number of replies read.                                             *)
Rounds ==
  /\ \A n \in Nodes : (pc = "await" /\ n = target) \/ (segment[n] = None /\ ~segReply[n])
  /\ pc = "await" => (segment[target] # None <=> ~segReply[target])
  /\ pc \notin {"collect", "choose"} =>
       \A n \in Nodes : query[n] = None /\ feaReply[n] = None
  /\ pc \in {"collect", "choose"} =>
       \A n \in Nodes :
         /\ query[n] # None => feaReply[n] = None /\ re[n] = None
         /\ feaReply[n] # None => re[n] = None
         /\ query[n] # None \/ feaReply[n] # None \/ re[n] # None <=> n \in Considered
  /\ pc = "collect" => count = Cardinality(Read) /\ count < Len(Candidates)
  /\ pc = "choose" => \A n \in Considered : re[n] # None

(* A reply counts no feature twice, and all of them exactly if the node    *)
(* has, or had when it was asked, the whole segment.                       *)
ReplyGood(n, r) ==
  /\ r.hit <= Len(feature)
  /\ r.hit = Len(feature) => ToSet(feature) \subseteq indexed[n]
  /\ n \in full => r.hit = Len(feature)

Requests ==
  \A n \in Nodes :
    /\ query[n] # None => query[n] = feature
    /\ feaReply[n] # None => ReplyGood(n, feaReply[n])
    /\ re[n] # None /\ pc \in {"collect", "choose"} => ReplyGood(n, re[n])
    /\ re[n] # None => re[n].hit <= Len(feature)

(* What a node was asked about it has not lost.                            *)
FullIsIndexed ==
  pc \in {"collect", "choose"} => \A n \in full : ToSet(feature) \subseteq indexed[n]

(* The segment under way is the client's; without SSDEDUP there is no cache. *)
Underway ==
  /\ \A n \in Nodes : segment[n] # None /\ build.ssdedup => segment[n] = feature
  /\ \A n \in Nodes : ~build.ssdedup => cache[n] = <<>>

(* The features a node has or is about to index for this client.           *)
Travelling(n) == IF segment[n] # None THEN ToSet(segment[n]) ELSE {}
Addressed(n) == IF pc = "send" /\ target = n THEN ToSet(feature) ELSE {}
Promised(n) == indexed[n] \cup ToSet(todo[n]) \cup Travelling(n) \cup Addressed(n)

(* CacheTrue in these words.                                               *)
Promises == \A n \in Nodes : ToSet(cache[n]) \subseteq Promised(n)

IInv ==
  /\ Types /\ Phases /\ Rounds /\ Requests /\ FullIsIndexed /\ Underway
  /\ StaysHome /\ FullMatchFound /\ Promises

-----------------------------------------------------------------------------
(* The constants.                                                          *)
LEMMA Sizes ==
  /\ NodeNum \in Nat \ {0} /\ FEATURE_NUM \in Nat \ {0} /\ EXP_SEGMENT_SIZE \in Nat
  /\ LCACHE_SIZE \in Nat \ {0} /\ MaxStored \in Nat
  /\ HomeOf \in [Features -> Nodes]
  /\ Segments \subseteq Seq(Features)
BY ConstantAssumption

LEMMA BuildType ==
  ASSUME build \in Builds
  PROVE  /\ build.route \in {"BOAFFT", "SIGMA", "STATELESS"} /\ build.ssdedup \in BOOLEAN
         /\ build.ssdedup => build.route = "BOAFFT"
BY ConstantAssumption

LEMMA SegmentType ==
  ASSUME NEW s \in Segments
  PROVE  /\ s \in Seq(Features) /\ Len(s) \in 1 .. FEATURE_NUM /\ Len(s) \in Nat
         /\ DOMAIN s = 1 .. Len(s) /\ ToSet(s) \subseteq Features /\ s # <<>>
<1>1. s \in Seq(Features) /\ Len(s) \in 1 .. FEATURE_NUM
  BY ConstantAssumption
<1>2. FEATURE_NUM \in Nat
  BY Sizes
<1> QED BY <1>1, <1>2 DEF ToSet

LEMMA NodesFacts ==
  /\ IsFiniteSet(Nodes) /\ Cardinality(Nodes) = NodeNum
  /\ Nodes \subseteq Nat /\ NoNode \notin Nodes
<1>1. NodeNum \in Nat \ {0} /\ 0 \in Int /\ NodeNum - 1 \in Int
  BY Sizes
<1>2. /\ IsFiniteSet(0 .. NodeNum - 1)
      /\ Cardinality(0 .. NodeNum - 1) = IF 0 > NodeNum - 1 THEN 0 ELSE (NodeNum - 1) - 0 + 1
  BY <1>1, FS_Interval
<1> QED BY <1>1, <1>2 DEF Nodes, NoNode

(* The code's test of a list is membership in what is listed.              *)
LEMMA ContainsIsIn ==
  ASSUME NEW T, NEW s \in Seq(T), NEW e
  PROVE  Contains(s, e) <=> e \in ToSet(s)
<1>1. DOMAIN s = 1 .. Len(s)
  OBVIOUS
<1> QED BY <1>1 DEF Contains, ToSet

(* The nodes that are asked.                                               *)
LEMMA CandidatesSound ==
  ASSUME build \in Builds, feature \in Segments
  PROVE  /\ Candidates \in Seq(Nodes) /\ Candidates # <<>>
         /\ Considered \subseteq Nodes /\ IsFiniteSet(Considered)
         /\ Len(Candidates) = Cardinality(Considered)
         /\ build.route = "BOAFFT" => Considered = Nodes
         /\ build.route # "BOAFFT" =>
              \A n \in Considered : \E i \in DOMAIN feature : HomeOf[feature[i]] = n
<1> DEFINE c == Candidates
           all == [i \in 1 .. NodeNum |-> i - 1]
           homes == [i \in DOMAIN feature |-> HomeOf[feature[i]]]
<1>1. /\ c \in Seq(Nodes) /\ c # <<>> /\ IsInjective(c)
      /\ build.route = "BOAFFT" => ToSet(c) = Nodes
      /\ build.route # "BOAFFT" => ToSet(c) = ToSet(homes)
  <2>1. CASE build.route # "BOAFFT"
    <3>1. feature \in Seq(Features) /\ DOMAIN feature = 1 .. Len(feature) /\ feature # <<>>
      BY SegmentType
    <3>2. homes \in Seq(Nodes) /\ DOMAIN homes = DOMAIN feature
      BY <3>1, Sizes
    <3>3. /\ AddressedNodes(homes) \in Seq(Nodes) /\ IsInjective(AddressedNodes(homes))
          /\ ToSet(AddressedNodes(homes)) = ToSet(homes)
      <4> HIDE DEF homes
      <4> QED BY <3>2, AddressedSound
    <3>4. ToSet(homes) # {} /\ ToSet(<<>>) = {}
      <4>1. 1 \in DOMAIN homes
        BY <3>1, <3>2
      <4> QED BY <4>1 DEF ToSet
    <3>5. c = AddressedNodes(homes)
      BY <2>1 DEF Candidates
    <3> HIDE DEF c, homes
    <3> QED BY <2>1, <3>3, <3>4, <3>5
  <2>2. CASE build.route = "BOAFFT"
    <3>1. c = all
      BY <2>2 DEF Candidates
    <3>2. all \in Seq(Nodes) /\ all # <<>> /\ IsInjective(all) /\ ToSet(all) = Nodes
      <4> HIDE DEF all
      <4>1. all = [i \in 1 .. NodeNum |-> i - 1]
        BY DEF all
      <4> QED BY <4>1, Sizes, AllNodesSound DEF Nodes
    <3> HIDE DEF c, all
    <3> QED BY <2>2, <3>1, <3>2
  <2> QED BY <2>1, <2>2
<1> HIDE DEF c
<1>2. IsFiniteSet(ToSet(c)) /\ Cardinality(ToSet(c)) = Len(c) /\ ToSet(c) \subseteq Nodes
  BY <1>1, InjectiveSize
<1>3. \A n \in ToSet(homes) : \E i \in DOMAIN feature : HomeOf[feature[i]] = n
  BY DEF ToSet
<1> QED BY <1>1, <1>2, <1>3 DEF c, Considered

(* The node chosen among them.                                             *)
LEMMA BestSound ==
  ASSUME build \in Builds, feature \in Segments,
         NEW hit, NEW loads, \A n \in Considered : hit[n] \in 0 .. Len(feature) /\ loads[n] \in Nat,
         NEW t \in BestAmong(Candidates, hit, loads, Len(feature))
  PROVE  /\ t \in Considered /\ t \in Nodes
         /\ (\E n \in Considered : hit[n] = Len(feature)) => hit[t] = Len(feature)
<1> DEFINE c == Candidates
           m == Len(feature)
<1>1. c \in Seq(Nodes) /\ c # <<>> /\ Considered \subseteq Nodes /\ m \in Nat
  BY CandidatesSound, SegmentType
<1>2. Considered = ToSet(c) /\ t \in BestAmong(c, hit, loads, m)
  BY DEF Considered
<1> HIDE DEF c, m
<1>3. \A n \in ToSet(c) : hit[n] \in 0 .. m /\ loads[n] \in Nat
  BY <1>2 DEF m
<1>4. t \in ToSet(c) /\ ((\E n \in ToSet(c) : hit[n] = m) => hit[t] = m)
  BY <1>1, <1>2, <1>3, BestAmongSound
<1> QED BY <1>1, <1>2, <1>4 DEF m

(* An estimate is a number, as long as no more features hit than there are. *)
LEMMA ExpectedIsNat ==
  ASSUME feature \in Segments, NEW hit \in 0 .. Len(feature)
  PROVE  Expected(hit) \in Nat
<1> DEFINE a == EXP_SEGMENT_SIZE * (Len(feature) - hit)
<1>1. Len(feature) \in Nat /\ EXP_SEGMENT_SIZE \in Nat /\ FEATURE_NUM \in Nat \ {0}
  BY SegmentType, Sizes
<1>2. Len(feature) - hit \in Nat
  BY <1>1
<1>3. a \in Nat
  BY <1>1, <1>2
<1> HIDE DEF a
<1>4. a \div FEATURE_NUM \in Nat
  BY <1>1, <1>3
<1> QED BY <1>4 DEF Expected, a

(* update_lcache adds to the target's cache no more than the segment.      *)
LEMMA UpdatedSound ==
  ASSUME build \in Builds, feature \in Segments, TypesClient, NEW t \in Nodes
  PROVE  /\ Updated(t) \in [Nodes -> Seq(Features)]
         /\ \A n \in Nodes : Len(Updated(t)[n]) <= LCACHE_SIZE
         /\ ~build.ssdedup => Updated(t) = cache
         /\ \A n \in Nodes : n # t => Updated(t)[n] = cache[n]
         /\ ToSet(Updated(t)[t]) \subseteq ToSet(cache[t]) \cup ToSet(feature)
<1>1. /\ cache \in [Nodes -> Seq(Features)] /\ \A n \in Nodes : Len(cache[n]) <= LCACHE_SIZE
      /\ feature \in Seq(Features) /\ LCACHE_SIZE \in Nat \ {0}
  BY SegmentType, Sizes DEF TypesClient
<1>2. CASE ~build.ssdedup
  BY <1>1, <1>2 DEF Updated
<1>3. CASE build.ssdedup
  <2> DEFINE now == EnteredAll(cache[t], feature, LCACHE_SIZE)
  <2>1. /\ now \in Seq(Features) /\ Len(now) <= LCACHE_SIZE
        /\ ToSet(now) \subseteq ToSet(cache[t]) \cup ToSet(feature)
    BY <1>1, EnteredAllSound
  <2>2. Updated(t) = [n \in Nodes |-> IF n = t THEN now ELSE cache[n]]
    BY <1>3 DEF Updated, TheTarget
  <2> HIDE DEF now
  <2> QED BY <1>1, <1>3, <2>1, <2>2
<1> QED BY <1>2, <1>3

-----------------------------------------------------------------------------
LEMMA InitSound == Init => IInv
<1> SUFFICES ASSUME Init PROVE IInv
  OBVIOUS
<1>1. /\ build \in Builds
      /\ indexed = [n \in Nodes |-> {}] /\ stored = [n \in Nodes |-> 0]
      /\ query = [n \in Nodes |-> None] /\ feaReply = [n \in Nodes |-> None]
      /\ segment = [n \in Nodes |-> None] /\ todo = [n \in Nodes |-> <<>>]
      /\ segReply = [n \in Nodes |-> FALSE] /\ pc = "idle" /\ feature = <<>>
      /\ cache = [n \in Nodes |-> <<>>] /\ known = [n \in Nodes |-> 0]
      /\ re = [n \in Nodes |-> None] /\ count = 0 /\ target = NoNode /\ full = {}
  BY DEF Init
<1>2. Types
  <2>1. TypesNode
    <3>1. 0 \in 0 .. MaxStored
      BY Sizes
    <3> QED BY <1>1, <3>1 DEF TypesNode
  <2>2. TypesNet
    BY <1>1 DEF TypesNet
  <2>3. TypesClient
    BY <1>1, Sizes DEF TypesClient
  <2> QED BY <1>1, <2>1, <2>2, <2>3 DEF Types, Places
<1>3. Phases
  BY <1>1 DEF Phases
<1>4. Rounds
  BY <1>1 DEF Rounds
<1>5. Requests
  BY <1>1 DEF Requests
<1>6. FullIsIndexed /\ FullMatchFound /\ StaysHome
  BY <1>1 DEF FullIsIndexed, FullMatchFound, StaysHome
<1>7. Underway
  BY <1>1 DEF Underway
<1>8. Promises
  <2>1. ToSet(<<>>) = {}
    BY DEF ToSet
  <2> QED BY <1>1, <2>1 DEF Promises
<1> QED BY <1>2, <1>3, <1>4, <1>5, <1>6, <1>7, <1>8 DEF IInv

-----------------------------------------------------------------------------
(* What a step of the nodes does to what they hold.                        *)
Grows == \A n \in Nodes : indexed[n] \subseteq indexed'[n]

(* The nodes considered depend on nothing but the segment.                 *)
LEMMA ConsideredStays ==
  ASSUME build' = build, feature' = feature
  PROVE  Candidates' = Candidates /\ Considered' = Considered
BY DEF Candidates, Considered

(* A reply remains as good as it was when the nodes grow.                  *)
LEMMA ReplyStays ==
  ASSUME Grows, feature' = feature, full' = full, NEW n \in Nodes, NEW r, ReplyGood(n, r)
  PROVE  ReplyGood(n, r)'
BY DEF Grows, ReplyGood

(* The replies that were read are not touched by the nodes.                *)
LEMMA ReadStays ==
  ASSUME IInv, Grows, UNCHANGED clientVars, NEW n \in Nodes
  PROVE  /\ re'[n] # None /\ pc' \in {"collect", "choose"} => ReplyGood(n, re[n])'
         /\ re'[n] # None => re'[n].hit <= Len(feature')
<1> USE DEF clientVars, cacheVars
<1>1. /\ re[n] # None /\ pc \in {"collect", "choose"} => ReplyGood(n, re[n])
      /\ re[n] # None => re[n].hit <= Len(feature)
  BY DEF IInv, Requests
<1> QED BY <1>1 DEF Grows, ReplyGood

(* A step of the nodes leaves the client alone; what the client believes of *)
(* them is as true as before.                                              *)
LEMMA NodeStep ==
  ASSUME IInv, UNCHANGED <<build, clientVars>>, Grows, TypesNode', TypesNet'
  PROVE  Types' /\ Phases' /\ FullIsIndexed' /\ StaysHome' /\ FullMatchFound'
<1> USE DEF clientVars, cacheVars
<1>1. Candidates' = Candidates /\ Considered' = Considered
  BY ConsideredStays
<1>2. Types'
  <2>1. Types
    BY DEF IInv
  <2> QED BY <2>1 DEF Types, TypesClient
<1>3. Phases'
  BY <1>1 DEF IInv, Phases
<1>4. FullIsIndexed'
  <2>1. full \subseteq Nodes /\ FullIsIndexed
    BY DEF IInv, Types, TypesClient
  <2> QED BY <2>1 DEF FullIsIndexed, Grows
<1>5. StaysHome'
  BY DEF IInv, StaysHome
<1>6. FullMatchFound'
  <2>1. FullMatchFound /\ (pc \in {"send", "await"} => target \in Nodes)
    BY DEF IInv, Phases
  <2> QED BY <2>1 DEF FullMatchFound, Grows
<1> QED BY <1>2, <1>3, <1>4, <1>5, <1>6

(* A node works on its own: no message is touched.                         *)
LEMMA GrowthSound ==
  ASSUME IInv, UNCHANGED <<build, netVars, clientVars>>, Grows, TypesNode',
         \A n \in Nodes : indexed[n] \cup ToSet(todo[n]) \subseteq indexed'[n] \cup ToSet(todo'[n])
  PROVE  IInv'
<1>1. TypesNet'
  BY DEF IInv, Types, TypesNet, netVars
<1>2. Types' /\ Phases' /\ FullIsIndexed' /\ StaysHome' /\ FullMatchFound'
  BY <1>1, NodeStep
<1> USE DEF netVars, clientVars, cacheVars
<1>3. Rounds'
  <2>1. Candidates' = Candidates /\ Considered' = Considered
    BY ConsideredStays
  <2>2. Read' = Read
    BY DEF Read
  <2> QED BY <2>1, <2>2 DEF IInv, Rounds
<1>4. Requests'
  <2> SUFFICES ASSUME NEW n \in Nodes
               PROVE  /\ query'[n] # None => query'[n] = feature'
                      /\ feaReply'[n] # None => ReplyGood(n, feaReply[n])'
                      /\ re'[n] # None /\ pc' \in {"collect", "choose"} => ReplyGood(n, re[n])'
                      /\ re'[n] # None => re'[n].hit <= Len(feature')
    BY DEF Requests
  <2>1. /\ query[n] # None => query[n] = feature
        /\ feaReply[n] # None => ReplyGood(n, feaReply[n])
    BY DEF IInv, Requests
  <2>2. feaReply[n] # None => ReplyGood(n, feaReply[n])'
    BY <2>1 DEF ReplyGood, Grows
  <2> QED BY <2>1, <2>2, ReadStays
<1>5. Underway'
  BY DEF IInv, Underway
<1>6. Promises'
  <2> SUFFICES ASSUME NEW n \in Nodes PROVE ToSet(cache[n]) \subseteq Promised(n)'
    BY DEF Promises
  <2>1. ToSet(cache[n]) \subseteq Promised(n)
    BY DEF IInv, Promises
  <2>2. Travelling(n)' = Travelling(n) /\ Addressed(n)' = Addressed(n)
    BY DEF Travelling, Addressed
  <2> QED BY <2>1, <2>2 DEF Promised
<1> QED BY <1>2, <1>3, <1>4, <1>5, <1>6 DEF IInv

(* Another client's segment.                                               *)
LEMMA GrowSound ==
  ASSUME IInv, UNCHANGED build, NEW n \in Nodes, Grow(n)
  PROVE  IInv'
<1>1. UNCHANGED <<todo, netVars, clientVars>>
  BY DEF Grow, clientVars
<1>2. TypesNode
  BY DEF IInv, Types
<1>3. CASE \E f \in Features \ indexed[n] :
             indexed' = [indexed EXCEPT ![n] = @ \cup {f}] /\ UNCHANGED stored
  <2>1. PICK f \in Features :
          indexed' = [indexed EXCEPT ![n] = @ \cup {f}] /\ UNCHANGED stored
    BY <1>3
  <2>2. Grows
    BY <1>2, <2>1 DEF Grows, TypesNode
  <2>3. TypesNode'
    BY <1>1, <1>2, <2>1 DEF TypesNode
  <2>4. \A m \in Nodes : indexed[m] \cup ToSet(todo[m]) \subseteq indexed'[m] \cup ToSet(todo'[m])
    BY <1>1, <2>2 DEF Grows
  <2> QED BY <1>1, <2>2, <2>3, <2>4, GrowthSound
<1>4. CASE stored[n] < MaxStored /\ stored' = [stored EXCEPT ![n] = @ + 1] /\ UNCHANGED indexed
  <2>1. Grows
    BY <1>4 DEF Grows
  <2>2. TypesNode'
    <3>1. stored[n] \in 0 .. MaxStored /\ MaxStored \in Nat
      BY <1>2, Sizes DEF TypesNode
    <3>2. stored[n] + 1 \in 0 .. MaxStored
      BY <1>4, <3>1
    <3> QED BY <1>1, <1>2, <1>4, <3>2 DEF TypesNode
  <2>3. \A m \in Nodes : indexed[m] \cup ToSet(todo[m]) \subseteq indexed'[m] \cup ToSet(todo'[m])
    BY <1>1, <1>4
  <2> QED BY <1>1, <2>1, <2>2, <2>3, GrowthSound
<1> QED BY <1>3, <1>4 DEF Grow

(* The handler enters the next feature.                                    *)
LEMMA IndexFeatureSound ==
  ASSUME IInv, UNCHANGED build, NEW n \in Nodes, IndexFeature(n)
  PROVE  IInv'
<1> DEFINE f == Head(todo[n])
           rest == Tail(todo[n])
<1>1. /\ UNCHANGED <<stored, netVars, clientVars>> /\ todo[n] # <<>>
      /\ indexed' = [indexed EXCEPT ![n] = @ \cup {f}]
      /\ todo' = [todo EXCEPT ![n] = rest]
  BY DEF IndexFeature, clientVars
<1>2. TypesNode /\ todo[n] \in Seq(Features)
  BY DEF IInv, Types, TypesNode
<1>3. /\ f \in Features /\ rest \in Seq(Features)
      /\ ToSet(todo[n]) \subseteq {f} \cup ToSet(rest)
  <2>1. \A s \in Seq(Features) : s # <<>> =>
          /\ Head(s) \in Features /\ Tail(s) \in Seq(Features)
          /\ ToSet(s) \subseteq {Head(s)} \cup ToSet(Tail(s))
    <3> TAKE s \in Seq(Features)
    <3> HAVE s # <<>>
    <3>1. /\ Head(s) = s[1] /\ Tail(s) \in Seq(Features) /\ Len(Tail(s)) = Len(s) - 1
          /\ Len(s) \in Nat /\ DOMAIN s = 1 .. Len(s)
          /\ \A i \in 1 .. Len(s) - 1 : Tail(s)[i] = s[i + 1]
      OBVIOUS
    <3>2. DOMAIN Tail(s) = 1 .. Len(s) - 1
      BY <3>1
    <3>3. \A i \in 1 .. Len(s) : i = 1 \/ (i - 1 \in 1 .. Len(s) - 1 /\ Tail(s)[i - 1] = s[i])
      BY <3>1
    <3>4. Head(s) \in Features
      BY <3>1
    <3>5. ToSet(s) \subseteq {Head(s)} \cup ToSet(Tail(s))
      <4> SUFFICES ASSUME NEW i \in 1 .. Len(s) PROVE s[i] \in {Head(s)} \cup ToSet(Tail(s))
        BY <3>1 DEF ToSet
      <4>1. CASE i = 1
        BY <3>1, <4>1
      <4>2. CASE i - 1 \in DOMAIN Tail(s) /\ Tail(s)[i - 1] = s[i]
        BY <4>2 DEF ToSet
      <4> QED BY <3>2, <3>3, <4>1, <4>2
    <3> QED BY <3>1, <3>4, <3>5
  <2> QED BY <1>1, <1>2, <2>1
<1> HIDE DEF f, rest
<1>4. \A m \in Nodes : /\ indexed'[m] = IF m = n THEN indexed[n] \cup {f} ELSE indexed[m]
                       /\ todo'[m] = IF m = n THEN rest ELSE todo[m]
  BY <1>1, <1>2 DEF TypesNode
<1>5. Grows
  BY <1>4 DEF Grows
<1>6. TypesNode'
  BY <1>1, <1>2, <1>3 DEF TypesNode
<1>7. \A m \in Nodes : indexed[m] \cup ToSet(todo[m]) \subseteq indexed'[m] \cup ToSet(todo'[m])
  BY <1>3, <1>4
<1> QED BY <1>1, <1>5, <1>6, <1>7, GrowthSound

(* The target takes the segment: from now on its handler has it.           *)
LEMMA AnswerSegmentSound ==
  ASSUME IInv, UNCHANGED build, NEW n \in Nodes, AnswerSegment(n)
  PROVE  IInv'
<1>1. /\ UNCHANGED <<indexed, query, feaReply, clientVars>>
      /\ segment[n] # None /\ todo[n] = <<>>
      /\ stored' = [stored EXCEPT ![n] = IF @ < MaxStored THEN @ + 1 ELSE @]
      /\ todo' = [todo EXCEPT ![n] = segment[n]]
      /\ segReply' = [segReply EXCEPT ![n] = TRUE]
      /\ segment' = [segment EXCEPT ![n] = None]
  BY DEF AnswerSegment, clientVars
<1>2. TypesNode /\ TypesNet
  BY DEF IInv, Types
<1>3. segment[n] \in Seq(Features)
  <2>1. segment[n] \in Queries
    BY <1>1, <1>2 DEF TypesNet
  <2>2. <<>> \in Seq(Features)
    OBVIOUS
  <2> QED BY <2>1, <2>2, Sizes DEF Queries
<1>4. Grows
  BY <1>1 DEF Grows
<1>5. TypesNode'
  <2>1. MaxStored \in Nat /\ \A m \in Nodes : stored[m] \in 0 .. MaxStored
    BY <1>2, Sizes DEF TypesNode
  <2>2. \A x \in 0 .. MaxStored : (IF x < MaxStored THEN x + 1 ELSE x) \in 0 .. MaxStored
    BY <2>1
  <2>3. stored' \in [Nodes -> 0 .. MaxStored]
    BY <1>1, <1>2, <2>1, <2>2 DEF TypesNode
  <2> QED BY <1>1, <1>2, <1>3, <2>3 DEF TypesNode
<1>6. TypesNet'
  BY <1>1, <1>2 DEF TypesNet
<1>7. Types' /\ Phases' /\ FullIsIndexed' /\ StaysHome' /\ FullMatchFound'
  BY <1>1, <1>4, <1>5, <1>6, NodeStep
<1>8. \A m \in Nodes : /\ todo'[m] = IF m = n THEN segment[n] ELSE todo[m]
                       /\ segReply'[m] = IF m = n THEN TRUE ELSE segReply[m]
                       /\ segment'[m] = IF m = n THEN None ELSE segment[m]
  BY <1>1, <1>2 DEF TypesNode, TypesNet
<1> USE DEF clientVars, cacheVars
<1>9. pc = "await" /\ n = target
  BY <1>1 DEF IInv, Rounds
<1>10. Rounds'
  <2>1. \A m \in Nodes : m # target => segment'[m] = None /\ ~segReply'[m]
    BY <1>8, <1>9 DEF IInv, Rounds
  <2>2. segment'[target] = None /\ segReply'[target]
    BY <1>8, <1>9
  <2>3. \A m \in Nodes : query[m] = None /\ feaReply[m] = None
    BY <1>9 DEF IInv, Rounds
  <2> QED BY <1>1, <1>9, <2>1, <2>2, <2>3 DEF Rounds
<1>11. Requests'
  <2>1. \A m \in Nodes : query'[m] = None /\ feaReply'[m] = None
    BY <1>1, <1>9 DEF IInv, Rounds
  <2>2. \A m \in Nodes : re'[m] # None => re'[m].hit <= Len(feature')
    BY <1>1, <1>4, ReadStays
  <2> QED BY <1>1, <1>9, <2>1, <2>2 DEF Requests
<1>12. Underway'
  BY <1>1, <1>8 DEF IInv, Underway
<1>13. Promises'
  <2> SUFFICES ASSUME NEW m \in Nodes PROVE ToSet(cache[m]) \subseteq Promised(m)'
    BY <1>1 DEF Promises
  <2>1. ToSet(cache[m]) \subseteq Promised(m)
    BY DEF IInv, Promises
  <2>2. Promised(m) = indexed[m] \cup ToSet(todo[m]) \cup Travelling(m)
    BY <1>9 DEF Promised, Addressed
  <2>3. indexed[m] \cup ToSet(todo'[m]) \cup Travelling(m)' \subseteq Promised(m)'
    BY <1>1 DEF Promised
  <2>4. CASE m = n
    <3>1. ToSet(<<>>) = {}
      BY DEF ToSet
    <3>2. ToSet(todo[m]) = {} /\ Travelling(m) = ToSet(todo'[m])
      BY <1>1, <1>8, <2>4, <3>1 DEF Travelling
    <3> QED BY <2>1, <2>2, <2>3, <3>2
  <2>5. CASE m # n
    <3>1. todo'[m] = todo[m] /\ Travelling(m)' = Travelling(m)
      BY <1>8, <2>5 DEF Travelling
    <3> QED BY <2>1, <2>2, <2>3, <3>1
  <2> QED BY <2>4, <2>5
<1> QED BY <1>7, <1>10, <1>11, <1>12, <1>13 DEF IInv

(* A node answers the query with the number of features it has.            *)
LEMMA AnswerQuerySound ==
  ASSUME IInv, UNCHANGED build, NEW n \in Nodes, AnswerQuery(n)
  PROVE  IInv'
<1> DEFINE D == DOMAIN feature
           found == {i \in D : feature[i] \in indexed[n]}
           r == [hit |-> Cardinality(found), storage |-> stored[n]]
<1>1. /\ UNCHANGED <<nodeVars, segment, segReply, clientVars>> /\ query[n] # None
      /\ query' = [query EXCEPT ![n] = None]
      /\ query[n] = feature
  BY DEF AnswerQuery, clientVars, IInv, Requests
<1>2. feaReply' = [feaReply EXCEPT ![n] = r]
  BY <1>1 DEF AnswerQuery
<1>3. TypesNode /\ TypesNet /\ feature \in Segments /\ pc \in {"collect", "choose"}
  BY <1>1 DEF IInv, Types, Phases, Rounds
<1>4. D = 1 .. Len(feature) /\ Len(feature) \in Nat
  BY <1>3, SegmentType
<1>5. IsFiniteSet(D) /\ Cardinality(D) = Len(feature)
  <2> HIDE DEF D
  <2> QED BY <1>4, IndicesFinite
<1>6. /\ Cardinality(found) \in Nat /\ Cardinality(found) <= Len(feature)
      /\ Cardinality(found) = Len(feature) => found = D
  <2>1. found \in SUBSET D
    OBVIOUS
  <2> HIDE DEF found, D
  <2>2. /\ IsFiniteSet(found) /\ Cardinality(found) <= Cardinality(D)
        /\ Cardinality(D) = Cardinality(found) => D = found
    BY <1>5, <2>1, FS_Subset
  <2>3. Cardinality(found) \in Nat
    BY <2>2, FS_CardinalityType
  <2> QED BY <1>5, <2>2, <2>3
<1>7. stored[n] \in Nat
  <2>1. \A x \in 0 .. MaxStored : x \in Nat
    BY Sizes
  <2> QED BY <1>3, <2>1 DEF TypesNode
<1>8. r.hit = Cardinality(found) /\ r \in Replies
  <2> HIDE DEF found
  <2> QED BY <1>6, <1>7 DEF Replies
<1>9. ReplyGood(n, r)
  <2>1. ASSUME r.hit = Len(feature) PROVE ToSet(feature) \subseteq indexed[n]
    <3>1. found = D
      <4> HIDE DEF found, D, r
      <4> QED BY <1>6, <1>8, <2>1
    <3> QED BY <3>1 DEF ToSet
  <2>2. ASSUME n \in full PROVE r.hit = Len(feature)
    <3>1. ToSet(feature) \subseteq indexed[n]
      BY <1>3, <2>2 DEF IInv, FullIsIndexed
    <3>2. found = D
      BY <3>1 DEF ToSet
    <3> HIDE DEF found, D, r
    <3> QED BY <1>5, <1>8, <3>2
  <2> HIDE DEF r, found
  <2> QED BY <1>6, <1>8, <2>1, <2>2 DEF ReplyGood
<1> HIDE DEF r, found, D
<1>10. PICK v : v = r
  OBVIOUS
<1>11. /\ feaReply' = [feaReply EXCEPT ![n] = v]
       /\ ReplyGood(n, v) /\ v \in Replies /\ v # None
  BY <1>2, <1>8, <1>9, <1>10, NoneAssumption
<1>12. UNCHANGED <<indexed, stored, todo>> /\ Grows /\ TypesNode'
  BY <1>1, <1>3 DEF nodeVars, Grows, TypesNode
<1>13. TypesNet'
  BY <1>1, <1>3, <1>11 DEF TypesNet
<1>14. Types' /\ Phases' /\ FullIsIndexed' /\ StaysHome' /\ FullMatchFound'
  BY <1>1, <1>12, <1>13, NodeStep
<1>15. \A m \in Nodes : /\ query'[m] = IF m = n THEN None ELSE query[m]
                        /\ feaReply'[m] = IF m = n THEN v ELSE feaReply[m]
  BY <1>1, <1>3, <1>11 DEF TypesNet
<1> USE DEF clientVars, cacheVars
<1>16. Rounds'
  <2>1. Candidates' = Candidates /\ Considered' = Considered /\ Read' = Read
    BY <1>1, ConsideredStays DEF Read
  <2>2. \A m \in Nodes :
          /\ query'[m] # None => feaReply'[m] = None /\ re[m] = None
          /\ feaReply'[m] # None => re[m] = None
          /\ query'[m] # None \/ feaReply'[m] # None \/ re[m] # None <=> m \in Considered
    BY <1>1, <1>3, <1>11, <1>15 DEF IInv, Rounds
  <2>3. UNCHANGED <<pc, re, count, segment, segReply, target>>
    BY <1>1
  <2> QED BY <1>3, <2>1, <2>2, <2>3 DEF IInv, Rounds
<1>17. Requests'
  <2> SUFFICES ASSUME NEW m \in Nodes
               PROVE  /\ query'[m] # None => query'[m] = feature'
                      /\ feaReply'[m] # None => ReplyGood(m, feaReply[m])'
                      /\ re'[m] # None /\ pc' \in {"collect", "choose"} => ReplyGood(m, re[m])'
                      /\ re'[m] # None => re'[m].hit <= Len(feature')
    BY DEF Requests
  <2>1. /\ query[m] # None => query[m] = feature
        /\ feaReply[m] # None => ReplyGood(m, feaReply[m])
    BY DEF IInv, Requests
  <2>2. CASE m = n
    <3>1. ReplyGood(n, v)'
      BY <1>1, <1>11, <1>12, ReplyStays
    <3> QED BY <1>1, <1>12, <1>15, <2>2, <3>1, ReadStays
  <2>3. CASE m # n
    <3>1. feaReply'[m] = feaReply[m] /\ query'[m] = query[m]
      BY <1>15, <2>3
    <3>2. feaReply'[m] # None => ReplyGood(m, feaReply[m])'
      BY <1>1, <1>12, <2>1, <3>1, ReplyStays
    <3> QED BY <1>1, <1>12, <2>1, <3>1, <3>2, ReadStays
  <2> QED BY <2>2, <2>3
<1>18. Underway'
  BY <1>1 DEF IInv, Underway
<1>19. Promises'
  <2>1. \A m \in Nodes : Promised(m)' = Promised(m)
    BY <1>1, <1>12 DEF Promised, Travelling, Addressed
  <2> QED BY <1>1, <2>1 DEF IInv, Promises
<1> QED BY <1>14, <1>16, <1>17, <1>18, <1>19 DEF IInv

-----------------------------------------------------------------------------
(* A step of the client leaves the nodes alone.                            *)
LEMMA PromisesStay ==
  ASSUME Promises, UNCHANGED <<indexed, todo, segment, cache>>,
         \A n \in Nodes : Addressed(n) \subseteq Addressed(n)'
  PROVE  Promises'
<1>1. \A n \in Nodes : Promised(n) \subseteq Promised(n)'
  BY DEF Promised, Travelling
<1> QED BY <1>1 DEF Promises

(* A segment is taken up.                                                  *)
LEMMA NextSegmentSound ==
  ASSUME IInv, UNCHANGED build, NextSegment
  PROVE  IInv'
<1>1. /\ pc = "idle" /\ pc' = "route" /\ feature' \in Segments
      /\ UNCHANGED <<indexed, stored, todo, query, feaReply, segment, segReply, cache, known,
                     re, count, target, full>>
  BY DEF NextSegment, Goto, nodeVars, netVars, cacheVars
<1>2. target = NoNode /\ full = {} /\ re = [n \in Nodes |-> None]
  BY <1>1 DEF IInv, Phases
<1>3. \A n \in Nodes : /\ query[n] = None /\ feaReply[n] = None /\ re[n] = None
                       /\ segment[n] = None /\ ~segReply[n]
  BY <1>1, <1>2 DEF IInv, Rounds
<1>4. Types'
  BY <1>1 DEF IInv, Types, TypesNode, TypesNet, TypesClient, Places
<1>5. Phases'
  BY <1>1, <1>2 DEF Phases
<1>6. Rounds'
  BY <1>1, <1>3 DEF Rounds
<1>7. Requests'
  BY <1>1, <1>3 DEF Requests
<1>8. FullIsIndexed' /\ StaysHome' /\ FullMatchFound'
  BY <1>1 DEF FullIsIndexed, StaysHome, FullMatchFound
<1>9. Underway'
  BY <1>1, <1>3 DEF IInv, Underway
<1>10. Promises'
  <2>1. \A n \in Nodes : Addressed(n) = {}
    BY <1>1 DEF Addressed
  <2> QED BY <1>1, <2>1, PromisesStay DEF IInv
<1> QED BY <1>4, <1>5, <1>6, <1>7, <1>8, <1>9, <1>10 DEF IInv

(* The segment is on its way to the target.                                *)
LEMMA SendSegmentSound ==
  ASSUME IInv, UNCHANGED build, SendSegment
  PROVE  IInv'
<1> DEFINE s == IF build.route = "STATELESS" THEN <<>> ELSE feature
<1>1. /\ pc = "send" /\ pc' = "await" /\ segment' = [segment EXCEPT ![target] = s]
      /\ UNCHANGED <<indexed, stored, todo, query, feaReply, segReply, feature, cache, known,
                     re, count, target, full>>
  BY DEF SendSegment, Goto, nodeVars, cacheVars
<1>2. target \in Nodes /\ feature \in Segments /\ build \in Builds
  BY <1>1 DEF IInv, Phases, Types, TypesNode
<1>3. /\ s \in Queries /\ s # None /\ (build.ssdedup => s = feature)
  <2>1. build.ssdedup => build.route # "STATELESS"
    BY <1>2, BuildType
  <2> QED BY <1>2, <2>1, NoneAssumption DEF Queries
<1> HIDE DEF s
<1>4. \A n \in Nodes : /\ query[n] = None /\ feaReply[n] = None
                       /\ segment[n] = None /\ ~segReply[n]
  BY <1>1, <1>2 DEF IInv, Rounds
<1>5. \A n \in Nodes : segment'[n] = IF n = target THEN s ELSE None
  BY <1>1, <1>4 DEF IInv, Types, TypesNet
<1>6. Types'
  <2>1. segment' \in [Nodes -> Queries \cup {None}]
    BY <1>1, <1>3 DEF IInv, Types, TypesNet
  <2> QED BY <1>1, <2>1 DEF IInv, Types, TypesNode, TypesNet, TypesClient, Places
<1>7. Phases'
  BY <1>1, <1>2 DEF Phases
<1>8. Rounds'
  BY <1>1, <1>2, <1>3, <1>4, <1>5 DEF Rounds
<1>9. Requests'
  BY <1>1, <1>4 DEF IInv, Requests
<1>10. FullIsIndexed' /\ StaysHome' /\ FullMatchFound'
  BY <1>1 DEF IInv, FullIsIndexed, StaysHome, FullMatchFound
<1>11. Underway'
  BY <1>1, <1>3, <1>5 DEF IInv, Underway
<1>12. Promises'
  <2> SUFFICES ASSUME NEW n \in Nodes PROVE ToSet(cache[n]) \subseteq Promised(n)'
    BY <1>1 DEF Promises
  <2>1. ToSet(cache[n]) \subseteq Promised(n)
    BY DEF IInv, Promises
  <2>2. CASE build.ssdedup
    <3>1. Addressed(n) \subseteq Travelling(n)'
      BY <1>1, <1>3, <1>5, <2>2 DEF Addressed, Travelling
    <3>2. Travelling(n) = {}
      BY <1>4 DEF Travelling
    <3> QED BY <1>1, <2>1, <3>1, <3>2 DEF Promised
  <2>3. CASE ~build.ssdedup
    <3>1. ToSet(cache[n]) = {}
      BY <2>3 DEF IInv, Underway, ToSet
    <3> QED BY <3>1
  <2> QED BY <2>2, <2>3
<1> QED BY <1>6, <1>7, <1>8, <1>9, <1>10, <1>11, <1>12 DEF IInv

(* The target has answered.                                                *)
LEMMA TakeReplySound ==
  ASSUME IInv, UNCHANGED build, TakeReply
  PROVE  IInv'
<1>1. /\ pc = "await" /\ pc' = "idle" /\ segReply[target]
      /\ segReply' = [segReply EXCEPT ![target] = FALSE]
      /\ target' = NoNode /\ feature' = <<>> /\ full' = {} /\ re' = [n \in Nodes |-> None]
      /\ UNCHANGED <<indexed, stored, todo, query, feaReply, segment, cache, known, count>>
  BY DEF TakeReply, Goto, nodeVars, cacheVars
<1>2. target \in Nodes
  BY <1>1 DEF IInv, Phases
<1>3. \A n \in Nodes : query[n] = None /\ feaReply[n] = None
  BY <1>1 DEF IInv, Rounds
<1>4. \A n \in Nodes : segment[n] = None /\ ~segReply'[n]
  <2>1. segment[target] = None /\ ~segReply'[target]
    BY <1>1, <1>2 DEF IInv, Rounds, Types, TypesNet
  <2>2. \A n \in Nodes : n # target => segment[n] = None /\ ~segReply'[n]
    BY <1>1 DEF IInv, Rounds, Types, TypesNet
  <2> QED BY <2>1, <2>2
<1>5. Types'
  BY <1>1 DEF IInv, Types, TypesNode, TypesNet, TypesClient, Places
<1>6. Phases'
  BY <1>1 DEF Phases
<1>7. Rounds'
  BY <1>1, <1>3, <1>4 DEF Rounds
<1>8. Requests'
  BY <1>1, <1>3 DEF Requests
<1>9. FullIsIndexed' /\ StaysHome' /\ FullMatchFound'
  BY <1>1 DEF FullIsIndexed, StaysHome, FullMatchFound
<1>10. Underway'
  BY <1>1, <1>4 DEF IInv, Underway
<1>11. Promises'
  <2>1. \A n \in Nodes : Addressed(n) = {}
    BY <1>1 DEF Addressed
  <2> QED BY <1>1, <2>1, PromisesStay DEF IInv
<1> QED BY <1>5, <1>6, <1>7, <1>8, <1>9, <1>10, <1>11 DEF IInv

-----------------------------------------------------------------------------
(* Before a segment is sent there is nothing on its way.                   *)
LEMMA QuietBeforeSend ==
  ASSUME IInv, pc \in {"route", "choose", "collect"}
  PROVE  /\ build \in Builds /\ feature \in Segments /\ target = NoNode
         /\ \A n \in Nodes : segment[n] = None /\ ~segReply[n]
         /\ pc = "route" => full = {} /\ \A n \in Nodes : query[n] = None /\ feaReply[n] = None
                                                          /\ re[n] = None
BY DEF IInv, Types, TypesNode, Phases, Rounds

(* A target is chosen; its cache is the only one that changes, by features *)
(* that will be sent to it.                                                *)
LEMMA TargetChosen ==
  ASSUME IInv, UNCHANGED <<build, nodeVars, netVars, feature, re, count, full>>,
         pc \in {"route", "choose"}, pc' = "send",
         target' \in Nodes, cache' = Updated(target') \/ cache' = cache,
         known' \in [Nodes -> Nat],
         \A n \in Nodes : query[n] = None /\ feaReply[n] = None,
         StaysHome', FullMatchFound'
  PROVE  IInv'
<1> USE DEF nodeVars, netVars
<1>1. /\ build \in Builds /\ feature \in Segments
      /\ \A n \in Nodes : segment[n] = None /\ ~segReply[n]
  BY QuietBeforeSend
<1>2. PICK t \in Nodes : t = target'
  OBVIOUS
<1>3. /\ cache' \in [Nodes -> Seq(Features)]
      /\ \A n \in Nodes : Len(cache'[n]) <= LCACHE_SIZE
      /\ ~build.ssdedup => cache' = cache
      /\ \A n \in Nodes : ToSet(cache'[n]) \subseteq ToSet(cache[n]) \cup Addressed(n)'
  <2>1. CASE cache' = Updated(t)
    <3>1. TypesClient
      BY DEF IInv, Types
    <3>2. /\ Updated(t) \in [Nodes -> Seq(Features)]
          /\ \A n \in Nodes : Len(Updated(t)[n]) <= LCACHE_SIZE
          /\ ~build.ssdedup => Updated(t) = cache
          /\ \A n \in Nodes : n # t => Updated(t)[n] = cache[n]
          /\ ToSet(Updated(t)[t]) \subseteq ToSet(cache[t]) \cup ToSet(feature)
      BY <1>1, <3>1, UpdatedSound
    <3>3. Addressed(t)' = ToSet(feature)
      BY <1>2 DEF Addressed
    <3> QED BY <2>1, <3>2, <3>3
  <2>2. CASE cache' = cache
    BY <2>2 DEF IInv, Types, TypesClient
  <2> QED BY <1>2, <2>1, <2>2
<1>4. Types'
  BY <1>3 DEF IInv, Types, TypesNode, TypesNet, TypesClient, Places
<1>5. Phases'
  BY <1>1 DEF Phases
<1>6. Rounds'
  BY <1>1 DEF Rounds
<1>7. Requests'
  BY DEF IInv, Requests
<1>8. FullIsIndexed'
  BY DEF FullIsIndexed
<1>9. Underway'
  BY <1>1, <1>3 DEF IInv, Underway
<1>10. Promises'
  <2> SUFFICES ASSUME NEW n \in Nodes PROVE ToSet(cache'[n]) \subseteq Promised(n)'
    BY DEF Promises
  <2>1. ToSet(cache[n]) \subseteq indexed[n] \cup ToSet(todo[n])
    <3>1. pc # "send"
      OBVIOUS
    <3>2. Travelling(n) = {} /\ Addressed(n) = {}
      BY <1>1, <3>1 DEF Travelling, Addressed
    <3> QED BY <3>2 DEF IInv, Promises, Promised
  <2>2. indexed[n] \cup ToSet(todo[n]) \cup Addressed(n)' \subseteq Promised(n)'
    BY DEF Promised
  <2> QED BY <1>3, <2>1, <2>2
<1> QED BY <1>4, <1>5, <1>6, <1>7, <1>8, <1>9, <1>10 DEF IInv

(* Without asking: the cache predicts hits enough.                         *)
LEMMA UseLcacheSound ==
  ASSUME IInv, UNCHANGED build, UseLcache
  PROVE  IInv'
<1> DEFINE hits == [n \in Nodes |-> Hits(n)]
<1>1. /\ pc = "route" /\ pc' = "send" /\ build.ssdedup
      /\ UNCHANGED <<nodeVars, netVars, feature, re, count, full>>
  BY DEF UseLcache, Goto
<1>2. PICK t \in BestAmong(Candidates, hits, known, Len(feature)) :
        /\ target' = t
        /\ known' = [known EXCEPT ![t] = @ + Expected(Hits(t))]
        /\ cache' = Updated(t)
  BY DEF UseLcache
<1>3. /\ build \in Builds /\ feature \in Segments /\ full = {}
      /\ \A n \in Nodes : query[n] = None /\ feaReply[n] = None
  BY <1>1, QuietBeforeSend
<1>4. build.route = "BOAFFT" /\ Considered = Nodes
  BY <1>1, <1>3, BuildType, CandidatesSound
<1>5. \A n \in Nodes : Hits(n) \in 0 .. Len(feature)
  <2> TAKE n \in Nodes
  <2>1. cache[n] \in Seq(Features) /\ feature \in Seq(Features)
    BY <1>3, SegmentType DEF IInv, Types, TypesClient
  <2> QED BY <2>1, CacheHitsSound DEF Hits
<1>6. t \in Nodes
  <2>1. \A n \in Considered : hits[n] \in 0 .. Len(feature) /\ known[n] \in Nat
    BY <1>4, <1>5 DEF IInv, Types, TypesClient
  <2> HIDE DEF hits
  <2> QED BY <1>2, <1>3, <2>1, BestSound
<1>7. known' \in [Nodes -> Nat]
  <2>1. known \in [Nodes -> Nat] /\ Expected(Hits(t)) \in Nat
    BY <1>3, <1>5, <1>6, ExpectedIsNat DEF IInv, Types, TypesClient
  <2>2. known[t] + Expected(Hits(t)) \in Nat
    BY <1>6, <2>1
  <2> QED BY <1>2, <2>1, <2>2
<1>8. StaysHome' /\ FullMatchFound'
  BY <1>1, <1>3, <1>4 DEF StaysHome, FullMatchFound
<1>9. target' \in Nodes /\ cache' = Updated(target')
  BY <1>2, <1>6
<1> HIDE DEF hits
<1> QED BY <1>1, <1>3, <1>7, <1>8, <1>9, TargetChosen

(* Without asking: the first chunk decides.                                *)
LEMMA RouteStatelessSound ==
  ASSUME IInv, UNCHANGED build, RouteStateless
  PROVE  IInv'
<1>1. /\ pc = "route" /\ pc' = "send" /\ build.route = "STATELESS"
      /\ target' = HomeOf[Head(feature)]
      /\ UNCHANGED <<nodeVars, netVars, feature, re, count, full, cache, known>>
  BY DEF RouteStateless, FirstChunk, Goto, cacheVars
<1>2. /\ build \in Builds /\ feature \in Segments /\ full = {}
      /\ \A n \in Nodes : query[n] = None /\ feaReply[n] = None
  BY <1>1, QuietBeforeSend
<1>3. /\ feature \in Seq(Features) /\ 1 \in DOMAIN feature /\ Head(feature) = feature[1]
      /\ feature[1] \in Features
  BY <1>2, SegmentType
<1>4. target' \in Nodes
  BY <1>1, <1>3, Sizes
<1>5. StaysHome' /\ FullMatchFound'
  BY <1>1, <1>2, <1>3 DEF StaysHome, FullMatchFound
<1>6. known' \in [Nodes -> Nat]
  BY <1>1 DEF IInv, Types, TypesClient
<1> QED BY <1>1, <1>2, <1>4, <1>5, <1>6, TargetChosen

(* The replies decide.                                                     *)
LEMMA ChooseSound ==
  ASSUME IInv, UNCHANGED build, Choose
  PROVE  IInv'
<1> DEFINE hits == [n \in Considered |-> re[n].hit]
           loads == [n \in Considered |-> re[n].storage]
<1>1. /\ pc = "choose" /\ pc' = "send"
      /\ known' = IF build.ssdedup THEN [n \in Nodes |-> re[n].storage] ELSE known
      /\ UNCHANGED <<nodeVars, netVars, feature, re, count, full>>
  BY DEF Choose, Goto
<1>2. PICK t \in BestAmong(Candidates, hits, loads, Len(feature)) :
        target' = t /\ cache' = Updated(t)
  BY DEF Choose, Considered
<1>3. build \in Builds /\ feature \in Segments
  BY <1>1, QuietBeforeSend
<1>4. /\ Considered \subseteq Nodes
      /\ build.route = "BOAFFT" => Considered = Nodes
      /\ build.route # "BOAFFT" =>
           \A n \in Considered : \E i \in DOMAIN feature : HomeOf[feature[i]] = n
  BY <1>3, CandidatesSound
<1>5. \A n \in Nodes : query[n] = None /\ feaReply[n] = None
  <2>1. \A n \in Considered : re[n] # None
    BY <1>1 DEF IInv, Rounds
  <2> QED BY <1>1, <2>1 DEF IInv, Rounds
<1>6. \A n \in Considered :
        /\ re[n] \in Replies /\ re[n].hit \in 0 .. Len(feature) /\ re[n].storage \in Nat
        /\ re[n].hit = Len(feature) => ToSet(feature) \subseteq indexed[n]
        /\ n \in full => re[n].hit = Len(feature)
  <2> TAKE n \in Considered
  <2>1. n \in Nodes /\ re[n] # None
    BY <1>1, <1>4 DEF IInv, Rounds
  <2>2. re[n] \in Replies /\ ReplyGood(n, re[n])
    BY <1>1, <2>1 DEF IInv, Types, TypesClient, Requests
  <2>3. Len(feature) \in Nat
    BY <1>3, SegmentType
  <2> QED BY <2>2, <2>3 DEF Replies, ReplyGood
<1>7. /\ t \in Considered /\ t \in Nodes
      /\ (\E n \in Considered : re[n].hit = Len(feature)) => re[t].hit = Len(feature)
  <2>1. \A n \in Considered : /\ hits[n] = re[n].hit
                              /\ hits[n] \in 0 .. Len(feature) /\ loads[n] \in Nat
    BY <1>6
  <2> HIDE DEF hits, loads
  <2>2. /\ t \in Considered /\ t \in Nodes
        /\ (\E n \in Considered : hits[n] = Len(feature)) => hits[t] = Len(feature)
    BY <1>2, <1>3, <2>1, BestSound
  <2> QED BY <2>1, <2>2
<1> HIDE DEF hits, loads
<1>8. StaysHome'
  <2>1. build.route # "STATELESS"
    BY <1>1 DEF IInv, Phases
  <2> QED BY <1>1, <1>2, <1>4, <1>7, <2>1 DEF StaysHome
<1>9. FullMatchFound'
  <2> SUFFICES ASSUME full # {} PROVE ToSet(feature) \subseteq indexed[t]
    BY <1>1, <1>2 DEF FullMatchFound, nodeVars
  <2>1. full \subseteq Considered
    BY <1>1 DEF IInv, Phases
  <2>2. \E n \in Considered : re[n].hit = Len(feature)
    BY <1>6, <2>1
  <2> QED BY <1>6, <1>7, <2>2
<1>10. known' \in [Nodes -> Nat]
  <2>1. CASE build.ssdedup
    <3>1. Considered = Nodes
      BY <1>3, <1>4, <2>1, BuildType
    <3> QED BY <1>1, <1>6, <2>1, <3>1
  <2>2. CASE ~build.ssdedup
    BY <1>1, <2>2 DEF IInv, Types, TypesClient
  <2> QED BY <2>1, <2>2
<1>11. target' \in Nodes /\ cache' = Updated(target')
  BY <1>2, <1>7
<1> QED BY <1>1, <1>5, <1>8, <1>9, <1>10, <1>11, TargetChosen

-----------------------------------------------------------------------------
(* The features are sent to the candidates; nothing is read yet.           *)
LEMMA AskNodesSound ==
  ASSUME IInv, UNCHANGED build, AskNodes
  PROVE  IInv'
<1>1. /\ pc = "route" /\ pc' = "collect" /\ build.route # "STATELESS"
      /\ query' = [n \in Nodes |-> IF Contains(Candidates, n) THEN feature ELSE None]
      /\ count' = 0 /\ re' = [n \in Nodes |-> None]
      /\ full' = {n \in Considered : ToSet(feature) \subseteq indexed[n]}
      /\ UNCHANGED <<indexed, stored, todo, feaReply, segment, segReply, feature, cache, known,
                     target>>
  BY DEF AskNodes, Goto, CountFrom, nodeVars, cacheVars, Considered
<1>2. /\ build \in Builds /\ feature \in Segments /\ target = NoNode
      /\ \A n \in Nodes : /\ feaReply[n] = None /\ segment[n] = None /\ ~segReply[n]
  BY <1>1, QuietBeforeSend
<1>3. /\ Considered \subseteq Nodes /\ Candidates' = Candidates /\ Considered' = Considered
      /\ Candidates # <<>> /\ Candidates \in Seq(Nodes)
  BY <1>1, <1>2, CandidatesSound, ConsideredStays
<1>4. \A n \in Nodes : query'[n] = IF n \in Considered THEN feature ELSE None
  BY <1>1, <1>3, ContainsIsIn DEF Considered
<1>5. feature # None
  BY <1>2, NoneAssumption
<1>6. Types'
  <2>1. query' \in [Nodes -> Queries \cup {None}]
    BY <1>1, <1>2 DEF Queries
  <2>2. full' \subseteq Nodes
    BY <1>1, <1>3
  <2>3. TypesClient'
    BY <1>1, <2>2, Sizes DEF IInv, Types, TypesClient
  <2> QED BY <1>1, <2>1, <2>3 DEF IInv, Types, TypesNode, TypesNet, Places
<1>7. Phases'
  BY <1>1, <1>2, <1>3 DEF Phases
<1>8. Rounds'
  <2>1. Cardinality(Read') = 0
    <3>1. Read' = {}
      BY <1>1 DEF Read
    <3> QED BY <3>1, FS_EmptySet
  <2>2. 0 < Len(Candidates)
    BY <1>3
  <2>3. \A n \in Nodes : re'[n] = None
    BY <1>1
  <2> QED BY <1>1, <1>2, <1>3, <1>4, <1>5, <2>1, <2>2, <2>3 DEF Rounds
<1>9. Requests'
  BY <1>1, <1>2, <1>4 DEF Requests
<1>10. FullIsIndexed' /\ StaysHome' /\ FullMatchFound'
  BY <1>1 DEF FullIsIndexed, StaysHome, FullMatchFound
<1>11. Underway'
  BY <1>1 DEF IInv, Underway
<1>12. Promises'
  <2>1. \A n \in Nodes : Addressed(n) = {}
    BY <1>1 DEF Addressed
  <2> QED BY <1>1, <2>1, PromisesStay DEF IInv
<1> QED BY <1>6, <1>7, <1>8, <1>9, <1>10, <1>11, <1>12 DEF IInv

(* The replies that can be read are read.  All nodes have been heard when  *)
(* as many replies have come as nodes were asked.                          *)
LEMMA CollectSound ==
  ASSUME IInv, UNCHANGED build, Collect
  PROVE  IInv'
<1> DEFINE ready == {n \in Nodes : feaReply[n] # None}
<1>1. /\ pc = "collect" /\ count' = count + Cardinality(ready)
      /\ re' = [n \in Nodes |-> IF n \in ready THEN feaReply[n] ELSE re[n]]
      /\ feaReply' = [n \in Nodes |-> None]
      /\ pc' = IF count' < Len(Candidates) THEN "collect" ELSE "choose"
      /\ UNCHANGED <<indexed, stored, todo, query, segment, segReply, feature, cache, known,
                     target, full>>
  BY DEF Collect, Goto, Asked, nodeVars, cacheVars
<1>2. /\ build \in Builds /\ feature \in Segments /\ target = NoNode
      /\ \A n \in Nodes : segment[n] = None /\ ~segReply[n]
  BY <1>1, QuietBeforeSend
<1>3. /\ Considered \subseteq Nodes /\ Candidates' = Candidates /\ Considered' = Considered
      /\ Len(Candidates) = Cardinality(Considered) /\ IsFiniteSet(Considered)
  BY <1>1, <1>2, CandidatesSound, ConsideredStays
<1>4. \A n \in Nodes :
        /\ query[n] # None => feaReply[n] = None /\ re[n] = None /\ query[n] = feature
        /\ feaReply[n] # None => re[n] = None /\ ReplyGood(n, feaReply[n])
        /\ re[n] # None => ReplyGood(n, re[n])
        /\ query[n] # None \/ feaReply[n] # None \/ re[n] # None <=> n \in Considered
  BY <1>1 DEF IInv, Rounds, Requests
<1>5. \A n \in Nodes : re'[n] = IF feaReply[n] # None THEN feaReply[n] ELSE re[n]
  BY <1>1
<1>6. Read' = Read \cup ready /\ Read \cap ready = {}
  BY <1>4, <1>5 DEF Read
<1>7. /\ IsFiniteSet(Read) /\ IsFiniteSet(ready)
      /\ Read' \subseteq Considered /\ count = Cardinality(Read)
  <2>1. Read \subseteq Considered /\ ready \subseteq Considered
    BY <1>4 DEF Read
  <2>2. count = Cardinality(Read)
    BY <1>1 DEF IInv, Rounds
  <2> HIDE DEF ready
  <2> QED BY <1>3, <1>6, <2>1, <2>2, FS_Subset
<1>8. count' = Cardinality(Read') /\ Cardinality(Read') \in Nat
  <2> HIDE DEF ready
  <2>1. /\ IsFiniteSet(Read \cup ready)
        /\ Cardinality(Read \cup ready) = Cardinality(Read) + Cardinality(ready) - Cardinality(Read \cap ready)
    BY <1>7, FS_Union
  <2>2. Cardinality(Read \cap ready) = 0
    BY <1>6, FS_EmptySet
  <2>3. Cardinality(Read) \in Nat /\ Cardinality(ready) \in Nat /\ Cardinality(Read \cup ready) \in Nat
    BY <1>7, <2>1, FS_CardinalityType
  <2> QED BY <1>1, <1>6, <1>7, <2>1, <2>2, <2>3
<1>9. /\ Cardinality(Read') <= Cardinality(Considered)
      /\ Cardinality(Considered) = Cardinality(Read') => Considered = Read'
      /\ Cardinality(Considered) \in Nat /\ Cardinality(Considered) <= NodeNum /\ NodeNum \in Nat
  BY <1>3, <1>7, NodesFacts, Sizes, FS_Subset, FS_CardinalityType
<1>10. /\ pc' \in {"collect", "choose"}
       /\ pc' = "collect" => count' = Cardinality(Read') /\ count' < Len(Candidates)
       /\ pc' = "choose" => \A n \in Considered : re'[n] # None
  <2>1. ~(count' < Len(Candidates)) => Considered = Read'
    BY <1>3, <1>8, <1>9
  <2>2. Read' = {n \in Nodes : re'[n] # None}
    BY DEF Read
  <2> QED BY <1>1, <1>8, <2>1, <2>2
<1>11. Types'
  <2>1. re' \in [Nodes -> Replies \cup {None}]
    BY <1>1 DEF IInv, Types, TypesNet, TypesClient
  <2>2. count' \in 0 .. NodeNum
    BY <1>8, <1>9
  <2>3. TypesClient'
    BY <1>1, <2>1, <2>2 DEF IInv, Types, TypesClient
  <2>4. TypesNet'
    BY <1>1 DEF IInv, Types, TypesNet
  <2> QED BY <1>1, <1>10, <2>3, <2>4 DEF IInv, Types, TypesNode, Places
<1>12. Phases'
  BY <1>1, <1>2, <1>3, <1>10 DEF IInv, Phases
<1>13. \A n \in Nodes : feaReply'[n] = None
  BY <1>1
<1>14. Rounds'
  <2>1. \A n \in Nodes :
          /\ query[n] # None => re'[n] = None
          /\ query[n] # None \/ re'[n] # None <=> n \in Considered
    BY <1>4, <1>5
  <2> QED BY <1>1, <1>2, <1>3, <1>10, <1>13, <2>1 DEF Rounds
<1>15. Requests'
  <2> SUFFICES ASSUME NEW n \in Nodes, re'[n] # None PROVE ReplyGood(n, re[n])'
    BY <1>1, <1>4, <1>13 DEF Requests, ReplyGood
  <2>1. ReplyGood(n, re'[n])
    BY <1>4, <1>5
  <2> QED BY <1>1, <2>1 DEF ReplyGood
<1>16. FullIsIndexed'
  BY <1>1 DEF IInv, FullIsIndexed
<1>17. StaysHome' /\ FullMatchFound'
  BY <1>10 DEF StaysHome, FullMatchFound
<1>18. Underway'
  BY <1>1 DEF IInv, Underway
<1>19. Promises'
  <2>1. \A n \in Nodes : Addressed(n) = {}
    BY <1>1 DEF Addressed
  <2> QED BY <1>1, <2>1, PromisesStay DEF IInv
<1> QED BY <1>11, <1>12, <1>14, <1>15, <1>16, <1>17, <1>18, <1>19 DEF IInv

-----------------------------------------------------------------------------
(* Every step keeps the invariant.                                         *)
LEMMA StepSound == IInv /\ [Next]_vars => IInv'
<1> SUFFICES ASSUME IInv, [Next]_vars PROVE IInv'
  OBVIOUS
<1>1. CASE UNCHANGED vars
  <2>1. UNCHANGED <<build, netVars, clientVars>> /\ indexed' = indexed /\ todo' = todo
    BY <1>1 DEF vars, nodeVars, clientVars
  <2>2. Grows /\ TypesNode'
    BY <1>1 DEF IInv, Types, TypesNode, Grows, vars, nodeVars
  <2>3. \A n \in Nodes : indexed[n] \cup ToSet(todo[n]) \subseteq indexed'[n] \cup ToSet(todo'[n])
    BY <2>1
  <2> QED BY <2>1, <2>2, <2>3, GrowthSound
<1>2. CASE Next
  <2>1. UNCHANGED build /\ (Client \/ \E n \in Nodes : Handler(n) \/ Grow(n))
    BY <1>2 DEF Next
  <2>2. CASE Client
    BY <2>1, <2>2, NextSegmentSound, UseLcacheSound, RouteStatelessSound, AskNodesSound,
       CollectSound, ChooseSound, SendSegmentSound, TakeReplySound DEF Client
  <2>3. CASE \E n \in Nodes : Handler(n)
    BY <2>1, <2>3, AnswerQuerySound, AnswerSegmentSound, IndexFeatureSound DEF Handler
  <2>4. CASE \E n \in Nodes : Grow(n)
    BY <2>1, <2>4, GrowSound
  <2> QED BY <2>1, <2>2, <2>3, <2>4
<1> QED BY <1>1, <1>2

(* The inductive invariant of a client that asks the nodes.                *)
THEOREM Invariance == Spec => []IInv
BY InitSound, StepSound, PTL DEF Spec

-----------------------------------------------------------------------------
(* k_force_route and STATELESS: a segment stays among the nodes that its   *)
(* own features point to, whatever the loads say.                          *)
THEOREM SegmentStaysHome == Spec => []StaysHome
<1>1. IInv => StaysHome
  BY DEF IInv
<1> QED BY <1>1, Invariance, PTL

(* force_route: if a node that is asked has the whole segment, the segment *)
(* goes to a node that has it, though the nodes grow while they count and  *)
(* the replies come in any order.                                          *)
THEOREM SegmentFindsItsNode == Spec => []FullMatchFound
<1>1. IInv => FullMatchFound
  BY DEF IInv
<1> QED BY <1>1, Invariance, PTL

(* update_lcache runs before the segment is sent, and the node's handler    *)
(* replies before it indexes: still every cached feature is indexed by the *)
(* node, or will be.                                                       *)
THEOREM CacheNeverLies == Spec => []CacheTrue
<1>1. IInv => CacheTrue
  <2> SUFFICES ASSUME IInv, NEW n \in Nodes, NEW f \in ToSet(cache[n])
               PROVE  \/ f \in indexed[n]
                      \/ Contains(todo[n], f)
                      \/ segment[n] # None /\ Contains(segment[n], f)
                      \/ pc = "send" /\ target = n /\ Contains(feature, f)
    BY DEF CacheTrue
  <2>1. f \in Promised(n)
    BY DEF IInv, Promises
  <2>2. todo[n] \in Seq(Features)
    BY DEF IInv, Types, TypesNode
  <2>3. segment[n] # None => segment[n] \in Seq(Features)
    <3>1. segment[n] # None => segment[n] \in Queries
      BY DEF IInv, Types, TypesNet
    <3>2. <<>> \in Seq(Features)
      OBVIOUS
    <3> QED BY <3>1, <3>2, Sizes DEF Queries
  <2>4. pc = "send" => feature \in Seq(Features)
    BY SegmentType DEF IInv, Phases
  <2>5. CASE f \in indexed[n]
    BY <2>5
  <2>6. CASE f \in ToSet(todo[n])
    BY <2>2, <2>6, ContainsIsIn
  <2>7. CASE f \in Travelling(n)
    BY <2>3, <2>7, ContainsIsIn DEF Travelling
  <2>8. CASE f \in Addressed(n)
    BY <2>4, <2>8, ContainsIsIn DEF Addressed
  <2> QED BY <2>1, <2>5, <2>6, <2>7, <2>8 DEF Promised
<1> QED BY <1>1, Invariance, PTL

(* Types, and the round in order: when use_force chooses it has one reply  *)
(* of each node it asked and of no other, none is left for the next round, *)
(* and the client, which has no timeout, waits for nobody in vain.         *)
THEOREM EveryReplyIsRead == Spec => []Inv
<1>1. IInv => TypeOK
  <2> SUFFICES ASSUME IInv PROVE TypeOK
    OBVIOUS
  <2>1. Types /\ Phases
    BY DEF IInv
  <2>2. feature \in Segments \cup {<<>>} /\ target \in Nodes \cup {NoNode}
    BY <2>1 DEF Phases
  <2>3. \A n \in Nodes : query[n] \in Segments \cup {None}
    <3> TAKE n \in Nodes
    <3>1. CASE query[n] # None
      <4>1. query[n] = feature /\ pc \in {"collect", "choose"}
        BY <3>1 DEF IInv, Requests, Rounds, Types, Places
      <4> QED BY <2>1, <4>1 DEF Phases
    <3>2. CASE query[n] = None
      BY <3>2
    <3> QED BY <3>1, <3>2
  <2>4. \A n \in Nodes : re[n] = None \/ re[n].hit \in 0 .. Len(feature)
    <3> TAKE n \in Nodes
    <3>1. Len(feature) \in Nat
      <4>1. CASE feature = <<>>
        BY <4>1
      <4>2. CASE feature \in Segments
        BY <4>2, SegmentType
      <4> QED BY <2>2, <4>1, <4>2
    <3>2. re[n] # None => re[n] \in Replies /\ re[n].hit <= Len(feature)
      BY <2>1 DEF IInv, Requests, Types, TypesClient
    <3> QED BY <3>1, <3>2 DEF Replies
  <2>5. \A n \in Nodes : /\ segment[n] \in Segments \cup {<<>>, None}
                         /\ todo[n] \in Seq(Features)
                         /\ cache[n] \in Seq(Features) /\ Len(cache[n]) <= LCACHE_SIZE
    BY <2>1 DEF Types, TypesNode, TypesNet, TypesClient, Queries
  <2> QED BY <2>1, <2>2, <2>3, <2>4, <2>5
          DEF TypeOK, Types, TypesNode, TypesNet, TypesClient, Places
<1>2. IInv => RepliesMatch
  <2> SUFFICES ASSUME IInv PROVE RepliesMatch
    OBVIOUS
  <2>1. ASSUME pc = "collect" PROVE \E n \in Nodes : query[n] # None \/ feaReply[n] # None
    <3> SUFFICES ASSUME \A n \in Nodes : query[n] = None /\ feaReply[n] = None PROVE FALSE
      OBVIOUS
    <3>1. /\ Considered \subseteq Nodes /\ IsFiniteSet(Considered)
          /\ Len(Candidates) = Cardinality(Considered)
      BY <2>1, QuietBeforeSend, CandidatesSound
    <3>2. Considered \subseteq Read
      BY <2>1, <3>1 DEF IInv, Rounds, Read
    <3>3. IsFiniteSet(Read)
      <4>1. Read \in SUBSET Nodes
        BY DEF Read
      <4> QED BY <4>1, NodesFacts, FS_Subset
    <3>4. Cardinality(Considered) <= Cardinality(Read)
      BY <3>2, <3>3, FS_Subset
    <3>5. Cardinality(Read) < Cardinality(Considered)
      BY <2>1, <3>1 DEF IInv, Rounds
    <3>6. Cardinality(Read) \in Nat /\ Cardinality(Considered) \in Nat
      BY <3>1, <3>3, FS_CardinalityType
    <3> QED BY <3>4, <3>5, <3>6
  <2>2. ASSUME pc = "choose", NEW n \in Nodes PROVE re[n] # None <=> Contains(Candidates, n)
    <3>1. Contains(Candidates, n) <=> n \in Considered
      BY <2>2, QuietBeforeSend, CandidatesSound, ContainsIsIn DEF Considered
    <3>2. re[n] # None <=> n \in Considered
      BY <2>2 DEF IInv, Rounds
    <3> QED BY <3>1, <3>2
  <2>3. pc = "await" => segment[target] # None \/ segReply[target]
    BY DEF IInv, Rounds
  <2>4. pc \notin {"collect", "choose"} =>
          \A n \in Nodes : query[n] = None /\ feaReply[n] = None
    BY DEF IInv, Rounds
  <2> QED BY <2>1, <2>2, <2>3, <2>4 DEF RepliesMatch
<1>3. IInv => Inv
  BY <1>1, <1>2 DEF Inv
<1> QED BY <1>3, Invariance, PTL
=============================================================================
