----------------------------- MODULE Guidepost -----------------------------
(***************************************************************************)
(* How a client routes the segments of its stream (client/route.c with     *)
(* ROUTE_METHOD == GUIDEPOST, and remote_dedup).                           *)
(*                                                                         *)
(* For every node the client keeps a guidepost, GP_PART copies of slices   *)
(* of the node's feature index, and an estimate of what the node stores.   *)
(* A segment of which some guidepost knows more than HIT_THRES features is *)
(* routed at once (use_gp).  Otherwise every node is asked for the         *)
(* features its guidepost does not know, and a node with enough hits sends *)
(* a slice, which replaces one part of the guidepost (use_force).          *)
(*                                                                         *)
(* Three builds of it are modelled: the configured one ("plain"); SSDEDUP  *)
(* == ON ("ssdedup"), where the features sent to each node are cached and  *)
(* a cache that knows enough of a segment routes it before any guidepost   *)
(* is tried; and FEATURE_METHOD == SIGMA_FEATURE ("sigma"), where only the *)
(* nodes that the features themselves point to are considered.             *)
(*                                                                         *)
(* The client is one thread.  The nodes run beside it and serve others     *)
(* too: their indexes and what they store grow at any time.  A node's      *)
(* index is the one SliceIndex specifies and FeatureIndex implements.      *)
(***************************************************************************)
EXTENDS NodeChoice, FiniteSetsExt

CONSTANTS
  NodeNum,       \* NODE_NUM
  Features,      \* fingerprints used as features
  Builds,        \* the builds considered
  Segments,      \* per build: the feature lists of the client's segments
  HomeOf,        \* per feature: its last byte % NODE_NUM
  MaxSlices,     \* bound, per build: slices a node comes to have
  GP_SIZE,       \* features of a slice
  GP_PART,       \* slices of a guidepost
  HIT_THRES,     \* prediction threshold
  LC_HIT_THRES,  \* that of the cache
  LCACHE_SIZE,   \* features a node's cache holds
  FEATURE_NUM,   \* features of a segment, at most
  EXP_SEGMENT_SIZE, \* chunks expected in a segment
  MaxStored,     \* bound, per build: chunks a node comes to store
  MaxEstimate,   \* bound: the trace ends when the cache's load exceeds it
  AnyLoads,      \* what an uninitialised load may be
  None

ASSUME ConstantAssumption ==
  /\ NodeNum \in Nat \ {0}
  /\ Builds \subseteq {"plain", "ssdedup", "sigma"}
  /\ \A b \in Builds : \A s \in Segments[b] :
       s \in Seq(Features) /\ Len(s) \in 1 .. FEATURE_NUM
  /\ HomeOf \in [Features -> 0 .. NodeNum - 1]
  /\ FEATURE_NUM \in Nat \ {0} /\ EXP_SEGMENT_SIZE \in Nat
  /\ GP_SIZE \in Nat \ {0} /\ GP_PART \in Nat \ {0} /\ HIT_THRES \in Nat
  /\ LC_HIT_THRES \in Nat /\ LCACHE_SIZE \in Nat \ {0}
  /\ \A b \in Builds : MaxStored[b] \in Nat /\ MaxSlices[b] \in Nat
  /\ MaxEstimate \in Nat /\ AnyLoads \subseteq Nat

Nodes == 0 .. NodeNum - 1
Parts == 0 .. GP_PART - 1

(* The messages of a round, and what sets None apart from all of them.      *)
Queries == [hit : Nat, old : SUBSET Nat,
            fea : UNION {[asked -> Features] : asked \in SUBSET (1 .. FEATURE_NUM)}]
Replies == [hit : Nat, storage : Nat \cup {None}, slice : SUBSET Features]

ASSUME NoneAssumption == None \notin Nat /\ None \notin Queries /\ None \notin Replies

VARIABLES
  build,     \* how the client was compiled
  slices,    \* per node: its slices, sets of the features it has indexed
  stored,    \* per node: the number of chunks it stores (c_hash_table_size)
  query,     \* per node: feature message on its way or in process, or None
  feaReply,  \* per node: reply that can be read from fea_fd, or None
  segment,   \* per node: is a segment on its way or in process
  segReply,  \* per node: the storage in the reply on seg_fd, or None
  pc,        \* what the client does next
  feature,   \* the features of its segment
  gp,        \* gp[n].table: the features of each part
  hitPos,    \* gp[n].hit_pos: the part of each hit; its length is gp[n].hit
  storage,   \* the client's estimate of stored
  re,        \* use_force's re[]: the replies read; Unread before that
  count,     \* feature_request's count
  target,    \* the node the segment goes to
  cache,     \* lcache[n]: features, the one used last at the end
  known,     \* lcache[n].storage
  full,      \* history: nodes known or asked that had all features then
  sent       \* history: the features of the segments each node has answered

nodeVars == <<slices, stored>>
netVars == <<query, feaReply, segment, segReply>>
gpVars == <<gp, hitPos>>
roundVars == <<re, count>>
cacheVars == <<cache, known>>
histVars == <<full, sent>>
clientVars == <<pc, feature, gpVars, storage, roundVars, target, cacheVars, histVars>>
vars == <<build, nodeVars, netVars, clientVars>>

Unread == [hit |-> 0, storage |-> None, slice |-> {}]
Indexed(n) == UNION slices[n]

Init ==
  /\ build \in Builds
  /\ slices = [n \in Nodes |-> {}]
  /\ stored = [n \in Nodes |-> 0]
  /\ query = [n \in Nodes |-> None]
  /\ feaReply = [n \in Nodes |-> None]
  /\ segment = [n \in Nodes |-> FALSE]
  /\ segReply = [n \in Nodes |-> None]
  /\ pc = "idle"
  /\ feature = <<>>
  /\ gp = [n \in Nodes |-> [p \in Parts |-> {}]]
  /\ hitPos = [n \in Nodes |-> <<>>]
  /\ storage = [n \in Nodes |-> 0]
  /\ re = [n \in Nodes |-> Unread]
  /\ count = 0
  /\ target = NoNode
  /\ cache = [n \in Nodes |-> <<>>]
  /\ known = [n \in Nodes |-> 0]
  /\ full = {}
  /\ sent = [n \in Nodes |-> {}]

Goto(from, to) == pc = from /\ pc' = to

(* Each of these is one expression of the code; beside it, marked as a      *)
(* fault, is what a plausible mistake would make of it.                     *)

NotReset(old) == old                     \* fault: p->hit keeps its value
Reset(old) == <<>>                       \* p->hit = 0

MoreThanEnough(hit) == hit > HIT_THRES + 1   \* fault: off by one
Enough(hit) == hit > HIT_THRES

CountGoesOn == count                     \* fault: count is not reset
CountFrom == 0                           \* int count = 0

OneEvent(ready) == 1                     \* fault: a batch counts once
Events(ready) == Cardinality(ready)      \* count += nfds

Added(table, slice) == table \cup slice  \* fault: the old table is kept
Rebuilt(table, slice) == slice           \* destroyed, then filled again

KeepEstimate(n) == storage[n]            \* fault: the reply is not stored
FromReply(n) == segReply[n]              \* storage[id] = buf.storage

(* The nodes considered for the segment, in the order of dst_id.            *)
Candidates ==
  IF build = "sigma" THEN AddressedNodes([i \in DOMAIN feature |-> HomeOf[feature[i]]])
  ELSE [i \in 1 .. NodeNum |-> i - 1]

Considered == ToSet(Candidates)

(* EXP_SEGMENT_SIZE*(fea_num-hit)/FEATURE_NUM: the code computes it without  *)
(* a sign, which is the same as long as hit does not exceed fea_num.        *)
Expected(hit) == (EXP_SEGMENT_SIZE * (Len(feature) - hit)) \div FEATURE_NUM

(* What find_weighted_best may choose, by some loads of the nodes.          *)
Best(hit, loads) == BestAmong(Candidates, hit, loads, Len(feature))

(* The last step of gp_route with SSDEDUP: the target's cache learns the    *)
(* features before they are sent.                                           *)
SendTo(t) ==
  /\ target' = t
  /\ cache' = IF build # "ssdedup" THEN cache
              ELSE [cache EXCEPT ![t] = EnteredAll(@, feature, LCACHE_SIZE)]

-----------------------------------------------------------------------------
(* new_message_segment gives the next segment's features (at most FEATURE_NUM). *)
NextSegment ==
  /\ Goto("idle", "route")
  /\ \A n \in Nodes : known[n] <= MaxEstimate
  /\ feature' \in Segments[build]
  /\ UNCHANGED <<nodeVars, netVars, gpVars, storage, roundVars, target, cacheVars, histVars>>

(* use_lcache: the segment is routed by the caches' hits and loads alone.    *)
CacheHit(n) == CacheHits(cache[n], feature)
CacheKnows == build = "ssdedup" /\ \E n \in Nodes : CacheHit(n) > LC_HIT_THRES

UseLcache ==
  /\ Goto("route", "send")
  /\ CacheKnows
  /\ \E t \in Best([n \in Nodes |-> CacheHit(n)], known) :
       /\ SendTo(t)
       /\ known' = [known EXCEPT ![t] = @ + Expected(CacheHit(t))]
  /\ full' = {n \in Nodes : CacheHit(n) = Len(feature)}
  /\ UNCHANGED <<nodeVars, netVars, feature, gpVars, storage, roundVars, sent>>

(* match_in_gp: the first part that has a feature counts the hit.           *)
HitPart(n, f) ==
  LET has == {p \in Parts : f \in gp[n][p]}
  IN  IF has = {} THEN None ELSE Min(has)

HitParts(n) == Without([i \in DOMAIN feature |-> HitPart(n, feature[i])], None)

(* The loads use_gp compares.  use_k_gp's loop that copies them never runs   *)
(* (route.c:530), so that they are whatever the stack holds.                *)
LoadsOfUseGp == IF build = "sigma" THEN [Nodes -> AnyLoads] ELSE {storage}

(* use_gp: match the features in every guidepost, route if one hits enough. *)
UseGp ==
  /\ pc = "route" /\ ~CacheKnows
  /\ hitPos' = [n \in Nodes |-> IF n \in Considered THEN Reset(hitPos[n]) \o HitParts(n)
                                ELSE hitPos[n]]
  /\ LET hit == [n \in Nodes |-> Len(hitPos'[n])]
     IN  IF \E n \in Considered : Enough(hit[n])
           THEN /\ \E loads \in LoadsOfUseGp : \E t \in Best(hit, loads) :
                     /\ SendTo(t)
                     /\ storage' = [storage EXCEPT ![t] = @ + Expected(hit[t])]
                /\ full' = {n \in Considered : hit[n] = Len(feature)}
                /\ Goto("route", "send")
           ELSE /\ Goto("route", "ask")
                /\ UNCHANGED <<storage, target, cache, full>>
  /\ UNCHANGED <<nodeVars, netVars, feature, gp, roundVars, known, sent>>

AskAll(n) == DOMAIN feature              \* fault: hit_map is ignored

(* The features whose hit_map is 0: no part of the guidepost has them.      *)
AskFor(n) == {i \in DOMAIN feature : HitPart(n, feature[i]) = None}

(* feature_request sends each node its features that did not hit, and the   *)
(* number of those that did.  re is an array on use_force's stack.  old is  *)
(* history: the features asked for that the node had indexed before.        *)
AskNodes ==
  /\ Goto("ask", "collect")
  /\ query' = [n \in Nodes |->
       IF n \notin Considered THEN None
       ELSE [hit |-> Len(hitPos[n]),
             fea |-> [i \in AskFor(n) |-> feature[i]],
             old |-> {i \in AskFor(n) : feature[i] \in Indexed(n)}]]
  /\ count' = CountFrom
  /\ re' = [n \in Nodes |-> Unread]
  /\ full' = {n \in Considered : ToSet(feature) \subseteq Indexed(n)}
  /\ UNCHANGED <<nodeVars, feaReply, segment, segReply, feature, gpVars, storage,
                 target, cacheVars, sent>>

(* The three connections of a node are registered with epoll under the same *)
(* number, so an event on any of them makes the client read from fea_fd.    *)
ReadyFds ==
  {<<n, "fea">> : n \in {m \in Nodes : feaReply[m] # None}} \cup
  {<<n, "seg">> : n \in {m \in Nodes : segReply[m] # None}}

(* epoll_wait, and for each event the blocking reads of one reply.          *)
Collect ==
  /\ pc = "collect"
  /\ ReadyFds # {}
  /\ \A fd \in ReadyFds : feaReply[fd[1]] # None
  /\ re' = [n \in Nodes |-> IF feaReply[n] # None THEN feaReply[n] ELSE re[n]]
  /\ feaReply' = [n \in Nodes |-> None]
  /\ count' = count + Events(ReadyFds)
  /\ Goto("collect", IF count' < Len(Candidates) THEN "collect" ELSE "update")
  /\ UNCHANGED <<nodeVars, query, segment, segReply, feature, gpVars, storage,
                 target, cacheVars, histVars>>

(* The parts of n with the fewest hits, and where its hits on one are.      *)
HitsOn(n, p) == {i \in DOMAIN hitPos[n] : hitPos[n][i] = p}
Fewest(n) ==
  {p \in Parts : \A q \in Parts : Cardinality(HitsOn(n, p)) <= Cardinality(HitsOn(n, q))}

FirstFewest(n) == Min(Fewest(n))         \* fault: the second loop is missing

(* lru_id: among the parts with the fewest hits, the last one if they have  *)
(* none, else the one that was hit last.                                    *)
LruId(n) ==
  CHOOSE p \in Fewest(n) : \A q \in Fewest(n) \ {p} :
    IF HitsOn(n, p) = {} THEN p > q ELSE Min(HitsOn(n, p)) > Min(HitsOn(n, q))

(* update_gp, and the rest of use_force.                                    *)
UseForce ==
  /\ Goto("update", "send")
  /\ gp' = [n \in Nodes |->
              IF re[n].hit > HIT_THRES
                THEN [gp[n] EXCEPT ![LruId(n)] = Rebuilt(@, re[n].slice)]
                ELSE gp[n]]
  /\ LET reported == [n \in Nodes |-> IF n \in Considered THEN re[n].storage ELSE storage[n]]
     IN  /\ \E t \in Best([n \in Nodes |-> re[n].hit], reported) :
              /\ SendTo(t)
              /\ storage' = [reported EXCEPT ![t] = @ + Expected(re[t].hit)]
         /\ known' = IF build = "ssdedup" THEN reported ELSE known
  /\ re' = [n \in Nodes |-> Unread]
  /\ UNCHANGED <<nodeVars, netVars, feature, hitPos, count, histVars>>

(* remote_dedup: send the segment, wait for the reply, take its storage.    *)
SendSegment ==
  /\ Goto("send", "await")
  /\ segment' = [segment EXCEPT ![target] = TRUE]
  /\ UNCHANGED <<nodeVars, query, feaReply, segReply, feature, gpVars, storage,
                 roundVars, target, cacheVars, histVars>>

TakeReply ==
  /\ Goto("await", "idle")
  /\ segReply[target] # None
  /\ storage' = [storage EXCEPT ![target] = FromReply(target)]
  /\ segReply' = [segReply EXCEPT ![target] = None]
  /\ target' = NoNode
  /\ feature' = <<>>
  /\ full' = {}
  /\ sent' = IF build # "ssdedup" THEN sent
             ELSE [sent EXCEPT ![target] = @ \cup ToSet(feature)]
  /\ UNCHANGED <<nodeVars, query, feaReply, segment, gpVars, roundVars, cacheVars>>

-----------------------------------------------------------------------------
(* A node indexes a feature of somebody's segment ...                       *)
IndexFeature(n, f) ==
  /\ f \notin Indexed(n)
  /\ \/ \E k \in slices[n] :
          /\ Cardinality(k) < GP_SIZE
          /\ slices' = [slices EXCEPT ![n] = (@ \ {k}) \cup {k \cup {f}}]
     \/ /\ Cardinality(slices[n]) < MaxSlices[build]
        /\ slices' = [slices EXCEPT ![n] = @ \cup {{f}}]
  /\ UNCHANGED <<stored, netVars, clientVars>>

(* ... and stores chunks of one.                                            *)
StoreChunk(n) ==
  /\ stored[n] < MaxStored[build]
  /\ stored' = [stored EXCEPT ![n] = @ + 1]
  /\ UNCHANGED <<slices, netVars, clientVars>>

(* feature_process.  Its lookups take a while, so that of the features that  *)
(* were indexed since it was asked it may find some and miss others; the    *)
(* slice it sends is the one it found most features in, and may have got    *)
(* more features meanwhile.                                                 *)
BestSlice(n, found, k) ==
  LET in(j) == {i \in DOMAIN found : found[i] \in j}
  IN  \A j \in slices[n] : Cardinality(in(j)) <= Cardinality(in(k))

AnswerQuery(n) ==
  /\ query[n] # None
  /\ LET asked == query[n].fea
         indexed == {i \in DOMAIN asked : asked[i] \in Indexed(n)}
     IN  \E at \in {query[n].old \cup late : late \in SUBSET (indexed \ query[n].old)} :
           LET found == [i \in at |-> asked[i]]
               hit == query[n].hit + Cardinality(at)
           IN  IF hit > HIT_THRES
                 THEN \E k \in slices[n] : \E copied \in SUBSET k :
                        /\ BestSlice(n, found, k)
                        /\ Range(found) \cap k \subseteq copied
                        /\ feaReply' = [feaReply EXCEPT ![n] =
                             [hit |-> hit, storage |-> stored[n], slice |-> copied]]
                 ELSE feaReply' = [feaReply EXCEPT ![n] =
                             [hit |-> hit, storage |-> stored[n], slice |-> {}]]
  /\ query' = [query EXCEPT ![n] = None]
  /\ UNCHANGED <<nodeVars, segment, segReply, clientVars>>

(* dedup_process.                                                           *)
AnswerSegment(n) ==
  /\ segment[n]
  /\ \E new \in 0 .. MaxStored[build] - stored[n] :
       /\ stored' = [stored EXCEPT ![n] = @ + new]
       /\ segReply' = [segReply EXCEPT ![n] = stored'[n]]
  /\ segment' = [segment EXCEPT ![n] = FALSE]
  /\ UNCHANGED <<slices, query, feaReply, clientVars>>

-----------------------------------------------------------------------------
Client == NextSegment \/ UseLcache \/ UseGp \/ AskNodes \/ Collect \/ UseForce
          \/ SendSegment \/ TakeReply

Answer(n) == AnswerQuery(n) \/ AnswerSegment(n)
Grow(n) == StoreChunk(n) \/ \E f \in Features : IndexFeature(n, f)

Next ==
  /\ Client \/ \E n \in Nodes : Answer(n) \/ Grow(n)
  /\ UNCHANGED build

Spec == Init /\ [][Next]_vars

-----------------------------------------------------------------------------
(* The type of every variable.                                              *)
TypeOK ==
  /\ build \in Builds
  /\ slices \in [Nodes -> SUBSET SUBSET Features]
  /\ stored \in [Nodes -> 0 .. MaxStored[build]]
  /\ segment \in [Nodes -> BOOLEAN]
  /\ segReply \in [Nodes -> Nat \cup {None}]
  /\ pc \in {"idle", "route", "ask", "collect", "update", "send", "await"}
  /\ feature \in Segments[build] \cup {<<>>}
  /\ gp \in [Nodes -> [Parts -> SUBSET Features]]
  /\ \A n \in Nodes : /\ hitPos[n] \in Seq(Parts)
                      /\ Len(hitPos[n]) <= FEATURE_NUM
                      /\ cache[n] \in Seq(Features) /\ Len(cache[n]) <= LCACHE_SIZE
  /\ storage \in [Nodes -> Nat] /\ known \in [Nodes -> Nat]
  /\ count \in 0 .. NodeNum
  /\ target \in Nodes \cup {NoNode}
  /\ \A n \in Nodes : feaReply[n] # None =>
       /\ feaReply[n].hit \in Nat /\ feaReply[n].storage \in Nat
       /\ feaReply[n].slice \subseteq Features

(* A guidepost never lies, however old it is: the features of each part are *)
(* indexed by the node, all in one slice, so that a hit in the guidepost is *)
(* a hit on the node.                                                       *)
GuidepostTrue ==
  \A n \in Nodes, p \in Parts : gp[n][p] # {} =>
    \E k \in slices[n] : gp[n][p] \subseteq k

(* A query promises no more hits than HIT_THRES: feature_process copies from *)
(* a container it found itself once the sum is higher (feature.c:197), and   *)
(* there would be none if the promise alone were.                           *)
PromisesKept == \A n \in Nodes : query[n] # None => query[n].hit <= HIT_THRES

(* The hits a node reports, its own and the promised ones, never exceed the *)
(* features of the segment: the difference is computed without a sign       *)
(* (route.c:259, 383) and would otherwise become a huge load.               *)
HitsBounded ==
  \A n \in Nodes :
    /\ pc \in {"ask", "collect", "update"} /\ n \in Considered =>
         Len(hitPos[n]) <= Len(feature)
    /\ feaReply[n] # None => feaReply[n].hit <= Len(feature)
    /\ re[n].hit <= Len(feature)

(* The numbers a routing decision is made of: types, promises and hits.    *)
Inv == TypeOK /\ PromisesKept /\ HitsBounded

(* When the replies are used every one of them has been read, and none is    *)
(* left over that the next round could take for its own, although the       *)
(* events do not tell a node's connections apart and only their number      *)
(* is counted (route.c:285-297).  The client waits without a timeout, and   *)
(* only while a node it has asked still owes it the reply.                  *)
RepliesMatch ==
  /\ pc = "collect" => \E n \in Nodes : query[n] # None \/ feaReply[n] # None
  /\ pc = "await" => segment[target] \/ segReply[target] # None
  /\ pc = "update" => \A n \in Nodes : re[n].storage # None <=> n \in Considered
  /\ pc \notin {"collect", "update"} =>
       \A n \in Nodes : query[n] = None /\ feaReply[n] = None

(* What the client believes of a node's load is a guess only while a segment *)
(* is on its way: between segments it is a number the node had reached.     *)
EstimateLags ==
  \A n \in Nodes : pc = "idle" \/ n # target => storage[n] <= stored[n]

(* lru_id prefers the last part without hits, and use_force runs only when  *)
(* there are at most HIT_THRES hits: the other parts are never filled, and  *)
(* a guidepost holds HIT_THRES + 1 slices however large GP_PART is.         *)
FewPartsUsed ==
  \A n \in Nodes, p \in Parts : gp[n][p] # {} => p + HIT_THRES + 1 >= GP_PART

(* If a node is known to have the whole segment, or has it when it is asked, *)
(* the segment goes to a node that has it: however old the guideposts, the   *)
(* caches and the estimates are (route.c:142), in whatever order the nodes   *)
(* answer and grow, and although use_k_gp compares loads it never set        *)
(* (route.c:530).                                                           *)
FullMatchFound ==
  pc \in {"send", "await"} /\ full # {} =>
    ToSet(feature) \subseteq Indexed(target) \cup sent[target]
=============================================================================
