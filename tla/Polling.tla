------------------------------ MODULE Polling ------------------------------
(***************************************************************************)
(* How a client routes without guideposts (client/route.c), the methods    *)
(* GPRoute is compared with:                                               *)
(*   BOAFFT  all nodes are asked; with SSDEDUP == ON only when the cache   *)
(*           of the features sent to each node knows too little            *)
(*           (use_lcache), which also keeps its own loads of the nodes;    *)
(*   SIGMA   only the nodes that the features themselves point to;         *)
(*   STATELESS  no node is asked: the segment's first chunk points to one, *)
(*           and the segment is sent without features (FIRST_FEATURE sets  *)
(*           fea_num to 0), so that the node indexes none.                 *)
(* The server is built with ROUTE_METHOD BOAFFT, and fea_table is a set of *)
(* features (server/feature.c, the last part).                             *)
(*                                                                         *)
(* As in Guidepost the client is one thread.  Other clients make the nodes *)
(* grow at any time.                                                       *)
(***************************************************************************)
EXTENDS NodeChoice

CONSTANTS
  NodeNum,          \* NODE_NUM
  Features,         \* fingerprints used as features
  Segments,         \* the feature lists of the client's segments
  HomeOf,           \* per feature: its last byte (STATELESS: first) % NODE_NUM
  Builds,           \* the configurations: ROUTE_METHOD and SSDEDUP
  LC_HIT_THRES,     \* the cache's prediction threshold
  LCACHE_SIZE,      \* features a node's cache holds
  FEATURE_NUM,      \* features of a segment, at most
  EXP_SEGMENT_SIZE, \* chunks expected in a segment
  MaxStored,        \* bound: chunks a node comes to store
  MaxEstimate,      \* bound: the trace ends when an estimate exceeds it
  None

Nodes == 0 .. NodeNum - 1

ASSUME ConstantAssumption ==
  /\ NodeNum \in Nat \ {0}
  /\ Segments \subseteq Seq(Features)
  /\ FEATURE_NUM \in Nat \ {0}
  /\ \A s \in Segments : Len(s) \in 1 .. FEATURE_NUM
  /\ HomeOf \in [Features -> Nodes]
  /\ Builds \subseteq [route : {"BOAFFT", "SIGMA", "STATELESS"}, ssdedup : BOOLEAN]
  /\ \A b \in Builds : b.ssdedup => b.route = "BOAFFT"
  /\ LC_HIT_THRES \in Nat /\ LCACHE_SIZE \in Nat \ {0}
  /\ EXP_SEGMENT_SIZE \in Nat /\ MaxStored \in Nat /\ MaxEstimate \in Nat

(* The reply to a query, and what sets None apart from all messages.        *)
Replies == [hit : Nat, storage : Nat]

ASSUME NoneAssumption == None \notin Segments \cup {<<>>} /\ None \notin Replies

VARIABLES
  build,     \* how the programs were compiled
  indexed,   \* per node: the features in fea_table
  stored,    \* per node: the number of chunks it stores
  query,     \* per node: the features asked for, or None
  feaReply,  \* per node: reply that can be read from fea_fd, or None
  segment,   \* per node: features of a segment on its way, or None
  todo,      \* per node: features of a segment that are not yet indexed
  segReply,  \* per node: can a reply be read from seg_fd
  pc,        \* what the client does next
  feature,   \* the features of its segment
  cache,     \* lcache[n]: features, the one used last at the end
  known,     \* lcache[n].storage
  re,        \* use_force's re[]: the replies read; None before that
  count,     \* feature_request's count
  target,    \* the node the segment goes to
  full       \* history: nodes that had all features when they were asked

nodeVars == <<indexed, stored, todo>>
netVars == <<query, feaReply, segment, segReply>>
cacheVars == <<cache, known>>
vars == <<build, nodeVars, netVars, pc, feature, cacheVars, re, count, target, full>>

Init ==
  /\ build \in Builds
  /\ indexed = [n \in Nodes |-> {}]
  /\ stored = [n \in Nodes |-> 0]
  /\ query = [n \in Nodes |-> None]
  /\ feaReply = [n \in Nodes |-> None]
  /\ segment = [n \in Nodes |-> None]
  /\ todo = [n \in Nodes |-> <<>>]
  /\ segReply = [n \in Nodes |-> FALSE]
  /\ pc = "idle"
  /\ feature = <<>>
  /\ cache = [n \in Nodes |-> <<>>]
  /\ known = [n \in Nodes |-> 0]
  /\ re = [n \in Nodes |-> None]
  /\ count = 0
  /\ target = NoNode
  /\ full = {}

Goto(from, to) == pc = from /\ pc' = to

-----------------------------------------------------------------------------
CountGoesOn == count                     \* fault: count is not reset
CountFrom == 0                           \* int count = 0

WholeCluster(dst) == NodeNum             \* fault: not all of these were asked
Asked(dst) == Len(dst)                   \* count < addr_num

LastChunk == feature[Len(feature)]       \* fault: not the first one
FirstChunk == Head(feature)              \* feature->fea[0]

AnyNode(n, t) == TRUE                    \* fault: one cache for all nodes
TheTarget(n, t) == n = t                 \* update_lcache(target, feature)

(* The nodes that are asked, in the order of dst_id: all of them, or those   *)
(* the features point to (k_force_route).                                   *)
Candidates ==
  IF build.route = "BOAFFT" THEN [i \in 1 .. NodeNum |-> i - 1]
  ELSE AddressedNodes([i \in DOMAIN feature |-> HomeOf[feature[i]]])

Hits(n) == CacheHits(cache[n], feature)

Expected(hit) == (EXP_SEGMENT_SIZE * (Len(feature) - hit)) \div FEATURE_NUM

Updated(t) ==
  IF ~build.ssdedup THEN cache
  ELSE [n \in Nodes |-> IF TheTarget(n, t) THEN EnteredAll(cache[n], feature, LCACHE_SIZE)
                        ELSE cache[n]]

-----------------------------------------------------------------------------
NextSegment ==
  /\ Goto("idle", "route")
  /\ \A n \in Nodes : known[n] <= MaxEstimate
  /\ feature' \in Segments
  /\ UNCHANGED <<nodeVars, netVars, cacheVars, re, count, target, full>>

(* use_lcache finds enough hits: the segment is routed without asking, by    *)
(* the cache's hits and the cache's loads.                                  *)
UseLcache ==
  /\ Goto("route", "send")
  /\ build.ssdedup
  /\ \E n \in Nodes : Hits(n) > LC_HIT_THRES
  /\ \E t \in BestAmong(Candidates, [n \in Nodes |-> Hits(n)], known, Len(feature)) :
       /\ target' = t
       /\ known' = [known EXCEPT ![t] = @ + Expected(Hits(t))]
       /\ cache' = Updated(t)
  /\ UNCHANGED <<nodeVars, netVars, feature, re, count, full>>

(* route with STATELESS.                                                    *)
RouteStateless ==
  /\ Goto("route", "send")
  /\ build.route = "STATELESS"
  /\ target' = HomeOf[FirstChunk]
  /\ UNCHANGED <<nodeVars, netVars, feature, cacheVars, re, count, full>>

(* use_force sends the features to every candidate.                         *)
AskNodes ==
  /\ Goto("route", "collect")
  /\ build.route # "STATELESS"
  /\ build.ssdedup => \A n \in Nodes : Hits(n) <= LC_HIT_THRES
  /\ query' = [n \in Nodes |-> IF Contains(Candidates, n) THEN feature ELSE None]
  /\ count' = CountFrom
  /\ re' = [n \in Nodes |-> None]
  /\ full' = {n \in ToSet(Candidates) : ToSet(feature) \subseteq indexed[n]}
  /\ UNCHANGED <<nodeVars, feaReply, segment, segReply, feature, cacheVars, target>>

(* epoll_wait, and the reads of the replies; the connections of a node share *)
(* an index, as in Guidepost, but only fea_fd has anything to read here.    *)
Collect ==
  /\ pc = "collect"
  /\ LET ready == {n \in Nodes : feaReply[n] # None}
     IN  /\ ready # {}
         /\ re' = [n \in Nodes |-> IF n \in ready THEN feaReply[n] ELSE re[n]]
         /\ count' = count + Cardinality(ready)
  /\ feaReply' = [n \in Nodes |-> None]
  /\ Goto("collect", IF count' < Asked(Candidates) THEN "collect" ELSE "choose")
  /\ UNCHANGED <<nodeVars, query, segment, segReply, feature, cacheVars, target, full>>

(* The rest of use_force; with SSDEDUP the cache learns every node's load.   *)
Choose ==
  /\ Goto("choose", "send")
  /\ LET asked == ToSet(Candidates)
     IN  \E t \in BestAmong(Candidates, [n \in asked |-> re[n].hit],
                                       [n \in asked |-> re[n].storage], Len(feature)) :
           /\ target' = t
           /\ cache' = Updated(t)
  /\ known' = IF build.ssdedup THEN [n \in Nodes |-> re[n].storage] ELSE known
  /\ UNCHANGED <<nodeVars, netVars, feature, re, count, full>>

(* remote_dedup: the segment travels with its features.                     *)
SendSegment ==
  /\ Goto("send", "await")
  /\ segment' = [segment EXCEPT ![target] = IF build.route = "STATELESS" THEN <<>> ELSE feature]
  /\ UNCHANGED <<nodeVars, query, feaReply, segReply, feature, cacheVars, re,
                 count, target, full>>

TakeReply ==
  /\ Goto("await", "idle")
  /\ segReply[target]
  /\ segReply' = [segReply EXCEPT ![target] = FALSE]
  /\ target' = NoNode
  /\ feature' = <<>>
  /\ re' = [n \in Nodes |-> None]
  /\ full' = {}
  /\ UNCHANGED <<nodeVars, query, feaReply, segment, cacheVars, count>>

-----------------------------------------------------------------------------
(* fp_hit_times looks the features up one after the other while others are  *)
(* entered, each by one step of the set: what it counts is the number that   *)
(* was there at some moment between its first lookup and its last.          *)
AnswerQuery(n) ==
  /\ query[n] # None
  /\ feaReply' = [feaReply EXCEPT ![n] =
       [hit |-> Cardinality({i \in DOMAIN query[n] : query[n][i] \in indexed[n]}),
        storage |-> stored[n]]]
  /\ query' = [query EXCEPT ![n] = None]
  /\ UNCHANGED <<nodeVars, segment, segReply, pc, feature, cacheVars, re,
                 count, target, full>>

(* The handler of seg_fd replies, and then enters the features; it takes no  *)
(* other segment before it has finished.                                    *)
AnswerSegment(n) ==
  /\ segment[n] # None
  /\ todo[n] = <<>>
  /\ stored' = [stored EXCEPT ![n] = IF @ < MaxStored THEN @ + 1 ELSE @]
  /\ todo' = [todo EXCEPT ![n] = segment[n]]
  /\ segReply' = [segReply EXCEPT ![n] = TRUE]
  /\ segment' = [segment EXCEPT ![n] = None]
  /\ UNCHANGED <<indexed, query, feaReply, pc, feature, cacheVars, re, count,
                 target, full>>

IndexFeature(n) ==
  /\ todo[n] # <<>>
  /\ indexed' = [indexed EXCEPT ![n] = @ \cup {Head(todo[n])}]
  /\ todo' = [todo EXCEPT ![n] = Tail(@)]
  /\ UNCHANGED <<stored, netVars, pc, feature, cacheVars, re, count, target, full>>

(* Another client's segment.                                                *)
Grow(n) ==
  /\ \/ \E f \in Features \ indexed[n] :
          indexed' = [indexed EXCEPT ![n] = @ \cup {f}] /\ UNCHANGED stored
     \/ stored[n] < MaxStored /\ stored' = [stored EXCEPT ![n] = @ + 1]
          /\ UNCHANGED indexed
  /\ UNCHANGED <<todo, netVars, pc, feature, cacheVars, re, count, target, full>>

Client == NextSegment \/ UseLcache \/ RouteStateless \/ AskNodes \/ Collect \/ Choose
          \/ SendSegment \/ TakeReply

Handler(n) == AnswerQuery(n) \/ AnswerSegment(n) \/ IndexFeature(n)

Next ==
  /\ Client \/ \E n \in Nodes : Handler(n) \/ Grow(n)
  /\ UNCHANGED build

Spec == Init /\ [][Next]_vars

-----------------------------------------------------------------------------
(* The type of every variable.                                              *)
TypeOK ==
  /\ build \in Builds
  /\ indexed \in [Nodes -> SUBSET Features]
  /\ stored \in [Nodes -> 0 .. MaxStored]
  /\ pc \in {"idle", "route", "collect", "choose", "send", "await"}
  /\ feature \in Segments \cup {<<>>}
  /\ \A n \in Nodes : /\ query[n] \in Segments \cup {None}
                      /\ segment[n] \in Segments \cup {<<>>, None}
                      /\ todo[n] \in Seq(Features)
                      /\ cache[n] \in Seq(Features) /\ Len(cache[n]) <= LCACHE_SIZE
                      /\ re[n] = None \/ re[n].hit \in 0 .. Len(feature)
  /\ segReply \in [Nodes -> BOOLEAN]
  /\ known \in [Nodes -> Nat]
  /\ count \in 0 .. NodeNum
  /\ target \in Nodes \cup {NoNode}
  /\ full \subseteq Nodes

(* The replies a choice is made by are those of this round, one of each     *)
(* node that was asked, and none is left for the next round, although only  *)
(* the number of events is counted; and the client, which has no timeout,   *)
(* never waits for a node that was not asked or has answered.               *)
RepliesMatch ==
  /\ pc = "choose" => \A n \in Nodes : re[n] # None <=> Contains(Candidates, n)
  /\ pc \notin {"collect", "choose"} =>
       \A n \in Nodes : query[n] = None /\ feaReply[n] = None
  /\ pc = "collect" => \E n \in Nodes : query[n] # None \/ feaReply[n] # None
  /\ pc = "await" => segment[target] # None \/ segReply[target]

(* A round in good order: types, cache sizes and replies.                  *)
Inv == TypeOK /\ RepliesMatch

(* With SIGMA a segment only goes to a node one of its features points to,  *)
(* so that equal segments of all clients meet the same few nodes; with      *)
(* STATELESS to the one its first chunk points to, whatever else is in it.  *)
StaysHome ==
  pc \in {"send", "await"} =>
    /\ build.route = "SIGMA" => \E i \in DOMAIN feature : target = HomeOf[feature[i]]
    /\ build.route = "STATELESS" => target = HomeOf[Head(feature)]

(* If one of the nodes asked has the whole segment, the segment goes to a    *)
(* node that has, through the hits the nodes count while they grow, the      *)
(* replies in any order, the numbering by candidates and the loads.         *)
FullMatchFound ==
  pc \in {"send", "await"} /\ full # {} => ToSet(feature) \subseteq indexed[target]

(* The cache is filled before the segment is sent and the node enters the    *)
(* features after its reply, yet no cached feature is a false promise: it   *)
(* is indexed by that very node or about to be.                             *)
CacheTrue ==
  \A n \in Nodes : \A f \in ToSet(cache[n]) :
    \/ f \in indexed[n]
    \/ Contains(todo[n], f)
    \/ segment[n] # None /\ Contains(segment[n], f)
    \/ pc = "send" /\ target = n /\ Contains(feature, f)
=============================================================================
