# GPRoute in TLA+

GPRoute deduplicates backup streams over a cluster of storage nodes. A client
cuts its input into segments, picks a few fingerprints of each segment as its
*features*, and sends the segment to the node that is likely to hold similar
data. A *Guidepost* is the client's cached copy of a piece of a node's feature
index, used to route without asking.

This directory holds TLA+ models of the program, TLC configurations that check
them on small instances, and proofs that hold for every instance. Line numbers
refer to the files under `src/`.

## Inventory

| Component | State | Operations | Interacts with |
|---|---|---|---|
| Server main loop (`server/main.c`) | `alive_flag`, `total_timer`, epoll set, thread pool, counters | accept, dispatch, re-arm, shutdown, free | peers by TCP; handlers by the pool; handlers write the flag it polls |
| Message framing (`communicate.c` of all three programs) | `recv_buf`, the counts `total`, `m_size` | `receive_message`, `send_message`, `recv_message`, `recv_and_combine` | the node spins inside a message, its peer blocks |
| Feature index (`server/feature.c`, `handle_eof`) | `fea_table`, `open_fea_con`, containers and their slots | `update_feature_index`, `feature_process`, `new_fea_container`, `handle_eof` | called by handlers, shares the concurrent hash tables |
| Deduplication (`server/dedup.c`) | `fp_table` | `dedup_process` | its reply sets the client's `storage[]` |
| Concurrent hash table (`server/concurrent_hashtable.c`) | GHashTables, one RW lock each | insert, the three try-inserts, lookups, remove, size | all of the above, from all handlers |
| Client routing (`client/route.c`) | guideposts, `storage[]`, `lcache` | `use_gp`, `use_force`, their `k_` variants, `update_gp`, `find_weighted_best`, `use_lcache` | queries to nodes, replies by epoll |
| Client connections (`client/main.c`, `communicate.c`, `dedup.c`) | three fds per node | connect, query, segment, EOF | one thread; several fds share an epoll index |
| Trace files (`client/libhashfile.c`) | offset and counters of an open trace | open, next file, next chunk | read by the segmenter; may be cut off anywhere |
| Client pipeline (`client/client.c`, `segment.c`, `feature.c`) | the segment being built | read trace, cut, select features | one thread (a threaded version is compiled out) |
| Shutdown program (`shutdown/main.c`) | sums of the nodes' statistics | two rounds of shutdown messages | every node |
| Vendored: xxHash | - | hashing | - |

What is hard in it:

* **Unlocked sharing.** A slice is copied into a reply under no lock while
  another handler writes slots of it (feature.c:200); the size of a table is a
  sum over sub-tables that grow meanwhile (concurrent_hashtable.c:79);
  `alive_flag` and the statistics are read and written freely.
* **Aliasing and lifetime.** The keys of `fea_table` are the slots themselves
  (`c_hash_table_try_steal_insert`); the struct of a full container is freed
  while the open table still points to it (feature.c:333); a key on the stack
  is passed as a table key (feature.c:334).
* **One handler per connection** rests on EPOLLONESHOT and on the order of
  reading and re-arming; **shutdown** rests on a second message that wakes a
  main thread blocked in `epoll_wait`.
* **Bytes, not messages.** TCP delivers in any pieces, a send may be short, and
  either end may die in the middle of a message; the programs only count
  (communicate.c).
* **Stale knowledge.** The client routes by guideposts and by storage numbers
  that are estimates until the next reply; with `SSDEDUP` its cache keeps loads
  of its own (route.c:142), and `use_k_gp` compares loads it never set
  (route.c:530).
* **Broken input.** A trace that ends within a record sends the reader's offset
  to its end while its counters go on (libhashfile.c).

What makes each part correct: the feature index is an atomic index of immutable
slices; deduplication calls every stored chunk new exactly once and never
overstates the node's storage; the hash table is linearizable but for `size`;
the server serves every request with one handler per connection and exits
after the two rounds, freeing nothing in use; routing chooses by the rule it
documents, from guideposts that are true of the node; the LRU cache's list and
table agree; a message is handled whole, once and in order, and a reply answers its
question; every chunk that is in a trace is sent, in order; the shutdown program
sums what the nodes reported.

`PROJECT.json` lists every hazard at its line with the properties that cover
it, or the reason why none does yet.

## Plan

Done:

1. The node: feature index, its abstract specification and the client's wiring
   of it; concurrent hash table and its specification; deduplication; server
   loop; the safety proofs of the feature index.
2. The client: `Routing` and `RouteChoice` (the rules), `Guidepost` (the default
   method), `Polling` (the methods it is compared with), and `ClientFile`, which
   composes `Segmenter`, `FeatureSelection` and `LruCache` (with its
   specification) to the loop over a file.
3. `Guidepost` also as built with `SSDEDUP` or `SIGMA_FEATURE`, `Polling` also
   with `STATELESS`, the features CDMINK and NTRANS; `TraceFile` below the
   segmenter, and the loop over a folder; `Framing`, with its specification
   `MessageExchange`.
4. Proofs of the safety properties of the node (index, table, deduplication,
   loop), with the refinements of `SliceIndex` and `AtomicMap`, of the
   client's routing (`NodeChoice`, `Guidepost`, `Polling`), of the bytes
   between the two (`Framing`), with the refinement of `MessageExchange`, and of
   the client's pipeline (`ClientFile` and its layers), with the refinement of
   `LruSet`. Every safety property that a passing run checks has its theorem.

Next:

5. `SliceBuilder`: generate_gp's pieces and gap, if the sources are ever built
   without the `ONE_PIECE` they define (feature.c:39). There
   `num` counts the promised hits too, so that pieces are too small and part of
   the slice stays as it was in the buffer.
   `ShutdownReport`: the sums of the shutdown program with failing nodes.
   `Cluster`: several clients and nodes, a node being a `SliceIndex`.

## Modules

| Module | Models | Checked by |
|---|---|---|
| `SliceIndex` | what the feature index promises: features belong to slices for ever, a lookup is one step, an answer is some state of one slice that contains every match in it | as `ImplementsSliceIndex` |
| `FeatureIndex` | `update_feature_index`, `new_fea_container`, `feature_process`, `get_best_con`, `handle_eof` | `MCFeatureIndex` |
| `ClientWiring` | the same index behind the real client's connections | `MCClientWiring` |
| `FeatureIndexProofs` | the inductive invariant of the index and what follows for memory, keys and entries; what queries see, the refinement of `SliceIndex`, and `OneStreamSlices` | TLAPS |
| `AtomicMap` | a map whose operations take effect in one step; `size` may return any number between the sizes at its call and its return | as `ImplementsAtomicMap` |
| `ConcurrentHashTable` | `cHashTable` | `MCConcurrentHashTable` |
| `Dedup` | `dedup_process` in several handlers, and the client's `storage[]` | `MCDedup` |
| `DedupProofs` | the invariant of deduplication and its theorems | TLAPS |
| `ServerLoop` | main thread, pool, `message_handler`, `receive_message`, peers and shutdown programs | `MCServerLoop` |
| `ServerProofs` | the invariant of the loop and its theorems; the refinement of `AtomicMap` by the table | TLAPS |
| `MessageExchange` | messages handled whole, once, in order; every reply the one to its question | as `ImplementsExchange` |
| `Framing` | the bytes of a connection: both sides' sending, receiving and counting, deaths of either end | `MCFraming` |
| `FramingProofs` | the invariant of a connection and the refinement of `MessageExchange` | TLAPS |
| `Routing` | `find_weighted_best` and its three rules as operators | used by those below |
| `RouteChoice` | one call of `find_weighted_best` | `MCRouteChoice` |
| `FeatureCache` | the cache of features as a sequence: what `update_lcache` makes of it | used by `NodeChoice`, `LruSet`, `LruCache` |
| `NodeChoice` | which nodes are considered, and what of a segment a cache holds | used by `Guidepost`, `Polling` |
| `NodeChoiceProofs` | what every call of `find_weighted_best` returns, and lemmas about both modules | TLAPS |
| `Guidepost` | `use_gp`, `use_k_gp`, `use_lcache`, `use_force`, `use_k_force`, `feature_request`, `update_gp`, `lru_id`, `remote_dedup`, with the nodes as their specification | `MCGuidepost` |
| `GuidepostProofs` | the invariant of a round and of the guideposts, and its theorems | TLAPS |
| `Polling` | `force_route` of BOAFFT with and without `use_lcache`, `k_force_route` of SIGMA, STATELESS, the server's index for them | `MCPolling` |
| `PollingProofs` | the same for the other methods and the cache's promises | TLAPS |
| `LruSet` | a bounded list of the features used last, every use counting | as `ImplementsLruSet` |
| `LruCache` | `update_lcache` with its list, table and memory | `MCClientFile` |
| `TraceFile` | `hashfile_open`, `hashfile_next_file`, `hashfile_next_chunk` on whole and cut traces | `MCClientFile` |
| `Segmenter` | `new_message_segment` | `MCClientFile` |
| `FeatureSelection` | `new_message_feature`, `quick_min_k_fp`, `get_min_k_fp`, and FINESSE, MINK, CDMINK, NTRANS | `MCClientFile` |
| `ClientFile` | the loop over the backup folder and `client_dedup_a_file`: the four layers above, one after the other for each segment | `MCClientFile` |
| `ClientFileProofs` | the invariants of the four layers and of the client, their theorems, and the refinement of `LruSet` | TLAPS |

### How state and actions correspond to the code

**FeatureIndex.** `feaTable[f]` is the pair (value, key) of an entry: the
container whose `gp_data` is the value and the slot that is the key. `data` is
`gp_data`, kept apart from `struct`, the `fea_container` that is freed alone.
A handler's locals are `con`, `exist`, `todo`, `cur`, `gp`. One step is one
critical section, or one half of a section whose intermediate state another
thread can see: `Probe` takes the sub-table's lock, tests, and begins the
`memcpy`; `Link` ends it, inserts the entry and unlocks. Between them the slot
reads as `Torn`. `CopySlot` copies one slot into the reply under no lock, and of
a torn slot may read the old bytes, the new ones or a mixture (`SlotReads`); the
slots are copied in ascending order. `LookupOpen`, `Register` and `EofRemove`
are single calls on `open_fea_con.table`, `PopContainer` and `EofPush` the
queue's critical sections. `Carries[c]` says which messages a connection may
carry: the server accepts any on any connection, so `MCFeatureIndex` allows all,
and `MCClientWiring` what the client sends (`ClientCarries`).

**ConcurrentHashTable.** `lock`, `act`, `store`, `unlock` are the statements of
an operation. The try-inserts differ only in whose memory a key is (that is
FeatureIndex's subject). `AddSub` is one iteration of the unlocked sum. `usage`
is the set of operations the server applies to one of its tables; no table is
both counted and removed from (`UsageAssumption`). Its specification is
`TableSpec`, so that the module can stand beside another one.

**Dedup.** `Test` and `Insert` are the two halves of the try-insert under its
lock, `AddSub` the sum; `SendReply` includes `remote_dedup`'s assignment of
`storage[id]` on the other side. `told` counts how often a chunk was sent as
new, a history variable.

**ServerLoop.** A message is a type byte and, for queries and segments, a
"rest". `EpollWait` returns a set of ready fds and disarms them, `Push` and
`StartTask` are the pool, `ReceiveNothing`, `ReceiveType`, `ReceiveRest` the
cases of `receive_message`, `CheckAlive` and `Kill` the unlocked test and
assignment, `FillStats` and `StopTimer` the two parts of
`fill_re_shutdown_msg`. `After[c]` orders connections: a shutdown program's
second round begins when its first is over. An fd that reached end of file
leaves epoll and is never closed (main.c:218), so fds are not reused.

**Routing, RouteChoice.** The scans of the three rules start at a random node
and keep the first best, so a rule's result is a function of the start
(`FirstFrom`); `WeightedBest` is the set over all starts. The code divides
doubles, the model compares fractions exactly; `0/0`, when nothing is stored,
is neither above 1 nor below the threshold. In find_load_weighted `i` runs past
the computed loads: what the test reads there is arbitrary, so `PassLoadTest`
lets every node before the start pass or fail.

**Guidepost, Polling, NodeChoice.** `pc` is the client's place in gp_route or
force_route and remote_dedup. `gp[n][p]` is `gp[n].table[p]`, `hitPos` is
`hit_pos` (its length is `hit`); `hit_map` is whether a feature has a `HitPart`.
`re` is the array on use_force's stack, whose content before the replies is
`Unread`. `Collect` is one return of `epoll_wait` with the blocking reads that
follow; it only looks at the shared index of an event, as the code does. The node
is abstracted: in `Guidepost` to what `SliceIndex` promises (`slices[n]` is the
set of its slices; a lookup may miss a feature that is being entered, a slice may
grow while it is copied), in `Polling` to the set `fea_table`. `build` is how the
programs were compiled, chosen once. With `SIGMA_FEATURE` the nodes considered
are `AddressedNodes`, in the order of `dst_id`, and the loads that `use_k_gp`
compares are any (`AnyLoads`), since its copy loop never runs. With `SSDEDUP` a
cache is a sequence of features, least recently used first, `known[n]` is
`lcache[n].storage`. A node's hits and the storage it reports are taken in one
step, as nothing relates them. Other clients are `Grow` (`Guidepost`) and its
like. `old`, `full` and `sent` are history: what a node had indexed when it was
asked, which nodes were known to have, or had, the whole segment, and what each
was sent.

**Framing.** Byte `i` of message or reply `n` is `<<n, i>>`, so that a property
sees where every byte of a buffer came from; `Stale` is one nobody wrote.
`total`, `size`, `buf` are `receive_message`'s `total`, `m_size`, `recv_buf`;
`handler` is its place, `parked` while the fd is in epoll. `ReceiveRest` is one
recv of `loop_recieve` that finds bytes, `Receive` one `recv` of
`recv_and_combine`, which with `MSG_WAITALL` returns less than it asks for only at
the end of the stream. `room` is what the node's kernel takes of a reply in one
send; what it does not take is lost, since `send_message`'s result is not used.
`Abort` and `Die` are deaths at any moment. Which reply a shutdown message gets,
by `alive_flag`, is in `ServerLoop`; here the replies are given in advance.

**TraceFile.** A trace is a `backup`, the files' chunks, and where it was cut off:
the file would hold its `Cells`, a header and, per file, a header, a path and one
record per chunk; `whole` of them are there, and if the trace is `torn` part of
one more, which a short read swallows. The path cell includes the target of a
symbolic link, which is read with it. `off`, `files`, `chunks`, `hashes` and
`ci` are the reader's `off` and counters. Where a path was cut off the counters
mix two files, and the next skip may be a negative one (`Backwards`). It lands
among records already read, of whose bytes the model knows nothing: `NoStrayFile`
finds no file there, `StrayFile` takes some bytes for one with any number of
chunks up to `MisreadMax`, and `StrayChunk` reads any fingerprints as its chunks
or runs out of bytes. From then on `off` is not followed any more (`adrift`). This
allows more than the code does, which reads certain bytes at a certain place; a
misread path is taken to fit its buffer.

**LruCache, LruSet.** A block of memory is its content or `Free`; list and table
hold blocks. Evicting looks the head's content up in the table, so that the
block that is freed is found by content, as in the code. `LruSet` has one
operation, `Use`, on every feature of `asked`: it must move to the end also what
was there already. It is `Entered` of `FeatureCache`, the cache on which
`Guidepost` and `Polling` rely.

**Segmenter, FeatureSelection.** One step is one iteration of a loop. `frame` is
the argument list of the recursive call; the recursion is a tail call. `src` and
`dst` are what `get_min_k_fp` reads and which list it fills; `candidates` and
`startPos` are cdmink_style's. `PartBoundaries` are the fingerprints that pass
`CHECK_BOUNDARY_`, `Transforms[j]` is what ntrans_style computes of a chunk.

**ClientFile.** `NextTrace` is one turn of the loop over the folder. Every other
action is an action of one layer while the others rest, but for `CutSegment`:
when `new_message_segment` returns a segment it has begun to select its features
(`Begin`). `RouteHere` and `RouteElsewhere` stand for all
of `route`: the features are entered into this node's cache, or into another's.

**Faults.** Each module defines, beside an expression of the code, what a
plausible slip would make of it, marked `fault`. No action uses a fault. They
are the mutants of `PROJECT.json`: replacing the expression by the fault breaks
the named property. An `Inv`, and `IndexIntact` and `MemorySafe` likewise, has a
fault for each of its named parts.

## Runs

| Run | Bounds | Shows |
|---|---|---|
| `index_safety` (242,722 states) | 2 connections carrying everything, 3 features in 2 sub-tables, 3 containers of 2 slots, `HIT_THRES` 1 | `IndexIntact` (types, `KeysIntact`, `SlotsPacked`), `MemorySafe` (`OneOwner`, `NoUseAfterFree`, `HeapKeys`), `PoolBound`, `BestExists`, `SliceAnswers`, `EntriesForever`, and the refinement of `SliceIndex` |
| `client_wiring` (33,939) | 2 clients with a segment and a query connection each, one of which queries, one batch of two features, one sub-table, `HIT_THRES` 0 | `OneStreamSlices`; `EventuallyIndexed` |
| `table` (975,246) | 3 threads, 2 keys in 2 sub-tables, 2 values, the two usages | `ImplementsAtomicMap` |
| `dedup` (487,295) | 3 connections, 3 chunks in 2 sub-tables, overlapping segments, one with a repeated chunk | `Inv` (`StorageBounds`), `NewOnce`, `StorageGrows`; `Answered` |
| `server_safety` (1,178,539) | a client's query connection, two shutdown programs of two rounds, 2 workers (2 events per wait) | `Inv` (`OneHandler`, `NoneForgotten`), `NoUseAfterFree`, `TimerOnce` |
| `server_live` (57,774) | a client with two files, one shutdown program | `Served`, `ShutdownEnds` |
| `guidepost` (3,672,395) | three builds; 2 nodes, 3 features, 3 parts, slices of 2 features, `HIT_THRES` 1; `plain`: two overlapping segments, 2 slices and 1 chunk per node; `ssdedup`: two disjoint segments, 1 slice, 1 chunk, caches of 2, `LC_HIT_THRES` 0; `sigma`: segments of 2 and 3, 2 slices, no chunks, loads 0 or 1 | `Inv` (`PromisesKept`, `HitsBounded`), `GuidepostTrue`, `RepliesMatch`, `EstimateLags`, `FewPartsUsed`, `FullMatchFound` |
| `polling` (1,535,970) | BOAFFT without and with the cache, SIGMA, STATELESS; 2 nodes, caches of 2 features, three segments of 1 to 3, which point to node 1, to both, and to node 0 | `Inv` (`RepliesMatch`), `StaysHome`, `FullMatchFound`, `CacheTrue` |
| `client_file` (1,149,565) | folders with one whole trace (2 files of at most 3 chunks or 3 files of at most 2, over 3 fingerprints, one a boundary) or with a trace cut off anywhere, alone, before or after a whole one; misread files of at most 2 chunks, as many as the trace has files left; segments of 3 to 5 chunks, 2 features, 3 candidates, four methods, a cache of 2 | `Inv` (`SizesBounded`, `SelectionSound`, `ListIsTable`, `KeysDiffer`), `NothingLost`, `CutByContent`, `FeaturesAreSmallest`; `ImplementsLruSet`; `Terminates` |
| `framing` (93,643) | one connection: a client's fea_fd or seg_fd with up to three messages, or a shutdown program's; messages of 1 to 5 bytes, replies of 1 to 4, a buffer of 5, a kernel that takes 3 or 4 bytes; either end dies at any moment | `Inv` (`InBounds`), `NodeSurvives`; `ImplementsExchange`; `Answered` |
| `server_report`, `route_skew` | as `server_live`; 3 nodes, 3 features, weights 0, 1, 3, 4, 7 and threshold 3/2 | the first two divergences below |

An `Inv` is the conjunction of a module's type invariant with the safety
invariants named in brackets, checked as one.

Runs without liveness use the symmetry of containers and connections
(`index_safety`), worker threads (`server_safety`), threads and values (`table`);
the runs with liveness use none.

Why these bounds suffice for the cases that matter: containers of two slots
fill up in the middle and at the end of a batch, and three features fill one
container and begin the next; two sub-tables give handlers that block one
another and handlers that do not; two handlers and a queue are all the parties
that can share a container; with fewer workers than connections the pool
queues, and `events[]` overflows. The batches overlap, so that handlers race for
a feature, and one of them repeats a feature: stored, the repetition takes the
"already there" path of the insert; queried, it gives one container the majority
over another, which `get_best_con` has to see.

The weights of `route_skew` lie on both sides of the average and of the
threshold; that the rules hold for every instance is proved instead. In
`guidepost` a guidepost hit needs both features, so that `use_gp` succeeds, fails
with one hit and fails with none; three parts are one more than `FewPartsUsed`
lets be filled. A build keeps small what its own question does not need: the
loads of `sigma` are arbitrary, so its nodes store nothing, and with `ssdedup` a
second slice would only repeat `plain`. In `polling` the candidates of SIGMA are
a node whose position differs from its number, and both nodes in reverse order;
the caches are smaller than the longest segment. `MaxStored` and `MaxSlices`
bound what a node comes to store and index, `MaxEstimate` ends the trace when the
cache's loads, which only grow by estimates, exceed it. The traces of
`client_file` put an empty file before, between and after others; five chunks in
two parts leave a remainder, and equal fingerprints occur; cut traces end in
every cell, before, within and behind it, and the longest of them, of three files,
is misread twice, into segments that are filled as well as left short; three different features displace one
another from a cache of two, and a repeated one hits; `PartBoundaries` lie inside
and at the end of segments, and `CANDIDATES` is smaller than the parts could
fill. In `framing` every part of a message is cut in every place; a segment may
fill the buffer to its last byte, and a reply may be larger than the room.

Deadlock is checked in every run but these: `route_skew`, where the one call
returns; `polling` and `guidepost`, whose trace ends at `MaxEstimate`; and
`client_file`, where a trace that cannot be opened ends the program. A closed server and an ended connection
stutter explicitly, and an index or table is never stuck.

**Fairness.** Threads are fair (weak fairness of each handler's next step and of
the main thread). Weak fairness of a handler blocked on a lock is enough because
a lock is held for two steps and the other handlers run out of work that takes
it before the peers send more; GLib's locks are not claimed to be fair. No peer
has to send anything, except that a peer does finish a message it has begun
unless it dies (the server spins inside a message, and a peer that stalls there
for ever does hold a pool thread: communicate.c:53), and that a shutdown
program, once started, goes on. A second shutdown program gets no reply and is
released only by the node's exit; that is why `ShutdownEnds` speaks of a program
that was answered. `ClientFile` is one running thread; `Terminates` needs no more than
that it runs, also on a trace that is misread, since every misread file counts as
one of the header's and holds a finite number of chunks. In
`Framing` the network delivers what was sent, the handler runs while it has
something to do, and the peer's blocking read returns when it can; no peer has to
send or to live. `Answered` also needs `RepliesFit`: a reply that the kernel
takes only part of leaves the client waiting for ever. `Guidepost` and `Polling`
state no fairness: `RepliesMatch` says that the client waits only while some node
owes it a reply, and that every node serves its messages is
`EventuallyIndexed`, `Answered` and `Served`.

## Divergences found

Shown by a run:

* README.md:58 tells the user to run the shutdown program when deduplication is
  complete to get the results. The node replies to a segment before it updates
  the index and the counters (main.c:185-192), and answers a shutdown message
  without waiting for running handlers, so the numbers may miss the last
  segments. (`server_report`)
* README.md:29 calls `skew_thres` the upper limit of data skew. The test reads
  `load[i]` with an `i` that runs past the nodes (route.c:62) where the score is
  that of `i % item_num`: a node above the limit can be chosen for a partial
  match. (`route_skew`)

Read off the code and the definitions:

* `c_hash_table_insert` returns TRUE for a *new* key (`Insert`); its comment
  (concurrent_hashtable.c:88) and all other operations say TRUE means present.
  Nobody uses the value today.
* route.c:89 says `find_weighted_best` returns the node with the biggest
  score/weight unless one matches everything. Up to the average load scores are
  not divided at all (`WeightedScore`), loaded nodes are left out, and without a
  candidate the lightest node is taken.
* libhashfile.c:675-678 says that a retry of hashfile_next_file should not really
  move the file pointer, for the records read are counted first. But a short read
  has moved `off` to the end, and after a path that was cut off `chunks` is that
  of the new file: a second call, and the segmenter makes one, skips the new
  file's chunks less the old one's. If that is negative it reads old records as a
  header (`StrayFile`), and the client may go on to send chunks that the trace
  does not hold there, or holds only once. `NothingLost` states that this happens
  only to a trace cut off inside a path, and only behind all its chunks.
* CDMINK_FEATURE reads the fingerprint behind each one (feature.c). Behind a
  segment that is not full there are zeros, which pass `CHECK_BOUNDARY_`; behind
  a full one whatever follows in memory, so that the last part may be in no
  candidate, and a segment may have no features at all. `max_hit` is then 0,
  every node matches it fully, and a random one is chosen.
* `use_k_gp`'s loop that copies the loads never runs (route.c:530); which of the
  matching nodes it prefers is arbitrary (`LoadsOfUseGp`). `FullMatchFound` holds
  all the same.
* README.md:33 calls `gp_part` the number of Guidepost slices. `lru_id` takes
  the last part without hits, so the parts below the last `HIT_THRES + 1` are
  never filled (`FewPartsUsed`), and a slice is dropped while parts are empty.

## What is proved

Every theorem holds for all values of the constants that satisfy the named
assumptions of its module: any number of connections, nodes, threads, features,
chunks, containers, traces and segments. Each specification has one inductive
invariant (`IInv`; `ClientInv` for `ClientFile`), which TLC had checked on an
instance before it was proved; a proof that it is inductive has a lemma per
action, and lemmas for the steps that touch nothing a part speaks of.

**The feature index** (`FeatureIndexProofs`), from `ConstantAssumption`, and
`PoolBound` from `ConnsAssumption` too:

    Spec => []TypeOK, []KeysIntact, []SlotsPacked, []OneOwner, []NoUseAfterFree,
            []HeapKeys, []BestExists, []PoolBound, EntriesForever

None of these is inductive by itself. `IInv` adds what a handler knows at each
point of its code:

* `HandlerInv`: the container of a handler by its `pc`: live with room while it
  registers or writes, freed between `free_fea_container` and the replacing
  `Register`, none while it is detached; `exist` says whether the entry is there.
* `QueueInv`, `UnallocatedInv`, `Apart`: queued containers are live and have
  room, never allocated ones are empty, and no container has two owners
  (`OneOwner`, said of elements instead of sets).
* `LockInv`: a handler in the middle of an insert holds the lock of its
  feature, which is absent; after it, the entry is the slot just written.
* `KeysBelow`: a key lies below `used_slot`, or in the slot of a handler about
  to count it.

`KeysIntact` follows because a write goes to `used_slot` of a container nobody
else owns, and no key lies there (`FreshSlot`). `BestExists` needs no more than
types: a client promises at most `HIT_THRES` matches, so exceeding it takes a
match. `PoolBound` is a count: a live container is queued or somebody's, and a
handler about to take one has none that is live, so that with an empty queue the
live containers map one to one into the other connections (`RoomForOneMore`).
`IndexIntact` and `MemorySafe`, which `index_safety` checks, put the named parts
together.

**Slices** (`FeatureIndexProofs`, second part): `Spec => []SliceAnswers` and
`Spec => ImplementsSliceIndex`. The copy into a reply runs under no lock, so what
a query saw must stay true. A slot is blank until its one writer comes
(`SlotInv`); what was read from it, even torn, is therefore its content for good
(`ReadStays`), as is what a lookup returned (`QueryInv`); `CopyInv` says that of
the slots copied so far. In the refinement, the `Probe` that finds the feature
absent stores it, the lookups, the decision not to send a slice, the copy of the
last slot and the sending of the reply are the abstract query's steps, and all
else stutters. A container about to be written has room for one more member
(`MembersFit`), and what was read is a member (`ReadMember`).

**The client's connections** (the end of `FeatureIndexProofs`, with
`WiringAssumption`: a connection is used for segments or for queries and EOF, never
for both): `Spec => OneStreamSlices`. A connection with an open container carries
segments, so the handler of an EOF finds none (`WiringInv`).

**The hash table** (`ServerProofs`, second part):
`TableSpec => ImplementsAtomicMap`. An operation takes effect in one step. try_insert
tests in one and stores in the next, and the writer lock makes the two one
(`Exclusive`); `size` takes effect when it returns: a table whose size is asked
for only grows, and the sum lies between what was there and what is (`Summed`).

**Deduplication** (`DedupProofs`): `Spec => []Inv`, `[]NewOnce`, `StorageGrows`.
The lock keeps others from a chunk between test and insertion (`Excluded`), so
that it gets into one place of one reply (`OnePlace`) and out of it when the
client is told (`SentOrReported`); the sum over sub-tables that grow meanwhile is
bounded by what the segment and what the table hold of those passed (`Summed`).

**The server's loop** (`ServerProofs`): `Spec => []Inv`, `[]NoUseAfterFree`,
`[]TimerOnce`. Each step takes a connection out of one place and into the next
(`OneHandler`, `NoneForgotten`, `Lined`). The main thread leaves its loop between
two rounds of dispatching, so a pool it once saw empty stays empty (`Phases`).

**The choice of a node** (`NodeChoiceProofs`), of `WeightedBest` for any hits and
any loads: `OnlyLightestStrangers`, `LastNodeNotDominated`. A scan from a random
start returns an element of the set it looks for (`FirstFromInSet`); of finitely
many fractions one is greatest (`GreatestExists`); so find_load_weighted gives up
only when it saw no node with a match, whatever it reads behind its loads
(`WeightedBestSound`), a full match wins (`FullMatchIsBest`), and a node without
a match is taken only for being the lightest. That a score divided by a larger
load is not lower only if it was not lower before is `HeavierMatchesMore`.
`Total` and the cache's lists are recursive functions; `RecursiveFunction` gives
their equations and `UpTo` the induction over the nodes.

**Guideposts** (`GuidepostProofs`): `Spec => []Inv`, `[]GuidepostTrue`,
`[]RepliesMatch`, `[]EstimateLags`, `[]FewPartsUsed`, `[]FullMatchFound`, for the
three builds. `Rounds` says where the query to each node is (out, answered, read)
and that `count` is the number of replies read. `Requests` carries what a query
and a reply mean up to the choice: which features they count, and that the node
has them; `Truth` makes features that are not asked for hits on the node. A node
that has the whole segment when it is asked thereby reports all features, and
`FullMatchIsBest` sends the segment to such a node. What nodes do meanwhile only
adds to what they hold (`Grows`), and one lemma, `NodeStep`, shows that this
disturbs nothing the client relies on.

**The other methods** (`PollingProofs`): `Spec => []Inv` (with `RepliesMatch`),
`[]StaysHome`, `[]FullMatchFound`, `[]CacheTrue`. `Rounds` and `Requests` are as
above. `Promises` follows every cached feature on its way to the node's index:
addressed while the segment waits to be sent, travelling, in the handler's
`todo`, indexed; at no moment in none of these. `NoneAssumption` only keeps the
marker of "no message" apart from messages.

**A connection** (`FramingProofs`): `Spec => []Inv`, `[]NodeSurvives` and
`Spec => ImplementsExchange`, for any messages, sizes and room in the kernel that
fit (`ConstantAssumption`: a message fits `recv_buf`, `seg_size` lies in the fixed
part of a segment, only segments have fingerprints). The bytes on their way to
the node go on, one after the other, from the place at which `receive_message` is,
and end where the peer's last message ends (`Flow`); within a message they can
only be those behind it (`Run`), so `recv_buf` holds the beginning of the right
message and the size read in it is that message's (`Received`). The peer waits for
a reply before it sends on, so only its last message can lack one, and the first
send after its death is the last (`Owed`). What is under way to it is the rest of
the reply it reads (`Reading`), and a recv returns all of it, or what a dead node
left. In the refinement `Handle` handles, the recv that completes a reply takes it,
the one that finds the end of the stream goes on without, and bytes moving,
partial reads and deaths of the peer stutter.

**The client's pipeline** (`ClientFileProofs`): `Spec => []Inv`, `[]NothingLost`,
`[]CutByContent`, `[]FeaturesAreSmallest` and `Spec => ImplementsLruSet`, from
`ClientAssumption`: a fingerprint may become a feature and has an image under
each transform, a segment's array is of the size the segmenter cuts to, and a
folder holds traces. The traces, the sizes, the number of features and of
candidates, the boundaries and the transforms are any. `ClientInv` is inductive,
a conjunction of one invariant per layer:

* `SegmenterInv`. `Layout` gives every chunk of the backup its place among the
  trace's cells; `ReadSoFar` says at which one the reader's offset and counters
  are, even after a short read, and that only a trace cut off inside a path takes
  it backwards; `NothingLost` that the segments, flattened, with what is being cut
  are the fingerprints before that place, or begin with all there are once the
  trace is misread. `Cut` gives every segment its reason to end: its content, or
  that the segments up to it are `Complete`. `FlattenSeq` is a fold, of
  which only the recursive definition is known; the module first proves what it
  does to the end of a sequence (`FlattenAppend`, `FlattenBegins`), by the
  well-ordering of the natural numbers.
* `SelectionInv`. While quick_min_k_fp runs, one element of its buffer is held
  apart in the pivot. With the pivot put back (`Restored`) the buffer is a
  rearrangement of what was to be searched (`Searching`); an iteration exchanges
  two pairs of it (`MovedIs`), and keeps what is before the pivot's place smaller
  and what is behind it not smaller (`MovedPasses`). At the end of the frame the
  pivot parts the whole buffer, and either side is a frame again
  (`PartedByPivot`). So when the recursion ends the first elements are the
  smallest (`FirstAreSmallest`), at its first test of k (position + 1) as well as
  at its second. `Partly`, `Looking` and `Searched` say what has been selected of
  the parts so far; with `Covered`, that every chunk of the parts passed has a
  feature that is not larger, the smallest one of the segment is among them.
* `CacheInv` is `ListIsTable`, `KeysDiffer` and the types, which are inductive
  together: the victim is found by content, so it is the list's head only because
  keys differ. Every `Hit` and `Miss` is a `Use` of `LruSet` (`UpdateUses`).

**Model-checked only:** the liveness properties (`EventuallyIndexed`, `Served`,
`ShutdownEnds`, both `Answered`, `Terminates`), for liveness under fairness is
outside what TLAPS does here; and the two divergences that runs show, which a
counterexample proves.

## Not modelled, and why

* `generate_gp`, for a build without the `ONE_PIECE` that feature.c:39 defines,
  and the sums of the shutdown program: planned.
* The threaded pipeline of client.c:42-186. It needs `USE_PIPELINE`, which
  nothing defines, and cannot be built with it: its timers are declared in the
  other branch and `send_eof` is static in main.c.
* FIRST_FEATURE beyond what STATELESS needs of it (no features are sent);
  DEBUG_MOTI and PREDICTION_EVA, which nothing defines; `stateless_route` (its
  call is commented out); `gp_part_statistic` and the other statistics but
  `fp_connec`: each is an addition, on the server a locked one.
* Connections that fail ten times: the client exits before it has done anything.
  A node that is gone later is in `Framing`.
* The half of libhashfile.c that writes traces and prints headers: never called.
* Timers, address parsing and formatting, allocation failure, and xxHash.
* The internals of GLib: a GHashTable under its lock is a function, GRWLock a
  readers-writer lock, the thread pool a FIFO queue with all its threads started.

Of the repository's lines most are vendored: xxhash.h alone is there twice with
6415 lines, and libhashfile has another 1600. Of GPRoute's own sources, about
4300 lines with their headers, the models stand for some 1500; the rest is
declarations, statistics, output and the branches named above.
