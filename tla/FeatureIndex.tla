---------------------------- MODULE FeatureIndex ----------------------------
(***************************************************************************)
(* The feature index of a GPRoute storage node (server/feature.c,          *)
(* ROUTE_METHOD == GUIDEPOST, ONE_PIECE).                                  *)
(*                                                                         *)
(* Handler threads, one per busy connection, store the features of the     *)
(* segments they receive and answer feature queries.  A new feature is     *)
(* copied into the next slot of the container that belongs to the          *)
(* connection, and the hash table uses that very slot as its key           *)
(* (c_hash_table_try_steal_insert): feaTable[f] is the container that is   *)
(* f's value together with the slot that is f's key.  A full container     *)
(* leaves its slots behind (the "slice" a query sends to the client) and   *)
(* only its struct is freed.  Containers in use are registered in          *)
(* open_fea_con.table under the connection's fd; an EOF message moves the  *)
(* container to open_fea_con.queue, from which the next one is taken.      *)
(*                                                                         *)
(* A step is a critical section of the code, or the start or the end of    *)
(* one that another thread can observe half done: the copy into a slot     *)
(* happens under the sub-table's lock, the copy out of the slots           *)
(* (feature.c:200) under no lock at all.                                   *)
(***************************************************************************)
EXTENDS Naturals, Sequences, FiniteSets

CONSTANTS
  Conns,       \* connection fds; epoll's ONESHOT gives each at most one handler
  Carries,     \* Carries[c]: the kinds of message that c's peer sends on it
  Features,    \* fingerprints that are used as features
  Batches,     \* the feature lists that messages carry
  SubTables,   \* the sub-tables of fea_table
  SubOf,       \* SubOf[f]: the sub-table that holds f (key % sub_ht_num)
  Containers,  \* fea_container structs the heap can hand out, with their gp_data
  GP_SIZE,     \* slots of a container
  HIT_THRES,   \* a slice is sent when more features than this hit
  None,        \* NULL, and the absence of a table entry
  Zero,        \* the content of a slot nobody wrote (g_malloc0)
  Torn         \* bytes read from a slot while memcpy writes it

ASSUME ConstantAssumption ==
  /\ GP_SIZE \in Nat \ {0}
  /\ HIT_THRES \in Nat
  /\ Batches \subseteq Seq(Features)
  /\ SubOf \in [Features -> SubTables]
  /\ Carries \in [Conns -> SUBSET {"segment", "feature", "eof"}]
  /\ None \notin Containers \cup Features \cup Conns
  /\ None \notin [con : Containers, slot : 0 .. GP_SIZE - 1]
  /\ {Zero, Torn} \cap Features = {}
  /\ Zero # Torn

ASSUME ConnsAssumption == IsFiniteSet(Conns)   \* file descriptors

Slots == 0 .. GP_SIZE - 1

AnyPromise == 0 .. HIT_THRES + 1     \* fault: >= for > in use_gp

(* Matches the client has already counted in its cached guidepost: it asks *)
(* the nodes only when no guidepost matches more than HIT_THRES features.  *)
Promises == 0 .. HIT_THRES

VARIABLES
  feaTable,   \* fea_table: feature -> its container and slot, or None
  feaLock,    \* writer lock of each sub-table: its holder, or None
  openTable,  \* open_fea_con.table: fd -> container, or None
  openKey,    \* where that entry's key lives: "heap", "stack" or "none"
  conQueue,   \* open_fea_con.queue
  struct,     \* each fea_container struct: "unallocated", "live" or "freed"
  used,       \* con->used_slot
  data,       \* con->gp_data, which outlives the struct
  pc,         \* what the handler of each connection does next
  con,        \* local con of update_feature_index and handle_eof
  exist,      \* local exist (TRUE also stands for the call with exist = TRUE)
  todo,       \* features of the query; of the segment, those not handled yet
  promised,   \* feature->hit of the query
  cur,        \* local cur[] of feature_process: what each lookup returned
  gp          \* message->gp: the slots copied so far, from which container

vars == <<feaTable, feaLock, openTable, openKey, conQueue, struct, used, data,
          pc, con, exist, todo, promised, cur, gp>>
tableVars == <<feaTable, feaLock>>
openVars  == <<openTable, openKey, conQueue>>
heapVars  == <<struct, used, data>>
queryVars == <<promised, cur, gp>>

Entry == [con : Containers, slot : Slots]
NoReply == [from |-> None, slots |-> <<>>]
Unwritten == [s \in Slots |-> Zero]

-----------------------------------------------------------------------------
Init ==
  /\ feaTable = [f \in Features |-> None]
  /\ feaLock = [t \in SubTables |-> None]
  /\ openTable = [c \in Conns |-> None]
  /\ openKey = [c \in Conns |-> "none"]
  /\ conQueue = <<>>
  /\ struct = [k \in Containers |-> "unallocated"]
  /\ used = [k \in Containers |-> 0]
  /\ data = [k \in Containers |-> Unwritten]
  /\ pc = [c \in Conns |-> "idle"]
  /\ con = [c \in Conns |-> None]
  /\ exist = [c \in Conns |-> FALSE]
  /\ todo = [c \in Conns |-> <<>>]
  /\ promised = [c \in Conns |-> 0]
  /\ cur = [c \in Conns |-> <<>>]
  /\ gp = [c \in Conns |-> NoReply]

Goto(c, from, to) ==
  /\ pc[c] = from
  /\ pc' = [pc EXCEPT ![c] = to]

(* Each of these is one expression of the code; beside it, marked as a       *)
(* fault, is what a plausible mistake would make of it.  No action uses a    *)
(* fault: they show which mistakes the properties catch.                     *)

PeekOnly(q) == q                     \* fault: the head stays in the queue
AfterPop(q) == Tail(q)               \* g_queue_pop_head

NoPush(q, k) == q                    \* fault: the container is dropped
AfterPush(q, k) == Append(q, k)      \* g_queue_push_tail

CallersKey(c) == "stack"             \* fault: the key is never copied
GivenKey(c) == IF exist[c] THEN "stack" ELSE "heap"

NeverThere(f) == FALSE               \* fault: insert without looking
IsThere(f) == feaTable[f] # None     \* g_hash_table_contains

StillHeld(c) == c                    \* fault: no unlock
Released(c) == None                  \* g_rw_lock_writer_unlock

NextWraps(n) == (n + 1) % GP_SIZE    \* fault: a full container starts over
NextSlot(n) == n + 1                 \* used_slot++

EarlyFull(n) == n = GP_SIZE - 1      \* fault: off by one
LateFull(n) == n > GP_SIZE           \* fault: off by one
IsFull(n) == n = GP_SIZE

NotReplaced == "probe"               \* fault: the freed container is used on
AfterFull == "pop"                   \* con = new_fea_container(&key, TRUE)

ShortSlice == GP_SIZE - 1            \* fault: off by one
SliceLen == GP_SIZE                  \* fpcpy(..., GP_SIZE)

-----------------------------------------------------------------------------
(* update_feature_index, called after the segment's reply has been sent.   *)

ReceiveSegment(c) ==
  /\ "segment" \in Carries[c]
  /\ Goto(c, "idle", "lookup")
  /\ \E b \in Batches : todo' = [todo EXCEPT ![c] = b]
  /\ UNCHANGED <<tableVars, openVars, heapVars, con, exist, queryVars>>

LookupOpen(c) ==
  /\ Goto(c, "lookup", IF openTable[c] # None THEN "probe" ELSE "pop")
  /\ exist' = [exist EXCEPT ![c] = openTable[c] # None]
  /\ con' = [con EXCEPT ![c] = openTable[c]]
  /\ UNCHANGED <<tableVars, openVars, heapVars, todo, queryVars>>

(* new_fea_container: a recycled container, else a fresh zeroed one ...    *)
PopContainer(c) ==
  /\ Goto(c, "pop", "register")
  /\ IF conQueue # <<>>
       THEN /\ con' = [con EXCEPT ![c] = Head(conQueue)]
            /\ conQueue' = AfterPop(conQueue)
            /\ UNCHANGED heapVars
       ELSE \E k \in Containers :
              /\ struct[k] = "unallocated"
              /\ struct' = [struct EXCEPT ![k] = "live"]
              /\ used' = [used EXCEPT ![k] = 0]
              /\ data' = [data EXCEPT ![k] = Unwritten]
              /\ con' = [con EXCEPT ![c] = k]
              /\ UNCHANGED conQueue
  /\ UNCHANGED <<tableVars, openTable, openKey, exist, todo, queryVars>>

(* ... registered under the fd.  g_hash_table_insert keeps the key of an   *)
(* entry that is there and stores the one it is given otherwise.           *)
Register(c) ==
  /\ Goto(c, "register", "probe")
  /\ openTable' = [openTable EXCEPT ![c] = con[c]]
  /\ openKey' = [openKey EXCEPT ![c] =
                   IF openTable[c] # None THEN @
                   ELSE GivenKey(c)]
  /\ UNCHANGED <<tableVars, conQueue, heapVars, con, exist, todo, queryVars>>

(* c_hash_table_try_steal_insert up to the memcpy: a feature that is there *)
(* is skipped, otherwise the lock stays held while the slot is written.    *)
Probe(c) ==
  /\ pc[c] = "probe"
  /\ todo[c] # <<>>
  /\ feaLock[SubOf[Head(todo[c])]] = None
  /\ IF IsThere(Head(todo[c]))
       THEN /\ Goto(c, "probe", "probe")
            /\ todo' = [todo EXCEPT ![c] = Tail(@)]
            /\ UNCHANGED <<feaLock, data>>
       ELSE /\ Goto(c, "probe", "link")
            /\ feaLock' = [feaLock EXCEPT ![SubOf[Head(todo[c])]] = c]
            /\ data' = [data EXCEPT ![con[c]][used[con[c]]] = Torn]
            /\ UNCHANGED todo
  /\ UNCHANGED <<feaTable, openVars, struct, used, con, exist, queryVars>>

(* ... its second half: the memcpy ends, the slot becomes the key of the   *)
(* new entry, the lock is released.                                        *)
Link(c) ==
  /\ Goto(c, "link", "bump")
  /\ data' = [data EXCEPT ![con[c]][used[con[c]]] = Head(todo[c])]
  /\ feaTable' = [feaTable EXCEPT
                    ![Head(todo[c])] = [con |-> con[c], slot |-> used[con[c]]]]
  /\ feaLock' = [feaLock EXCEPT ![SubOf[Head(todo[c])]] = Released(c)]
  /\ UNCHANGED <<openVars, struct, used, con, exist, todo, queryVars>>

(* used_slot++; a full container's struct is freed and replaced.           *)
Bump(c) ==
  /\ pc[c] = "bump"
  /\ used' = [used EXCEPT ![con[c]] = NextSlot(@)]
  /\ todo' = [todo EXCEPT ![c] = Tail(@)]
  /\ IF IsFull(used'[con[c]])
       THEN /\ Goto(c, "bump", AfterFull)
            /\ struct' = [struct EXCEPT ![con[c]] = "freed"]
            /\ exist' = [exist EXCEPT ![c] = TRUE]
       ELSE /\ Goto(c, "bump", "probe")
            /\ UNCHANGED <<struct, exist>>
  /\ UNCHANGED <<tableVars, openVars, data, con, queryVars>>

FinishSegment(c) ==
  /\ todo[c] = <<>>
  /\ Goto(c, "probe", "idle")
  /\ con' = [con EXCEPT ![c] = None]
  /\ exist' = [exist EXCEPT ![c] = FALSE]
  /\ UNCHANGED <<tableVars, openVars, heapVars, todo, queryVars>>

-----------------------------------------------------------------------------
(* handle_eof: the entry is looked up, removed, and its container queued.  *)

ReceiveEof(c) ==
  /\ "eof" \in Carries[c]
  /\ Goto(c, "idle", IF openTable[c] # None THEN "eof_remove" ELSE "idle")
  /\ con' = [con EXCEPT ![c] = openTable[c]]
  /\ UNCHANGED <<tableVars, openVars, heapVars, exist, todo, queryVars>>

EofRemove(c) ==
  /\ Goto(c, "eof_remove", "eof_push")
  /\ openTable' = [openTable EXCEPT ![c] = None]
  /\ openKey' = [openKey EXCEPT ![c] = "none"]
  /\ UNCHANGED <<tableVars, conQueue, heapVars, con, exist, todo, queryVars>>

EofPush(c) ==
  /\ Goto(c, "eof_push", "idle")
  /\ conQueue' = AfterPush(conQueue, con[c])
  /\ con' = [con EXCEPT ![c] = None]
  /\ UNCHANGED <<tableVars, openTable, openKey, heapVars, exist, todo, queryVars>>

-----------------------------------------------------------------------------
(* feature_process: look every feature up, then answer.                    *)

ReceiveFeature(c) ==
  /\ "feature" \in Carries[c]
  /\ Goto(c, "idle", "match")
  /\ \E b \in Batches, h \in Promises :
       /\ todo' = [todo EXCEPT ![c] = b]
       /\ promised' = [promised EXCEPT ![c] = h]
  /\ cur' = [cur EXCEPT ![c] = <<>>]
  /\ UNCHANGED <<tableVars, openVars, heapVars, con, exist, gp>>

(* fp_hit_times: one lookup, under the reader lock.                        *)
Match(c) ==
  LET f == todo[c][Len(cur[c]) + 1]
      value == IF feaTable[f] = None THEN None ELSE feaTable[f].con
  IN  /\ pc[c] = "match"
      /\ Len(cur[c]) < Len(todo[c])
      /\ feaLock[SubOf[f]] = None
      /\ Goto(c, "match", "match")
      /\ cur' = [cur EXCEPT ![c] = Append(@, value)]
      /\ UNCHANGED <<tableVars, openVars, heapVars, con, exist, todo, promised, gp>>

Hits(found) == {i \in DOMAIN found : found[i] # None}
HitsIn(found, k) == {i \in DOMAIN found : found[i] = k}

AnyCon(found, k) == k # None /\ HitsIn(found, k) # {}   \* fault: no maximum

(* get_best_con: the first container with the largest number of matches.   *)
IsBestCon(found, k) ==
  k # None /\ \E j \in HitsIn(found, k) : \A i \in Hits(found) :
    LET other == Cardinality(HitsIn(found, found[i]))
        most == Cardinality(HitsIn(found, k))
    IN  other < most \/ (other = most /\ j <= i)

Decide(c) ==
  /\ pc[c] = "match"
  /\ Len(cur[c]) = Len(todo[c])
  /\ IF Cardinality(Hits(cur[c])) + promised[c] > HIT_THRES
       THEN /\ Goto(c, "match", "copy")
            /\ \E k \in Containers \cup {None} :
                 /\ IF Hits(cur[c]) = {} THEN k = None ELSE IsBestCon(cur[c], k)
                 /\ gp' = [gp EXCEPT ![c] = [from |-> k, slots |-> <<>>]]
       ELSE /\ Goto(c, "match", "send")
            /\ UNCHANGED gp
  /\ UNCHANGED <<tableVars, openVars, heapVars, con, exist, todo, promised, cur>>

(* What an unlocked reader sees in a slot: while the slot is written, the  *)
(* old bytes, the new ones, or some of each.                               *)
SlotReads(k, s) ==
  IF data[k][s] # Torn THEN {data[k][s]}
  ELSE {Zero, Torn} \cup
       {Head(todo[w]) : w \in {d \in Conns : pc[d] = "link" /\ con[d] = k}}

(* fpcpy(message->gp, ..., GP_SIZE), slot after slot, under no lock.       *)
CopySlot(c) ==
  LET s == Len(gp[c].slots)
  IN  /\ pc[c] = "copy"
      /\ s < SliceLen
      /\ gp[c].from # None
      /\ Goto(c, "copy", IF s = SliceLen - 1 THEN "send" ELSE "copy")
      /\ \E v \in SlotReads(gp[c].from, s) :
           gp' = [gp EXCEPT ![c] =
                    [from |-> gp[c].from, slots |-> Append(gp[c].slots, v)]]
      /\ UNCHANGED <<tableVars, openVars, heapVars, con, exist, todo, promised, cur>>

SendReply(c) ==
  /\ Goto(c, "send", "idle")
  /\ todo' = [todo EXCEPT ![c] = <<>>]
  /\ promised' = [promised EXCEPT ![c] = 0]
  /\ cur' = [cur EXCEPT ![c] = <<>>]
  /\ gp' = [gp EXCEPT ![c] = NoReply]
  /\ UNCHANGED <<tableVars, openVars, heapVars, con, exist>>

-----------------------------------------------------------------------------
Receive(c) == ReceiveSegment(c) \/ ReceiveEof(c) \/ ReceiveFeature(c)

Proceed(c) ==
  \/ LookupOpen(c) \/ PopContainer(c) \/ Register(c) \/ Probe(c) \/ Link(c)
  \/ Bump(c) \/ FinishSegment(c) \/ EofRemove(c) \/ EofPush(c)
  \/ Match(c) \/ Decide(c) \/ CopySlot(c) \/ SendReply(c)

Next == \E c \in Conns : Receive(c) \/ Proceed(c)

(* A handler that has a message is a running thread: it is never descheduled *)
(* for ever.  Nothing obliges a peer to send.                              *)
Fairness == \A c \in Conns : WF_vars(Proceed(c))

Spec == Init /\ [][Next]_vars
FairSpec == Spec /\ Fairness

-----------------------------------------------------------------------------
(* The type of every variable.                                             *)
PCs == {"idle", "lookup", "pop", "register", "probe", "link", "bump",
        "eof_remove", "eof_push", "match", "copy", "send"}

TypeOK ==
  /\ feaTable \in [Features -> Entry \cup {None}]
  /\ feaLock \in [SubTables -> Conns \cup {None}]
  /\ openTable \in [Conns -> Containers \cup {None}]
  /\ openKey \in [Conns -> {"none", "heap", "stack"}]
  /\ conQueue \in Seq(Containers)
  /\ struct \in [Containers -> {"unallocated", "live", "freed"}]
  /\ used \in [Containers -> 0 .. GP_SIZE]
  /\ data \in [Containers -> [Slots -> Features \cup {Zero, Torn}]]
  /\ pc \in [Conns -> PCs]
  /\ con \in [Conns -> Containers \cup {None}]
  /\ exist \in [Conns -> BOOLEAN]
  /\ todo \in [Conns -> Seq(Features)]
  /\ promised \in [Conns -> Promises]
  /\ cur \in [Conns -> Seq(Containers \cup {None})]
  /\ gp \in [Conns -> [from : Containers \cup {None},
                       slots : Seq(Features \cup {Zero, Torn})]]

(* fea_table does not own its keys: a key is a slot of some container, and  *)
(* the hash table goes wrong if that slot ever changes.  The bytes of the   *)
(* slot an entry uses as its key stay those of the feature (feature.c:328). *)
KeysIntact ==
  \A f \in Features :
    feaTable[f] # None => data[feaTable[f].con][feaTable[f].slot] = f

(* Slots are used up one after the other, each for a feature of the table:  *)
(* no slot is lost or used twice, whoever else inserts the same feature     *)
(* first, and a struct is freed only when its slots are full.               *)
SlotsPacked ==
  \A k \in Containers :
    /\ \A s \in Slots :
         /\ s < used[k] => /\ data[k][s] \in Features
                           /\ feaTable[data[k][s]] = [con |-> k, slot |-> s]
         /\ s > used[k] => data[k][s] = Zero
    /\ struct[k] = "freed" => used[k] = GP_SIZE

(* update_feature_index writes a container under no lock of its own, so a   *)
(* container belongs to one connection, or to the queue, at any time.       *)
OneOwner ==
  /\ \A c, d \in Conns :
       c # d => {openTable[c], con[c]} \cap {openTable[d], con[d]} \subseteq {None}
  /\ \A i \in DOMAIN conQueue :
       /\ \A c \in Conns : conQueue[i] \notin {openTable[c], con[c]}
       /\ \A j \in DOMAIN conQueue : conQueue[i] = conQueue[j] => i = j

(* A container struct is freed while con and the table still point to it    *)
(* (feature.c:333).  No handler follows the dangling pointer, the queue     *)
(* holds live structs only, and the slot to be written is inside gp_data.   *)
NoUseAfterFree ==
  /\ \A c \in Conns :
       /\ con[c] # None /\ pc[c] # "pop" => struct[con[c]] = "live"
       /\ openTable[c] # None /\ pc[c] \notin {"pop", "register"} =>
            struct[openTable[c]] = "live"
       /\ pc[c] \in {"probe", "link", "bump"} =>
            con[c] # None /\ used[con[c]] < GP_SIZE
  /\ \A i \in DOMAIN conQueue :
       struct[conQueue[i]] = "live" /\ used[conQueue[i]] < GP_SIZE

(* new_fea_container is handed a key on its caller's stack when exist is     *)
(* TRUE (feature.c:334): such a key is never stored, so that handle_eof may *)
(* free the key it finds (main.c:82).                                       *)
HeapKeys ==
  \A c \in Conns : openKey[c] = IF openTable[c] = None THEN "none" ELSE "heap"

(* The table and the containers whose slots are its keys never disagree:    *)
(* update_feature_index writes a slot before its entry exists and counts it *)
(* after, under another lock than a lookup takes (feature.c:320-331); and   *)
(* everything keeps its type, a slot's number among it.                     *)
IndexIntact == TypeOK /\ KeysIntact /\ SlotsPacked

(* Containers change hands through the queue, are freed by hand and found   *)
(* again by keys of mixed origin (feature.c:286-343, main.c:70-85): no two  *)
(* owners, nothing used after free, no key on a stack.                      *)
MemorySafe == OneOwner /\ NoUseAfterFree /\ HeapKeys

(* EOF recycles containers: no live one is ever out of reach, and there are *)
(* never more of them than connections, however many segments arrive.       *)
PoolBound ==
  LET live == {k \in Containers : struct[k] = "live"}
  IN  /\ Cardinality(live) <= Cardinality(Conns)
      /\ \A k \in live : \/ \E c \in Conns : k \in {openTable[c], con[c]}
                         \/ \E i \in DOMAIN conQueue : conQueue[i] = k

(* feature_process copies from get_best_con's result unchecked              *)
(* (feature.c:200): it is never NULL, given what a client promises.         *)
BestExists == \A c \in Conns : pc[c] = "copy" => gp[c].from # None

(* The slice a query returns holds every queried feature that was found in  *)
(* the chosen container, although it is copied under no lock while other    *)
(* features are being written, and every whole feature in it has, or is     *)
(* being given, that slot of the container.                                 *)
SliceAnswers ==
  \A c \in Conns : pc[c] = "send" /\ gp[c].from # None =>
    /\ \A i \in HitsIn(cur[c], gp[c].from) :
         \E s \in DOMAIN gp[c].slots : gp[c].slots[s] = todo[c][i]
    /\ \A s \in DOMAIN gp[c].slots :
         gp[c].slots[s] \in SlotReads(gp[c].from, s - 1) \cup {Zero, Torn}

(* An index entry is for ever: neither its container nor its slot changes,  *)
(* nor do the slots behind it, so that a slice sent to a client stays true. *)
EntriesForever ==
  [][\A f \in Features : feaTable[f] # None => feaTable'[f] = feaTable[f]]_vars

(* Every feature of a segment that was received is in the table in the end, *)
(* stored by this handler or by another.                                    *)
EventuallyIndexed ==
  \A c \in Conns, f \in Features :
    (pc[c] = "lookup" /\ \E i \in DOMAIN todo[c] : todo[c][i] = f)
      ~> feaTable[f] # None

-----------------------------------------------------------------------------
(* The abstract view: a feature is stored from the moment a handler holds   *)
(* its sub-table's lock and writes its slot, for nobody can look it up      *)
(* before the entry is there.                                               *)
Linking(f) == {c \in Conns : pc[c] = "link" /\ Head(todo[c]) = f}

absSliceOf == [f \in Features |->
  IF feaTable[f] # None THEN feaTable[f].con
  ELSE IF Linking(f) # {} THEN con[CHOOSE c \in Linking(f) : TRUE] ELSE None]
absPhase == [c \in Conns |->
  IF pc[c] \in {"match", "copy"} THEN "asked"
  ELSE IF pc[c] = "send" THEN "answered" ELSE "none"]
absAsked == [c \in Conns |-> IF absPhase[c] = "none" THEN <<>> ELSE todo[c]]
absReply == [c \in Conns |->
  IF pc[c] # "send" THEN [from |-> None, features |-> {}]
  ELSE [from |-> gp[c].from,
        features |-> {f \in Features : \E s \in DOMAIN gp[c].slots : gp[c].slots[s] = f}]]

Abstract == INSTANCE SliceIndex WITH
  Slices <- Containers, sliceOf <- absSliceOf, phase <- absPhase,
  asked <- absAsked, found <- cur, reply <- absReply

(* The index as the handlers run it, with its locks, aliased keys and       *)
(* unlocked copies, is an atomic index of slices.                           *)
ImplementsSliceIndex == Abstract!Spec
=============================================================================
