-------------------------------- MODULE Dedup --------------------------------
(***************************************************************************)
(* How a GPRoute storage node deduplicates (server/dedup.c): the handler of *)
(* a segment enters its fingerprints one by one into fp_table and replies  *)
(* with those that were new, and with the size of the table, which the     *)
(* client takes for the node's storage.  Handlers of several connections   *)
(* do this at the same time; the table is a set under one lock per         *)
(* sub-table, its size a sum read without any (ConcurrentHashTable).       *)
(***************************************************************************)
EXTENDS Naturals, Sequences, FiniteSets

CONSTANTS
  Conns,     \* connections that carry segments
  Chunks,    \* chunk fingerprints
  Segments,  \* the fingerprint lists that segments carry
  SUB_NUM,   \* sub-tables of fp_table
  SubOf,     \* the sub-table of a fingerprint
  None

ASSUME ConstantAssumption ==
  /\ SUB_NUM \in Nat \ {0}
  /\ SubOf \in [Chunks -> 0 .. SUB_NUM - 1]
  /\ Segments \subseteq Seq(Chunks)
  /\ IsFiniteSet(Chunks)
  /\ None \notin Conns

Subs == 0 .. SUB_NUM - 1

VARIABLES
  fpTable,  \* the fingerprints in fp_table
  fpLock,   \* writer lock of each sub-table: its holder, or None
  pc,
  segment,  \* segment->fp of the message being handled
  i,        \* the loop index of dedup_process, then of c_hash_table_size
  re,       \* the reply: re->fp and re->storage
  storage,  \* the client's side: storage[id] as the last reply set it
  told      \* how often each fingerprint was sent to a client as new

vars == <<fpTable, fpLock, pc, segment, i, re, storage, told>>

NoReply == [fp |-> <<>>, storage |-> 0]
NewEntries(s) == {x \in fpTable : SubOf[x] = s /\ told[x] = 0}  \* fault: not all
Entries(s) == {x \in fpTable : SubOf[x] = s}
Elems(q) == {q[n] : n \in DOMAIN q}

Init ==
  /\ fpTable = {}
  /\ fpLock = [s \in Subs |-> None]
  /\ pc = [c \in Conns |-> "idle"]
  /\ segment = [c \in Conns |-> <<>>]
  /\ i = [c \in Conns |-> 0]
  /\ re = [c \in Conns |-> NoReply]
  /\ storage = [c \in Conns |-> 0]
  /\ told = [x \in Chunks |-> 0]

Goto(c, from, to) ==
  /\ pc[c] = from
  /\ pc' = [pc EXCEPT ![c] = to]

NoLock(s) == TRUE                     \* fault: test and insert are not atomic
Lockable(s) == fpLock[s] = None

JustTheLast(n, m) == m                \* fault: = for +=
PlusSize(n, m) == n + m

StillHeld(c) == c                     \* fault: no unlock
Released(c) == None

OneMore(n) == n <= SUB_NUM            \* fault: <= for <
SubsLeft(n) == n < SUB_NUM

Receive(c) ==
  /\ Goto(c, "idle", "test")
  /\ \E s \in Segments : segment' = [segment EXCEPT ![c] = s]
  /\ i' = [i EXCEPT ![c] = 0]
  /\ re' = [re EXCEPT ![c] = NoReply]
  /\ UNCHANGED <<fpTable, fpLock, storage, told>>

Chunk(c) == segment[c][i[c] + 1]

(* c_hash_table_try_copy_insert, up to the test ...                        *)
Test(c) ==
  /\ pc[c] = "test"
  /\ i[c] < Len(segment[c])
  /\ Lockable(SubOf[Chunk(c)])
  /\ IF Chunk(c) \in fpTable
       THEN /\ i' = [i EXCEPT ![c] = @ + 1]
            /\ UNCHANGED <<pc, fpLock>>
       ELSE /\ Goto(c, "test", "insert")
            /\ fpLock' = [fpLock EXCEPT ![SubOf[Chunk(c)]] = c]
            /\ UNCHANGED i
  /\ UNCHANGED <<fpTable, segment, re, storage, told>>

(* ... and after it; a fingerprint that was not there goes into the reply. *)
Insert(c) ==
  /\ Goto(c, "insert", "test")
  /\ fpTable' = fpTable \cup {Chunk(c)}
  /\ fpLock' = [fpLock EXCEPT ![SubOf[Chunk(c)]] = Released(c)]
  /\ re' = [re EXCEPT ![c].fp = Append(@, Chunk(c))]
  /\ i' = [i EXCEPT ![c] = @ + 1]
  /\ UNCHANGED <<segment, storage, told>>

StartSize(c) ==
  /\ i[c] = Len(segment[c])
  /\ Goto(c, "test", "size")
  /\ i' = [i EXCEPT ![c] = 0]
  /\ UNCHANGED <<fpTable, fpLock, segment, re, storage, told>>

AddSub(c) ==
  /\ pc[c] = "size" /\ SubsLeft(i[c])
  /\ re' = [re EXCEPT ![c].storage = PlusSize(@, Cardinality(Entries(i[c])))]
  /\ i' = [i EXCEPT ![c] = @ + 1]
  /\ UNCHANGED <<fpTable, fpLock, pc, segment, storage, told>>

(* send_message, and remote_dedup's assignment at the other end.           *)
SendReply(c) ==
  /\ i[c] = SUB_NUM
  /\ Goto(c, "size", "idle")
  /\ storage' = [storage EXCEPT ![c] = re[c].storage]
  /\ told' = [x \in Chunks |->
                told[x] + Cardinality({n \in DOMAIN re[c].fp : re[c].fp[n] = x})]
  /\ segment' = [segment EXCEPT ![c] = <<>>]
  /\ i' = [i EXCEPT ![c] = 0]
  /\ re' = [re EXCEPT ![c] = NoReply]
  /\ UNCHANGED <<fpTable, fpLock>>

Next == \E c \in Conns :
  Receive(c) \/ Test(c) \/ Insert(c) \/ StartSize(c) \/ AddSub(c) \/ SendReply(c)

Spec == Init /\ [][Next]_vars

Fairness == \A c \in Conns :
  WF_vars(Test(c) \/ Insert(c) \/ StartSize(c) \/ AddSub(c) \/ SendReply(c))
FairSpec == Spec /\ Fairness

-----------------------------------------------------------------------------
(* The type of every variable; no loop runs past its end.                  *)
TypeOK ==
  /\ fpTable \subseteq Chunks
  /\ fpLock \in [Subs -> Conns \cup {None}]
  /\ pc \in [Conns -> {"idle", "test", "insert", "size"}]
  /\ segment \in [Conns -> Seq(Chunks)]
  /\ i \in [Conns -> Nat]
  /\ \A c \in Conns : i[c] <= IF pc[c] = "size" THEN SUB_NUM ELSE Len(segment[c])
  /\ re \in [Conns -> [fp : Seq(Chunks), storage : Nat]]
  /\ storage \in [Conns -> Nat]
  /\ told \in [Chunks -> Nat]

(* Every stored chunk is reported as new exactly once: in one reply to one  *)
(* client, sent or being put together, even when several clients bring it   *)
(* at the same time or a segment holds it twice (dedup.c:26).               *)
Pending(x) == {p \in Conns \X (1 .. Cardinality(Chunks)) :
                 p[2] \in DOMAIN re[p[1]].fp /\ re[p[1]].fp[p[2]] = x}

NewOnce ==
  \A x \in Chunks :
    told[x] + Cardinality(Pending(x)) = IF x \in fpTable THEN 1 ELSE 0

(* The storage a client is told never exceeds the table and covers the      *)
(* segment it has just stored, although the size is summed up while other   *)
(* handlers insert (concurrent_hashtable.c:79).                             *)
StorageBounds ==
  \A c \in Conns :
    /\ storage[c] <= Cardinality(fpTable)
    /\ pc[c] = "size" /\ i[c] = SUB_NUM =>
         /\ re[c].storage <= Cardinality(fpTable)
         /\ re[c].storage >= Cardinality(Elems(segment[c]))

(* The bounds of every number the handlers and the clients keep.           *)
Inv == TypeOK /\ StorageBounds

(* On one connection the storage a client is told never goes back: its      *)
(* load balancing relies on it (client/dedup.c:27).                         *)
StorageGrows == [][\A c \in Conns : storage'[c] >= storage[c]]_vars

(* Every segment is answered.                                              *)
Answered == \A c \in Conns : pc[c] # "idle" ~> pc[c] = "idle"
=============================================================================
