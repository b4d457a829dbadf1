------------------------- MODULE ConcurrentHashTable -------------------------
(***************************************************************************)
(* cHashTable (server/concurrent_hashtable.c): sub_ht_num GHashTables, each *)
(* under a read-write lock, a key's table being chosen by its first bytes. *)
(* Every operation locks one sub-table for its whole duration, except      *)
(* c_hash_table_size, which adds up the sub-tables' sizes one by one and   *)
(* takes no lock at all.                                                   *)
(*                                                                         *)
(* "try_insert" stands for c_hash_table_try_insert, _try_copy_insert and   *)
(* _try_steal_insert, which differ in whose memory the key is (the subject *)
(* of FeatureIndex); "lookup" for _lookup, _contains and _lookup_extended. *)
(***************************************************************************)
EXTENDS Naturals, FiniteSets

CONSTANTS
  Threads,
  Keys, Vals,
  SUB_NUM,   \* sub_ht_num
  SubOf,     \* (*((uint32_t* )key)) % sub_ht_num
  Usages,    \* sets of operations that one table is used with
  Null

Operations == {"insert", "try_insert", "lookup", "remove", "size"}

ASSUME TableAssumption ==
  /\ SUB_NUM \in Nat \ {0}
  /\ SubOf \in [Keys -> 0 .. SUB_NUM - 1]
  /\ \A ops \in Usages : ops \subseteq Operations
  /\ IsFiniteSet(Keys)
  /\ Null \notin Vals /\ Null \notin Threads

(* The server asks for the size of fp_table and fea_table, which only grow, *)
(* and removes from open_fea_con.table, whose size nobody asks for.         *)
ASSUME UsageAssumption == \A ops \in Usages : ~({"remove", "size"} \subseteq ops)

Subs == 0 .. SUB_NUM - 1

VARIABLES
  usage,    \* what this table is used for, which does not change
  ht,       \* the value of each key, or Null
  writer,   \* lock[i]: its writer, or Null
  readers,  \* lock[i]: its readers
  pc, op, key, val,
  i, size,  \* locals of c_hash_table_size
  result,   \* what the operation returns
  floor     \* the number of entries when the call began (for the refinement)

callVars == <<op, key, val, floor>>
lockVars == <<writer, readers>>
sizeVars == <<i, size>>
tableVars == <<usage, ht, lockVars, pc, callVars, sizeVars, result>>

Writers == {"insert", "try_insert", "remove"}
Entries(s) == {k \in Keys : ht[k] # Null /\ SubOf[k] = s}
Size == Cardinality({k \in Keys : ht[k] # Null})

TableInit ==
  /\ usage \in Usages
  /\ ht = [k \in Keys |-> Null]
  /\ writer = [s \in Subs |-> Null]
  /\ readers = [s \in Subs |-> {}]
  /\ pc = [t \in Threads |-> "idle"]
  /\ op = [t \in Threads |-> Null]
  /\ key = [t \in Threads |-> Null]
  /\ val = [t \in Threads |-> Null]
  /\ i = [t \in Threads |-> 0]
  /\ size = [t \in Threads |-> 0]
  /\ result = [t \in Threads |-> Null]
  /\ floor = [t \in Threads |-> 0]

Goto(t, from, to) ==
  /\ pc[t] = from
  /\ pc' = [pc EXCEPT ![t] = to]

Gboolean(b) == IF b THEN 1 ELSE 0

KeyArgs(o) == IF o = "size" THEN {Null} ELSE Keys
ValArgs(o) == IF o \in {"insert", "try_insert"} THEN Vals ELSE {Null}
Sub(t) == SubOf[key[t]]

AnyTime(t) == TRUE                  \* fault: the lock is not taken
LockFree(t) == writer[Sub(t)] = Null /\ readers[Sub(t)] = {}

SkipsFirst == 1                     \* fault: off by one
FirstSub == 0                       \* for(int i=0; ...)

Forgets(n, m) == m                  \* fault: = for +=
Adds(n, m) == n + m

SubsLeft(n) == n < SUB_NUM          \* i < cht->sub_ht_num

OldValue(t) ==                      \* fault: an entry that is there stays
  IF ht[key[t]] # Null THEN ht[key[t]] ELSE val[t]
NewValue(t) == val[t]

Call(t) ==
  \E o \in usage : \E k \in KeyArgs(o), v \in ValArgs(o) :
    /\ Goto(t, "idle", IF o = "size" THEN "size" ELSE "lock")
    /\ op' = [op EXCEPT ![t] = o]
    /\ key' = [key EXCEPT ![t] = k]
    /\ val' = [val EXCEPT ![t] = v]
    /\ floor' = [floor EXCEPT ![t] = Size]
    /\ i' = [i EXCEPT ![t] = FirstSub]
    /\ size' = [size EXCEPT ![t] = 0]
    /\ UNCHANGED <<ht, lockVars, result>>

LockWrite(t) ==
  /\ op[t] \in Writers
  /\ Goto(t, "lock", "act")
  /\ LockFree(t)
  /\ writer' = [writer EXCEPT ![Sub(t)] = t]
  /\ UNCHANGED <<ht, readers, callVars, sizeVars, result>>

LockRead(t) ==
  /\ op[t] = "lookup"
  /\ Goto(t, "lock", "act")
  /\ writer[Sub(t)] = Null
  /\ readers' = [readers EXCEPT ![Sub(t)] = @ \cup {t}]
  /\ UNCHANGED <<ht, writer, callVars, sizeVars, result>>

(* g_hash_table_insert returns TRUE when the key was not there.            *)
Insert(t) ==
  /\ op[t] = "insert"
  /\ Goto(t, "act", "unlock")
  /\ result' = [result EXCEPT ![t] = Gboolean(ht[key[t]] = Null)]
  /\ ht' = [ht EXCEPT ![key[t]] = NewValue(t)]
  /\ UNCHANGED <<lockVars, callVars, sizeVars>>

TestKey(t) ==
  /\ op[t] = "try_insert"
  /\ Goto(t, "act", IF ht[key[t]] # Null THEN "unlock" ELSE "store")
  /\ result' = [result EXCEPT ![t] = Gboolean(ht[key[t]] # Null)]
  /\ UNCHANGED <<ht, lockVars, callVars, sizeVars>>

StoreKey(t) ==
  /\ Goto(t, "store", "unlock")
  /\ ht' = [ht EXCEPT ![key[t]] = val[t]]
  /\ UNCHANGED <<lockVars, callVars, sizeVars, result>>

Lookup(t) ==
  /\ op[t] = "lookup"
  /\ Goto(t, "act", "unlock")
  /\ result' = [result EXCEPT ![t] = ht[key[t]]]
  /\ UNCHANGED <<ht, lockVars, callVars, sizeVars>>

Remove(t) ==
  /\ op[t] = "remove"
  /\ Goto(t, "act", "unlock")
  /\ result' = [result EXCEPT ![t] = Gboolean(ht[key[t]] # Null)]
  /\ ht' = [ht EXCEPT ![key[t]] = Null]
  /\ UNCHANGED <<lockVars, callVars, sizeVars>>

Unlock(t) ==
  /\ Goto(t, "unlock", "return")
  /\ IF op[t] \in Writers
       THEN writer' = [writer EXCEPT ![Sub(t)] = Null] /\ UNCHANGED readers
       ELSE readers' = [readers EXCEPT ![Sub(t)] = @ \ {t}] /\ UNCHANGED writer
  /\ UNCHANGED <<ht, callVars, sizeVars, result>>

(* size += g_hash_table_size(cht->ht[i]), under no lock.                   *)
AddSub(t) ==
  /\ pc[t] = "size" /\ SubsLeft(i[t])
  /\ size' = [size EXCEPT ![t] = Adds(@, Cardinality(Entries(i[t])))]
  /\ i' = [i EXCEPT ![t] = @ + 1]
  /\ UNCHANGED <<ht, lockVars, pc, callVars, result>>

EndSize(t) ==
  /\ i[t] = SUB_NUM
  /\ Goto(t, "size", "return")
  /\ result' = [result EXCEPT ![t] = size[t]]
  /\ UNCHANGED <<ht, lockVars, callVars, sizeVars>>

Return(t) ==
  /\ Goto(t, "return", "idle")
  /\ op' = [op EXCEPT ![t] = Null]
  /\ key' = [key EXCEPT ![t] = Null]
  /\ val' = [val EXCEPT ![t] = Null]
  /\ floor' = [floor EXCEPT ![t] = 0]
  /\ i' = [i EXCEPT ![t] = 0]
  /\ size' = [size EXCEPT ![t] = 0]
  /\ result' = [result EXCEPT ![t] = Null]
  /\ UNCHANGED <<ht, lockVars>>

ThreadStep(t) ==
  \/ Call(t) \/ LockWrite(t) \/ LockRead(t) \/ Insert(t) \/ TestKey(t)
  \/ StoreKey(t) \/ Lookup(t) \/ Remove(t) \/ Unlock(t) \/ AddSub(t)
  \/ EndSize(t) \/ Return(t)

TableNext == UNCHANGED usage /\ \E t \in Threads : ThreadStep(t)

TableSpec == TableInit /\ [][TableNext]_tableVars

-----------------------------------------------------------------------------
(* The type of every variable.                                             *)
TableTypeOK ==
  /\ usage \in Usages
  /\ ht \in [Keys -> Vals \cup {Null}]
  /\ writer \in [Subs -> Threads \cup {Null}]
  /\ readers \in [Subs -> SUBSET Threads]
  /\ pc \in [Threads -> {"idle", "lock", "act", "store", "unlock", "size", "return"}]
  /\ op \in [Threads -> usage \cup {Null}]
  /\ key \in [Threads -> Keys \cup {Null}]
  /\ val \in [Threads -> Vals \cup {Null}]
  /\ i \in [Threads -> 0 .. SUB_NUM]
  /\ size \in [Threads -> 0 .. Cardinality(Keys)]
  /\ result \in [Threads -> Vals \cup (0 .. 1 + Cardinality(Keys)) \cup {Null}]
  /\ floor \in [Threads -> 0 .. Cardinality(Keys)]

absPhase == [t \in Threads |->
  IF pc[t] = "idle" THEN "idle"
  ELSE IF pc[t] \in {"unlock", "return"} THEN "done" ELSE "called"]
absResult == [t \in Threads |-> IF pc[t] = "store" THEN Null ELSE result[t]]

Abstract == INSTANCE AtomicMap WITH
  Ops <- UNION Usages, None <- Null,
  map <- ht, phase <- absPhase, result <- absResult

(* The operations are atomic: no interleaving of threads in one sub-table or *)
(* in several lets two of them insert a key as new, or lets a reader see a   *)
(* value that is not the key's; and the size that is read without a lock was *)
(* not below the number of entries at the call nor above it at the return.  *)
(* The refinement reads the variables through their types (TableTypeOK).    *)
ImplementsAtomicMap == []TableTypeOK /\ Abstract!Spec
=============================================================================
