---------------------------- MODULE ServerProofs ----------------------------
(***************************************************************************)
(* The two parts of a node that its threads share, for any number of       *)
(* threads: the concurrent hash table, and the main loop with the pool.    *)
(* Neither uses the other's state; what they need of each other is that    *)
(* the tables outlive every handler (TablesOutliveHandlers).               *)
(*                                                                         *)
(* The hash table implements the atomic map, for any keys, values and sub- *)
(* tables and any sets of operations that respect UsageAssumption.  An     *)
(* operation takes effect in one step of the code, the one that tests or   *)
(* changes the sub-table, except try_insert, which tests in one step and   *)
(* stores in the next; the writer lock makes the two one (Exclusive).      *)
(* size takes effect in its last step: what it summed up lies between the  *)
(* entries at the call and those at the return (Summed), because a table   *)
(* whose size is asked for only grows.                                     *)
(*                                                                         *)
(* In the main loop, for any connections, peers and messages, a connection *)
(* is in one pair of hands, the tables outlive every handler, and the      *)
(* timer is destroyed once.  A connection goes from the backlog to epoll,  *)
(* from there through events[] and the pool to one worker, and back; each  *)
(* of these steps takes it out of one place and puts it into the next      *)
(* (OneHandler, NoneForgotten, Lined).  The main thread leaves the loop    *)
(* only between two rounds of dispatching, so that a pool it has once seen *)
(* empty is never filled again (Phases).                                   *)
(***************************************************************************)
EXTENDS ServerLoop, ConcurrentHashTable, FiniteSetTheorems, TLAPS

-----------------------------------------------------------------------------
(*                       The concurrent hash table                         *)

Entered == {k \in Keys : ht[k] # Null}
At(S, n) == {k \in S : SubOf[k] = n}
Below(S, n) == {k \in S : SubOf[k] < n}
From(S, n) == {k \in S : SubOf[k] >= n}

(* What a thread's place in its operation says of its locals.              *)
Locals ==
  \A t \in Threads :
    /\ pc[t] \in {"lock", "act", "store", "unlock"} => op[t] \in usage \ {"size"} /\ key[t] \in Keys
    /\ pc[t] = "size" => op[t] = "size" /\ "size" \in usage
    /\ op[t] \in {"insert", "try_insert"} /\ pc[t] # "idle" => val[t] \in Vals
    /\ pc[t] \in {"idle", "lock", "act", "size"} => result[t] = Null

(* A thread that writes to a sub-table holds its lock until it returns; a   *)
(* key that try_insert did not find is not entered by anybody else.         *)
Exclusive ==
  \A t \in Threads :
    /\ pc[t] \in {"act", "store", "unlock"} /\ op[t] \in Writers => writer[Sub(t)] = t
    /\ pc[t] = "store" => op[t] = "try_insert" /\ result[t] = 0 /\ ht[key[t]] = Null

(* The sum counts nothing that is not there, and misses nothing of what was *)
(* there at the call.                                                       *)
Summed ==
  \A t \in Threads : pc[t] = "size" =>
    /\ size[t] <= Cardinality(Below(Entered, i[t]))
    /\ floor[t] <= size[t] + Cardinality(From(Entered, i[t]))

TableIInv == TableTypeOK /\ Locals /\ Exclusive /\ Summed

PCs == {"idle", "lock", "act", "store", "unlock", "size", "return"}
Results == Vals \cup (0 .. 1 + Cardinality(Keys)) \cup {Null}

(* A step of t that leaves the locals of the others alone.                  *)
Others(t) ==
  \A d \in Threads \ {t} :
    /\ pc'[d] = pc[d] /\ op'[d] = op[d] /\ key'[d] = key[d] /\ val'[d] = val[d]
    /\ i'[d] = i[d] /\ size'[d] = size[d] /\ floor'[d] = floor[d] /\ result'[d] = result[d]

-----------------------------------------------------------------------------
LEMMA KeysFinite ==
  ASSUME NEW T, T \subseteq Keys, NEW S, S \subseteq T
  PROVE  /\ Cardinality(S) \in Nat /\ Cardinality(T) \in Nat
         /\ Cardinality(S) <= Cardinality(T)
<1>1. IsFiniteSet(T)
  BY FS_Subset, TableAssumption
<1> QED BY <1>1, FS_Subset, FS_CardinalityType

LEMMA SizeBounded ==
  /\ Cardinality(Keys) \in Nat /\ Size \in Nat /\ Size <= Cardinality(Keys)
  /\ Size = Cardinality(Entered)
<1>1. Entered \subseteq Keys /\ Size = Cardinality(Entered)
  BY DEF Entered, Size
<1> QED BY <1>1, KeysFinite

(* Two sets that share nothing are together as large as their sizes added.  *)
LEMMA DisjointUnion ==
  ASSUME NEW S, NEW T, IsFiniteSet(S), IsFiniteSet(T), S \cap T = {}
  PROVE  /\ IsFiniteSet(S \cup T)
         /\ Cardinality(S \cup T) = Cardinality(S) + Cardinality(T)
<1>1. Cardinality(S \cap T) = 0
  BY FS_EmptySet
<1>2. Cardinality(S) \in Nat /\ Cardinality(T) \in Nat
  BY FS_CardinalityType
<1>3. /\ IsFiniteSet(S \cup T)
      /\ Cardinality(S \cup T)
           = Cardinality(S) + Cardinality(T) - Cardinality(S \cap T)
  BY FS_Union
<1> QED BY <1>1, <1>2, <1>3

(* A sum that goes on to the next sub-table has that one behind it.         *)
LEMMA NextSub ==
  ASSUME NEW S, S \subseteq Keys, NEW n \in Nat
  PROVE  /\ Cardinality(At(S, n)) \in Nat
         /\ Cardinality(Below(S, n)) \in Nat /\ Cardinality(From(S, n)) \in Nat
         /\ Cardinality(Below(S, n + 1)) \in Nat /\ Cardinality(From(S, n + 1)) \in Nat
         /\ Cardinality(Below(S, n + 1)) = Cardinality(Below(S, n)) + Cardinality(At(S, n))
         /\ Cardinality(From(S, n)) = Cardinality(From(S, n + 1)) + Cardinality(At(S, n))
<1>1. \A k \in S : SubOf[k] \in Nat
  BY TableAssumption
<1>2. /\ Below(S, n + 1) = Below(S, n) \cup At(S, n) /\ Below(S, n) \cap At(S, n) = {}
      /\ From(S, n) = From(S, n + 1) \cup At(S, n) /\ From(S, n + 1) \cap At(S, n) = {}
  BY <1>1 DEF Below, From, At
<1>3. /\ At(S, n) \subseteq Keys
      /\ Below(S, n) \subseteq Keys /\ From(S, n) \subseteq Keys
      /\ Below(S, n + 1) \subseteq Keys /\ From(S, n + 1) \subseteq Keys
  BY DEF At, Below, From
<1>4. /\ IsFiniteSet(At(S, n)) /\ IsFiniteSet(Below(S, n)) /\ IsFiniteSet(From(S, n + 1))
  BY <1>3, FS_Subset, TableAssumption
<1>5. Cardinality(Below(S, n) \cup At(S, n)) = Cardinality(Below(S, n)) + Cardinality(At(S, n))
  BY <1>2, <1>4, DisjointUnion
<1>6. Cardinality(From(S, n + 1) \cup At(S, n))
        = Cardinality(From(S, n + 1)) + Cardinality(At(S, n))
  BY <1>2, <1>4, DisjointUnion
<1>7. /\ Cardinality(At(S, n)) \in Nat
      /\ Cardinality(Below(S, n)) \in Nat /\ Cardinality(From(S, n)) \in Nat
      /\ Cardinality(Below(S, n + 1)) \in Nat /\ Cardinality(From(S, n + 1)) \in Nat
  BY <1>3, KeysFinite
<1> QED BY <1>2, <1>5, <1>6, <1>7

(* An operation of which a thread is in the middle goes to one sub-table.   *)
LEMMA SubIs ==
  ASSUME TableIInv, NEW t \in Threads, pc[t] \in {"lock", "act", "store", "unlock"}
  PROVE  /\ key[t] \in Keys /\ Sub(t) \in Subs
         /\ op[t] \in usage \ {"size"} /\ op[t] \in Operations
<1>1. key[t] \in Keys /\ op[t] \in usage \ {"size"} /\ usage \in Usages
  BY DEF TableIInv, Locals, TableTypeOK
<1> QED BY <1>1, TableAssumption DEF Sub, Subs

LEMMA TableInitInv ==
  ASSUME TableInit
  PROVE  TableIInv
<1>1. /\ SUB_NUM \in Nat /\ 0 \in 0 .. SUB_NUM
      /\ Cardinality(Keys) \in Nat /\ 0 \in 0 .. Cardinality(Keys)
  BY TableAssumption, SizeBounded
<1>2. TableTypeOK
  BY <1>1 DEF TableInit, TableTypeOK
<1>3. Locals /\ Exclusive /\ Summed
  BY DEF TableInit, Locals, Exclusive, Summed
<1> QED BY <1>2, <1>3 DEF TableIInv

(* The sums stay right while the table grows.                               *)
LEMMA GrowingSums ==
  ASSUME TableIInv, Entered \subseteq Entered', UNCHANGED <<i, size, floor>>,
         \A d \in Threads : pc'[d] = "size" => pc[d] = "size"
  PROVE  Summed'
<1> SUFFICES ASSUME NEW d \in Threads, pc'[d] = "size"
             PROVE  /\ size'[d] <= Cardinality(Below(Entered', i'[d]))
                    /\ floor'[d] <= size'[d] + Cardinality(From(Entered', i'[d]))
  BY DEF Summed
<1>1. pc[d] = "size" /\ size'[d] = size[d] /\ floor'[d] = floor[d] /\ i'[d] = i[d]
  OBVIOUS
<1>2. size[d] \in Nat /\ floor[d] \in Nat
  BY SizeBounded DEF TableIInv, TableTypeOK
<1>3. /\ size[d] <= Cardinality(Below(Entered, i[d]))
      /\ floor[d] <= size[d] + Cardinality(From(Entered, i[d]))
  BY <1>1 DEF TableIInv, Summed
<1>4. Entered' \subseteq Keys
  BY DEF Entered
<1>5. /\ Below(Entered', i[d]) \subseteq Keys /\ Below(Entered, i[d]) \subseteq Below(Entered', i[d])
      /\ From(Entered', i[d]) \subseteq Keys /\ From(Entered, i[d]) \subseteq From(Entered', i[d])
  BY <1>4 DEF Below, From
<1>6. /\ Cardinality(Below(Entered, i[d])) \in Nat /\ Cardinality(Below(Entered', i[d])) \in Nat
      /\ Cardinality(Below(Entered, i[d])) <= Cardinality(Below(Entered', i[d]))
  BY <1>5, KeysFinite
<1>7. /\ Cardinality(From(Entered, i[d])) \in Nat /\ Cardinality(From(Entered', i[d])) \in Nat
      /\ Cardinality(From(Entered, i[d])) <= Cardinality(From(Entered', i[d]))
  BY <1>5, KeysFinite
<1> QED BY <1>1, <1>2, <1>3, <1>6, <1>7

(* Nobody else is between test and insertion in the sub-table that a writer *)
(* of it changes.                                                           *)
LEMMA NobodyElse ==
  ASSUME TableIInv, NEW t \in Threads, pc[t] \in {"act", "store", "unlock"}, op[t] \in Writers,
         NEW d \in Threads \ {t}, pc[d] \in {"act", "store", "unlock"}, op[d] \in Writers
  PROVE  Sub(d) # Sub(t)
BY DEF TableIInv, Exclusive

(* A call with its operation and arguments.                                 *)
CallWith(t, o, k, v) ==
  /\ Goto(t, "idle", IF o = "size" THEN "size" ELSE "lock")
  /\ op' = [op EXCEPT ![t] = o]
  /\ key' = [key EXCEPT ![t] = k]
  /\ val' = [val EXCEPT ![t] = v]
  /\ floor' = [floor EXCEPT ![t] = Size]
  /\ i' = [i EXCEPT ![t] = FirstSub]
  /\ size' = [size EXCEPT ![t] = 0]
  /\ UNCHANGED <<ht, lockVars, result>>

LEMMA CallArgs ==
  ASSUME NEW t, Call(t)
  PROVE  \E o \in usage : \E k \in KeyArgs(o), v \in ValArgs(o) : CallWith(t, o, k, v)
BY Zenon DEF Call, CallWith

-----------------------------------------------------------------------------
LEMMA CallInv ==
  ASSUME TableIInv, NEW t \in Threads, Call(t), usage' = usage
  PROVE  TableIInv'
<1> USE DEF TableIInv
<1>1. PICK o \in usage : \E k \in KeyArgs(o), v \in ValArgs(o) : CallWith(t, o, k, v)
  BY CallArgs, Zenon
<1>2. PICK k \in KeyArgs(o), v \in ValArgs(o) : CallWith(t, o, k, v)
  BY <1>1, Zenon
<1>3. /\ pc[t] = "idle"
      /\ floor' = [floor EXCEPT ![t] = Size]
      /\ pc' = [pc EXCEPT ![t] = IF o = "size" THEN "size" ELSE "lock"]
      /\ op' = [op EXCEPT ![t] = o]
      /\ key' = [key EXCEPT ![t] = k]
      /\ val' = [val EXCEPT ![t] = v]
      /\ i' = [i EXCEPT ![t] = 0] /\ size' = [size EXCEPT ![t] = 0]
      /\ UNCHANGED <<ht, writer, readers, result>>
  BY <1>2 DEF CallWith, Goto, FirstSub, lockVars
<1>4. /\ k \in Keys \cup {Null} /\ (o # "size" => k \in Keys)
      /\ v \in Vals \cup {Null} /\ (o \in {"insert", "try_insert"} => v \in Vals)
  BY DEF KeyArgs, ValArgs
<1>5. /\ pc'[t] = (IF o = "size" THEN "size" ELSE "lock")
      /\ op'[t] = o /\ key'[t] = k /\ val'[t] = v
      /\ floor'[t] = Size /\ i'[t] = 0 /\ size'[t] = 0 /\ result'[t] = result[t]
      /\ Others(t)
  BY <1>3 DEF TableTypeOK, Others
<1>6. TableTypeOK'
  <2>1. /\ SUB_NUM \in Nat /\ 0 \in 0 .. SUB_NUM
        /\ 0 \in 0 .. Cardinality(Keys) /\ Size \in 0 .. Cardinality(Keys)
    BY TableAssumption, SizeBounded
  <2>2. /\ i' \in [Threads -> 0 .. SUB_NUM] /\ size' \in [Threads -> 0 .. Cardinality(Keys)]
        /\ floor' \in [Threads -> 0 .. Cardinality(Keys)]
    BY <1>3, <2>1 DEF TableTypeOK
  <2>3. /\ op' \in [Threads -> usage \cup {Null}] /\ key' \in [Threads -> Keys \cup {Null}]
        /\ val' \in [Threads -> Vals \cup {Null}]
    BY <1>3, <1>4 DEF TableTypeOK
  <2>4. pc' \in [Threads -> PCs]
    BY <1>3 DEF TableTypeOK, PCs
  <2> QED BY <1>3, <2>2, <2>3, <2>4 DEF TableTypeOK, PCs
<1>7. Locals'
  BY <1>3, <1>4, <1>5 DEF Locals, Others
<1>8. Exclusive'
  BY <1>3, <1>5 DEF Exclusive, Others, Sub
<1>9. Summed'
  <2>1. /\ Entered' = Entered /\ Entered \subseteq Keys
        /\ Below(Entered, 0) = {} /\ From(Entered, 0) = Entered
    BY <1>3, TableAssumption DEF Entered, Below, From
  <2>2. Size \in Nat /\ Size = Cardinality(Entered) /\ Cardinality({}) = 0
    BY SizeBounded, FS_EmptySet
  <2>3. /\ size'[t] <= Cardinality(Below(Entered', i'[t]))
        /\ floor'[t] <= size'[t] + Cardinality(From(Entered', i'[t]))
    <3>1. /\ Cardinality(Below(Entered', i'[t])) = 0
          /\ Cardinality(From(Entered', i'[t])) = Size
      BY <1>5, <2>1, <2>2
    <3> QED BY <1>5, <2>2, <3>1
  <2>4. ASSUME NEW d \in Threads \ {t}, pc'[d] = "size"
        PROVE  /\ size'[d] <= Cardinality(Below(Entered', i'[d]))
               /\ floor'[d] <= size'[d] + Cardinality(From(Entered', i'[d]))
    BY <1>5, <2>1, <2>4 DEF Summed, Others
  <2> QED BY <2>3, <2>4 DEF Summed
<1> QED BY <1>6, <1>7, <1>8, <1>9

LEMMA LockWriteInv ==
  ASSUME TableIInv, NEW t \in Threads, LockWrite(t), usage' = usage
  PROVE  TableIInv'
<1> USE DEF TableIInv
<1>1. /\ op[t] \in Writers /\ pc[t] = "lock" /\ pc' = [pc EXCEPT ![t] = "act"]
      /\ writer[Sub(t)] = Null
      /\ writer' = [writer EXCEPT ![Sub(t)] = t]
      /\ UNCHANGED <<ht, readers, op, key, val, floor, i, size, result>>
  BY DEF LockWrite, Goto, LockFree, callVars, sizeVars
<1>2. Sub(t) \in Subs
  BY <1>1, SubIs
<1>3. pc'[t] = "act" /\ Others(t)
  BY <1>1 DEF TableTypeOK, Others
<1>4. TableTypeOK'
  BY <1>1, <1>2 DEF TableTypeOK
<1>5. Locals'
  BY <1>1, <1>3 DEF Locals, Others
<1>6. Exclusive'
  <2>1. writer'[Sub(t)] = t /\ \A d \in Threads : Sub(d)' = Sub(d)
    BY <1>1, <1>2 DEF TableTypeOK, Sub
  <2>2. ASSUME NEW d \in Threads \ {t}, pc[d] \in {"act", "store", "unlock"}, op[d] \in Writers
        PROVE  writer'[Sub(d)] = d
    <3>1. writer[Sub(d)] = d /\ d # Null
      BY <2>2, TableAssumption DEF Exclusive
    <3>2. Sub(d) # Sub(t) /\ Sub(d) \in Subs
      BY <1>1, <2>2, <3>1, SubIs
    <3> QED BY <1>1, <3>1, <3>2 DEF TableTypeOK
  <2> QED BY <1>1, <1>3, <2>1, <2>2 DEF Exclusive, Others
<1>7. Summed'
  BY <1>1, <1>3, GrowingSums DEF Others, Entered
<1> QED BY <1>4, <1>5, <1>6, <1>7

LEMMA LockReadInv ==
  ASSUME TableIInv, NEW t \in Threads, LockRead(t), usage' = usage
  PROVE  TableIInv'
<1> USE DEF TableIInv
<1>1. /\ op[t] = "lookup" /\ pc[t] = "lock" /\ pc' = [pc EXCEPT ![t] = "act"]
      /\ readers' = [readers EXCEPT ![Sub(t)] = @ \cup {t}]
      /\ UNCHANGED <<ht, writer, op, key, val, floor, i, size, result>>
  BY DEF LockRead, Goto, callVars, sizeVars
<1>2. Sub(t) \in Subs
  BY <1>1, SubIs
<1>3. pc'[t] = "act" /\ Others(t)
  BY <1>1 DEF TableTypeOK, Others
<1>4. TableTypeOK'
  BY <1>1, <1>2 DEF TableTypeOK
<1>5. Locals'
  BY <1>1, <1>3 DEF Locals, Others
<1>6. Exclusive'
  BY <1>1, <1>3 DEF Exclusive, Others, Sub, Writers
<1>7. Summed'
  BY <1>1, <1>3, GrowingSums DEF Others, Entered
<1> QED BY <1>4, <1>5, <1>6, <1>7

(* A step of t from one place to the next that returns a result, leaves the *)
(* locks as they are and the table no smaller.                              *)
LEMMA ActInv ==
  ASSUME TableIInv, NEW t \in Threads, usage' = usage,
         pc[t] \in {"act", "store"}, op[t] \in Writers \cup {"lookup"},
         NEW to \in {"store", "unlock"}, pc' = [pc EXCEPT ![t] = to],
         NEW r \in Results, result' = [result EXCEPT ![t] = r],
         to = "store" => op[t] = "try_insert" /\ r = 0 /\ ht[key[t]] = Null,
         UNCHANGED <<writer, readers, op, key, val, floor, i, size>>,
         ht' \in [Keys -> Vals \cup {Null}],
         op[t] # "remove" => Entered \subseteq Entered',
         to = "store" => ht' = ht,
         op[t] \notin Writers => ht' = ht,
         \A k \in Keys : k # key[t] => ht'[k] = ht[k]
  PROVE  TableIInv'
<1> USE DEF TableIInv
<1>1. /\ pc'[t] = to /\ result'[t] = r /\ Others(t)
  BY DEF TableTypeOK, Others
<1>2. TableTypeOK'
  BY DEF TableTypeOK, Results
<1>3. Locals'
  BY <1>1 DEF Locals, Others
<1>4. Exclusive'
  <2>1. \A d \in Threads : Sub(d)' = Sub(d)
    BY DEF Sub
  <2>2. ASSUME NEW d \in Threads \ {t}, pc[d] = "store"
        PROVE  ht'[key[d]] = ht[key[d]]
    <3>1. CASE op[t] \in Writers
      <4>1. op[d] \in Writers
        BY <2>2 DEF Exclusive, Writers
      <4>2. Sub(d) # Sub(t)
        BY <2>2, <3>1, <4>1, NobodyElse
      <4>3. key[d] # key[t] /\ key[d] \in Keys
        BY <2>2, <4>2, SubIs DEF Sub
      <4> QED BY <4>3
    <3>2. CASE op[t] \notin Writers
      BY <3>2
    <3> QED BY <3>1, <3>2
  <2>3. op[t] \in Writers => writer'[Sub(t)] = t
    BY DEF Exclusive
  <2> QED BY <1>1, <2>1, <2>2, <2>3 DEF Exclusive, Others
<1>5. Summed'
  <2>1. \A d \in Threads : pc'[d] = "size" => pc[d] = "size"
    BY <1>1 DEF Others
  <2>2. CASE op[t] # "remove"
    BY <2>1, <2>2, GrowingSums
  <2>3. CASE op[t] = "remove"
    <3>1. "remove" \in usage /\ usage \in Usages
      BY <2>3 DEF Locals, TableTypeOK
    <3>2. \A d \in Threads : pc[d] # "size"
      BY <3>1, UsageAssumption DEF Locals
    <3> QED BY <2>1, <3>2 DEF Summed
  <2> QED BY <2>2, <2>3
<1> QED BY <1>2, <1>3, <1>4, <1>5

LEMMA InsertInv ==
  ASSUME TableIInv, NEW t \in Threads, Insert(t), usage' = usage
  PROVE  TableIInv'
<1> DEFINE r == Gboolean(ht[key[t]] = Null)
<1>1. /\ op[t] = "insert" /\ pc[t] = "act" /\ pc' = [pc EXCEPT ![t] = "unlock"]
      /\ result' = [result EXCEPT ![t] = r]
      /\ ht' = [ht EXCEPT ![key[t]] = val[t]]
      /\ UNCHANGED <<writer, readers, op, key, val, floor, i, size>>
  BY DEF Insert, Goto, NewValue, lockVars, callVars, sizeVars
<1>2. r \in {0, 1} /\ r \in Results
  BY SizeBounded DEF Gboolean, Results
<1> HIDE DEF r
<1>3. key[t] \in Keys /\ val[t] \in Vals /\ val[t] # Null
  BY <1>1, TableAssumption DEF TableIInv, Locals
<1>4. ht' \in [Keys -> Vals \cup {Null}] /\ \A k \in Keys : k # key[t] => ht'[k] = ht[k]
  BY <1>1, <1>3 DEF TableIInv, TableTypeOK
<1>5. Entered \subseteq Entered'
  BY <1>1, <1>3 DEF Entered, TableIInv, TableTypeOK
<1> QED BY <1>1, <1>2, <1>4, <1>5, ActInv DEF Writers

LEMMA TestKeyInv ==
  ASSUME TableIInv, NEW t \in Threads, TestKey(t), usage' = usage
  PROVE  TableIInv'
<1> DEFINE r == Gboolean(ht[key[t]] # Null)
           to == IF ht[key[t]] # Null THEN "unlock" ELSE "store"
<1>1. /\ op[t] = "try_insert" /\ pc[t] = "act" /\ pc' = [pc EXCEPT ![t] = to]
      /\ result' = [result EXCEPT ![t] = r]
      /\ UNCHANGED <<ht, writer, readers, op, key, val, floor, i, size>>
  BY DEF TestKey, Goto, lockVars, callVars, sizeVars
<1>2. r \in {0, 1} /\ r \in Results
  BY SizeBounded DEF Gboolean, Results
<1>3. to \in {"store", "unlock"} /\ (to = "store" => r = 0 /\ ht[key[t]] = Null)
  BY DEF Gboolean
<1> HIDE DEF r, to
<1>4. ht' \in [Keys -> Vals \cup {Null}] /\ Entered' = Entered
  BY <1>1 DEF TableIInv, TableTypeOK, Entered
<1> QED BY <1>1, <1>2, <1>3, <1>4, ActInv DEF Writers

LEMMA StoreKeyInv ==
  ASSUME TableIInv, NEW t \in Threads, StoreKey(t), usage' = usage
  PROVE  TableIInv'
<1>1. /\ pc[t] = "store" /\ pc' = [pc EXCEPT ![t] = "unlock"]
      /\ ht' = [ht EXCEPT ![key[t]] = val[t]]
      /\ UNCHANGED <<writer, readers, op, key, val, floor, i, size, result>>
  BY DEF StoreKey, Goto, lockVars, callVars, sizeVars
<1>2. op[t] = "try_insert" /\ key[t] \in Keys /\ val[t] \in Vals /\ val[t] # Null
  BY <1>1, TableAssumption DEF TableIInv, Locals, Exclusive
<1>3. result[t] \in Results /\ result' = [result EXCEPT ![t] = result[t]]
  BY <1>1 DEF TableIInv, TableTypeOK, Results
<1>4. ht' \in [Keys -> Vals \cup {Null}] /\ \A k \in Keys : k # key[t] => ht'[k] = ht[k]
  BY <1>1, <1>2 DEF TableIInv, TableTypeOK
<1>5. Entered \subseteq Entered'
  BY <1>1, <1>2 DEF Entered, TableIInv, TableTypeOK
<1> QED BY <1>1, <1>2, <1>3, <1>4, <1>5, ActInv DEF Writers

LEMMA LookupInv ==
  ASSUME TableIInv, NEW t \in Threads, Lookup(t), usage' = usage
  PROVE  TableIInv'
<1>1. /\ op[t] = "lookup" /\ pc[t] = "act" /\ pc' = [pc EXCEPT ![t] = "unlock"]
      /\ result' = [result EXCEPT ![t] = ht[key[t]]]
      /\ UNCHANGED <<ht, writer, readers, op, key, val, floor, i, size>>
  BY DEF Lookup, Goto, lockVars, callVars, sizeVars
<1>2. ht[key[t]] \in Results
  BY <1>1, SubIs DEF TableIInv, TableTypeOK, Results
<1>3. ht' \in [Keys -> Vals \cup {Null}] /\ Entered' = Entered
  BY <1>1 DEF TableIInv, TableTypeOK, Entered
<1> QED BY <1>1, <1>2, <1>3, ActInv

LEMMA RemoveInv ==
  ASSUME TableIInv, NEW t \in Threads, Remove(t), usage' = usage
  PROVE  TableIInv'
<1> DEFINE r == Gboolean(ht[key[t]] # Null)
<1>1. /\ op[t] = "remove" /\ pc[t] = "act" /\ pc' = [pc EXCEPT ![t] = "unlock"]
      /\ result' = [result EXCEPT ![t] = r]
      /\ ht' = [ht EXCEPT ![key[t]] = Null]
      /\ UNCHANGED <<writer, readers, op, key, val, floor, i, size>>
  BY DEF Remove, Goto, lockVars, callVars, sizeVars
<1>2. r \in {0, 1} /\ r \in Results
  BY SizeBounded DEF Gboolean, Results
<1> HIDE DEF r
<1>3. ht' \in [Keys -> Vals \cup {Null}] /\ \A k \in Keys : k # key[t] => ht'[k] = ht[k]
  BY <1>1 DEF TableIInv, TableTypeOK
<1> QED BY <1>1, <1>2, <1>3, ActInv DEF Writers

LEMMA UnlockInv ==
  ASSUME TableIInv, NEW t \in Threads, Unlock(t), usage' = usage
  PROVE  TableIInv'
<1> USE DEF TableIInv
<1>1. /\ pc[t] = "unlock" /\ pc' = [pc EXCEPT ![t] = "return"]
      /\ UNCHANGED <<ht, op, key, val, floor, i, size, result>>
      /\ \/ /\ op[t] \in Writers
            /\ writer' = [writer EXCEPT ![Sub(t)] = Null] /\ readers' = readers
         \/ /\ op[t] \notin Writers /\ writer' = writer
            /\ readers' = [readers EXCEPT ![Sub(t)] = @ \ {t}]
  BY DEF Unlock, Goto, callVars, sizeVars
<1>2. Sub(t) \in Subs
  BY <1>1, SubIs
<1>3. pc'[t] = "return" /\ Others(t)
  BY <1>1 DEF TableTypeOK, Others
<1>4. TableTypeOK'
  BY <1>1, <1>2 DEF TableTypeOK
<1>5. Locals'
  BY <1>1, <1>3 DEF Locals, Others
<1>6. Exclusive'
  <2>1. \A d \in Threads : Sub(d)' = Sub(d)
    BY <1>1 DEF Sub
  <2>2. ASSUME NEW d \in Threads \ {t}, pc[d] \in {"act", "store", "unlock"}, op[d] \in Writers
        PROVE  writer'[Sub(d)] = d
    <3>1. writer[Sub(d)] = d /\ Sub(d) \in Subs
      BY <2>2, SubIs DEF Exclusive
    <3>2. CASE op[t] \in Writers
      <4>1. Sub(d) # Sub(t)
        BY <1>1, <2>2, <3>2, NobodyElse
      <4> QED BY <1>1, <3>1, <3>2, <4>1 DEF TableTypeOK
    <3>3. CASE op[t] \notin Writers
      BY <1>1, <3>1, <3>3
    <3> QED BY <3>2, <3>3
  <2> QED BY <1>1, <1>3, <2>1, <2>2 DEF Exclusive, Others
<1>7. Summed'
  BY <1>1, <1>3, GrowingSums DEF Others, Entered
<1> QED BY <1>4, <1>5, <1>6, <1>7

LEMMA AddSubInv ==
  ASSUME TableIInv, NEW t \in Threads, AddSub(t), usage' = usage
  PROVE  TableIInv'
<1> USE DEF TableIInv
<1> DEFINE n == Cardinality(At(Entered, i[t]))
<1>1. Entries(i[t]) = At(Entered, i[t])
  BY DEF Entries, At, Entered
<1>2. /\ pc[t] = "size" /\ i[t] < SUB_NUM
      /\ size' = [size EXCEPT ![t] = @ + n]
      /\ i' = [i EXCEPT ![t] = @ + 1]
      /\ UNCHANGED <<ht, writer, readers, pc, op, key, val, floor, result>>
  BY <1>1 DEF AddSub, SubsLeft, Adds, lockVars, callVars
<1>3. /\ i[t] \in 0 .. SUB_NUM /\ i[t] \in Nat /\ size[t] \in Nat /\ floor[t] \in Nat
      /\ SUB_NUM \in Nat /\ Entered \subseteq Keys
  BY SizeBounded, TableAssumption DEF TableTypeOK, Entered
<1>4. /\ n \in Nat
      /\ Cardinality(Below(Entered, i[t])) \in Nat
      /\ Cardinality(From(Entered, i[t])) \in Nat
      /\ Cardinality(Below(Entered, i[t] + 1)) \in Nat
      /\ Cardinality(From(Entered, i[t] + 1)) \in Nat
      /\ Cardinality(Below(Entered, i[t] + 1)) = Cardinality(Below(Entered, i[t])) + n
      /\ Cardinality(From(Entered, i[t])) = Cardinality(From(Entered, i[t] + 1)) + n
  BY <1>3, NextSub
<1> HIDE DEF n
<1>5. /\ size[t] <= Cardinality(Below(Entered, i[t]))
      /\ floor[t] <= size[t] + Cardinality(From(Entered, i[t]))
  BY <1>2 DEF Summed
<1>6. size[t] + n <= Cardinality(Below(Entered, i[t] + 1))
  BY <1>3, <1>4, <1>5
<1>7. floor[t] <= (size[t] + n) + Cardinality(From(Entered, i[t] + 1))
  BY <1>3, <1>4, <1>5
<1>8. size[t] + n \in 0 .. Cardinality(Keys)
  <2>1. Below(Entered, i[t] + 1) \subseteq Keys
    BY <1>3 DEF Below
  <2>2. /\ Cardinality(Below(Entered, i[t] + 1)) <= Cardinality(Keys)
        /\ Cardinality(Keys) \in Nat
    BY <2>1, KeysFinite
  <2> QED BY <1>3, <1>4, <1>6, <2>2
<1>9. i[t] + 1 \in 0 .. SUB_NUM
  BY <1>2, <1>3
<1>10. /\ i'[t] = i[t] + 1 /\ size'[t] = size[t] + n /\ pc'[t] = "size"
       /\ Others(t)
  BY <1>2 DEF TableTypeOK, Others
<1>11. TableTypeOK'
  <2>1. i' \in [Threads -> 0 .. SUB_NUM] /\ size' \in [Threads -> 0 .. Cardinality(Keys)]
    BY <1>2, <1>8, <1>9 DEF TableTypeOK
  <2> QED BY <1>2, <2>1 DEF TableTypeOK
<1>12. Locals'
  BY <1>2 DEF Locals
<1>13. Exclusive'
  BY <1>2 DEF Exclusive, Sub
<1>14. Summed'
  <2>1. Entered' = Entered
    BY <1>2 DEF Entered
  <2>2. /\ size'[t] <= Cardinality(Below(Entered', i'[t]))
        /\ floor'[t] <= size'[t] + Cardinality(From(Entered', i'[t]))
    BY <1>2, <1>6, <1>7, <1>10, <2>1
  <2>3. ASSUME NEW d \in Threads \ {t}, pc[d] = "size"
        PROVE  /\ size'[d] <= Cardinality(Below(Entered', i'[d]))
               /\ floor'[d] <= size'[d] + Cardinality(From(Entered', i'[d]))
    BY <1>10, <2>1, <2>3 DEF Summed, Others
  <2> QED BY <1>2, <2>2, <2>3 DEF Summed
<1> QED BY <1>11, <1>12, <1>13, <1>14

LEMMA EndSizeInv ==
  ASSUME TableIInv, NEW t \in Threads, EndSize(t), usage' = usage
  PROVE  TableIInv'
<1> USE DEF TableIInv
<1>1. /\ pc[t] = "size" /\ pc' = [pc EXCEPT ![t] = "return"]
      /\ result' = [result EXCEPT ![t] = size[t]]
      /\ UNCHANGED <<ht, writer, readers, op, key, val, floor, i, size>>
  BY DEF EndSize, Goto, lockVars, callVars, sizeVars
<1>2. size[t] \in Results
  BY SizeBounded DEF TableTypeOK, Results
<1>3. pc'[t] = "return" /\ Others(t)
  BY <1>1 DEF TableTypeOK, Others
<1>4. TableTypeOK'
  BY <1>1, <1>2 DEF TableTypeOK, Results
<1>5. Locals' /\ Exclusive'
  BY <1>1, <1>3 DEF Locals, Exclusive, Sub, Others
<1>6. Summed'
  BY <1>1, <1>3, GrowingSums DEF Others, Entered
<1> QED BY <1>4, <1>5, <1>6

LEMMA ReturnInv ==
  ASSUME TableIInv, NEW t \in Threads, Return(t), usage' = usage
  PROVE  TableIInv'
<1> USE DEF TableIInv
<1>1. /\ pc[t] = "return" /\ pc' = [pc EXCEPT ![t] = "idle"]
      /\ op' = [op EXCEPT ![t] = Null] /\ key' = [key EXCEPT ![t] = Null]
      /\ val' = [val EXCEPT ![t] = Null] /\ floor' = [floor EXCEPT ![t] = 0]
      /\ i' = [i EXCEPT ![t] = 0] /\ size' = [size EXCEPT ![t] = 0]
      /\ result' = [result EXCEPT ![t] = Null]
      /\ UNCHANGED <<ht, writer, readers>>
  BY DEF Return, Goto, lockVars
<1>2. pc'[t] = "idle" /\ result'[t] = Null /\ Others(t)
  BY <1>1 DEF TableTypeOK, Others
<1>3. TableTypeOK'
  <2>1. 0 \in 0 .. SUB_NUM /\ 0 \in 0 .. Cardinality(Keys)
    BY TableAssumption, SizeBounded
  <2> QED BY <1>1, <2>1 DEF TableTypeOK
<1>4. Locals' /\ Exclusive'
  BY <1>1, <1>2 DEF Locals, Exclusive, Sub, Others
<1>5. Summed'
  BY <1>1, <1>2 DEF Summed, Others, Entered
<1> QED BY <1>3, <1>4, <1>5

LEMMA TableNextInv ==
  ASSUME TableIInv, [TableNext]_tableVars
  PROVE  TableIInv'
<1>1. CASE UNCHANGED tableVars
  BY <1>1 DEF tableVars, lockVars, callVars, sizeVars, TableIInv, TableTypeOK, Locals, Exclusive, Summed,
              Sub, Entered
<1>2. CASE TableNext
  BY <1>2, CallInv, LockWriteInv, LockReadInv, InsertInv, TestKeyInv, StoreKeyInv, LookupInv,
     RemoveInv, UnlockInv, AddSubInv, EndSizeInv, ReturnInv DEF TableNext, ThreadStep
<1> QED BY <1>1, <1>2

(* What the refinement rests on.                                            *)
THEOREM TableInvariance == TableSpec => []TableIInv
<1>1. TableInit => TableIInv
  BY TableInitInv
<1>2. TableIInv /\ [TableNext]_tableVars => TableIInv'
  BY TableNextInv
<1> QED BY <1>1, <1>2, PTL DEF TableSpec

-----------------------------------------------------------------------------
(* The refinement.  What a thread's place means to its caller:              *)
PhaseOf(p) ==
  IF p = "idle" THEN "idle" ELSE IF p \in {"unlock", "return"} THEN "done" ELSE "called"

LEMMA PhaseMoves ==
  ASSUME TableTypeOK, NEW t \in Threads, NEW to, pc' = [pc EXCEPT ![t] = to]
  PROVE  /\ absPhase[t] = PhaseOf(pc[t])
         /\ absPhase' = [absPhase EXCEPT ![t] = PhaseOf(to)]
<1>1. pc'[t] = to /\ \A d \in Threads \ {t} : pc'[d] = pc[d]
  BY DEF TableTypeOK
<1>2. /\ absPhase = [d \in Threads |-> PhaseOf(pc[d])]
      /\ absPhase' = [d \in Threads |-> PhaseOf(pc'[d])]
  BY DEF absPhase, PhaseOf
<1> QED BY <1>1, <1>2

(* The caller sees no result before the operation took effect.              *)
LEMMA ResultMoves ==
  ASSUME TableTypeOK, NEW t \in Threads, NEW to, pc' = [pc EXCEPT ![t] = to],
         NEW r, result' = [result EXCEPT ![t] = r]
  PROVE  absResult' = [absResult EXCEPT ![t] = IF to = "store" THEN Null ELSE r]
<1>1. /\ pc'[t] = to /\ result'[t] = r
      /\ \A d \in Threads \ {t} : pc'[d] = pc[d] /\ result'[d] = result[d]
  BY DEF TableTypeOK
<1> QED BY <1>1 DEF absResult

LEMMA SamePhase ==
  ASSUME TableTypeOK, NEW t \in Threads, NEW to, pc' = [pc EXCEPT ![t] = to],
         PhaseOf(to) = PhaseOf(pc[t])
  PROVE  absPhase' = absPhase
<1>1. /\ absPhase[t] = PhaseOf(pc[t])
      /\ absPhase' = [absPhase EXCEPT ![t] = PhaseOf(to)]
  BY PhaseMoves
<1> QED BY <1>1 DEF absPhase

LEMMA SameResult ==
  ASSUME TableTypeOK, NEW t \in Threads, NEW to, pc' = [pc EXCEPT ![t] = to],
         to # "store", pc[t] # "store", result' = result
  PROVE  absResult' = absResult
<1>1. /\ pc'[t] = to
      /\ \A d \in Threads \ {t} : pc'[d] = pc[d]
  BY DEF TableTypeOK
<1> QED BY <1>1 DEF absResult

LEMMA SameSize == Abstract!Size = Size
BY DEF Abstract!Size, Size, Abstract!Cardinality, Cardinality

LEMMA InitImplements ==
  ASSUME TableInit
  PROVE  Abstract!Init
<1>1. absPhase = [t \in Threads |-> "idle"] /\ absResult = [t \in Threads |-> Null]
  BY DEF TableInit, absPhase, absResult
<1> QED BY <1>1 DEF TableInit, Abstract!Init

LEMMA CallImplements ==
  ASSUME TableIInv, NEW t \in Threads, Call(t)
  PROVE  Abstract!Call(t)
<1>1. PICK o \in usage : \E k \in KeyArgs(o), v \in ValArgs(o) : CallWith(t, o, k, v)
  BY CallArgs, Zenon
<1>2. PICK k \in KeyArgs(o), v \in ValArgs(o) : CallWith(t, o, k, v)
  BY <1>1, Zenon
<1>3. /\ pc[t] = "idle" /\ pc' = [pc EXCEPT ![t] = IF o = "size" THEN "size" ELSE "lock"]
      /\ op' = [op EXCEPT ![t] = o] /\ key' = [key EXCEPT ![t] = k]
      /\ val' = [val EXCEPT ![t] = v] /\ floor' = [floor EXCEPT ![t] = Size]
      /\ UNCHANGED <<ht, result>>
  BY <1>2 DEF CallWith, Goto
<1>4. absPhase[t] = "idle" /\ absPhase' = [absPhase EXCEPT ![t] = "called"]
  <2> DEFINE to == IF o = "size" THEN "size" ELSE "lock"
  <2>1. PhaseOf(to) = "called" /\ PhaseOf(pc[t]) = "idle" /\ pc' = [pc EXCEPT ![t] = to]
    BY <1>3 DEF PhaseOf
  <2> HIDE DEF to
  <2>2. absPhase[t] = PhaseOf(pc[t]) /\ absPhase' = [absPhase EXCEPT ![t] = PhaseOf(to)]
    BY <2>1, PhaseMoves DEF TableIInv
  <2> QED BY <2>1, <2>2
<1>5. absResult' = absResult
  BY <1>3, SameResult DEF TableIInv
<1>6. /\ o \in UNION Usages /\ k \in Abstract!KeyArgs(o) /\ v \in Abstract!ValArgs(o)
      /\ Abstract!Size = Size
  <2>1. usage \in Usages
    BY DEF TableIInv, TableTypeOK
  <2> QED BY <2>1, <1>2, SameSize DEF KeyArgs, ValArgs, Abstract!KeyArgs, Abstract!ValArgs
<1> QED BY <1>3, <1>4, <1>5, <1>6, Zenon DEF Abstract!Call

(* The step in which an operation of t takes effect.                        *)
LEMMA TakesEffect ==
  ASSUME TableIInv, NEW t \in Threads, pc[t] \in {"act", "store", "size"},
         NEW to \in {"unlock", "return"}, pc' = [pc EXCEPT ![t] = to],
         NEW r, result' = [result EXCEPT ![t] = r],
         UNCHANGED <<op, key, val, floor>>
  PROVE  Abstract!Finishes(t, r)
<1>1. absPhase[t] = "called" /\ absPhase' = [absPhase EXCEPT ![t] = "done"]
  BY PhaseMoves DEF PhaseOf, TableIInv
<1>2. absResult' = [absResult EXCEPT ![t] = r]
  BY ResultMoves DEF TableIInv
<1> QED BY <1>1, <1>2 DEF Abstract!Finishes

LEMMA InsertImplements ==
  ASSUME TableIInv, NEW t \in Threads, Insert(t)
  PROVE  Abstract!Insert(t)
<1>1. /\ op[t] = "insert" /\ pc[t] = "act" /\ pc' = [pc EXCEPT ![t] = "unlock"]
      /\ result' = [result EXCEPT ![t] = IF ht[key[t]] = Null THEN 1 ELSE 0]
      /\ ht' = [ht EXCEPT ![key[t]] = val[t]]
      /\ UNCHANGED <<op, key, val, floor>>
  BY DEF Insert, Goto, NewValue, Gboolean, callVars
<1>2. Abstract!Finishes(t, IF ht[key[t]] = Null THEN 1 ELSE 0)
  BY <1>1, TakesEffect
<1> QED BY <1>1, <1>2 DEF Abstract!Insert

(* A try_insert that finds its key takes effect in the test ...             *)
LEMMA TestKeyImplements ==
  ASSUME TableIInv, NEW t \in Threads, TestKey(t)
  PROVE  Abstract!TryInsert(t) \/ UNCHANGED Abstract!vars
<1>1. /\ op[t] = "try_insert" /\ pc[t] = "act"
      /\ UNCHANGED <<ht, op, key, val, floor>>
  BY DEF TestKey, Goto, callVars
<1>2. CASE ht[key[t]] # Null
  <2>1. /\ pc' = [pc EXCEPT ![t] = "unlock"] /\ result' = [result EXCEPT ![t] = 1]
    BY <1>2 DEF TestKey, Goto, Gboolean
  <2>2. Abstract!Finishes(t, 1)
    BY <1>1, <2>1, TakesEffect
  <2> QED BY <1>1, <1>2, <2>2 DEF Abstract!TryInsert
<1>3. CASE ht[key[t]] = Null
  <2>1. /\ pc' = [pc EXCEPT ![t] = "store"] /\ result' = [result EXCEPT ![t] = 0]
    BY <1>3 DEF TestKey, Goto, Gboolean
  <2>2. absPhase' = absPhase
    BY <1>1, <2>1, SamePhase DEF PhaseOf, TableIInv
  <2>3. absResult' = [absResult EXCEPT ![t] = Null]
    BY <2>1, ResultMoves DEF TableIInv
  <2>4. absResult[t] = Null
    BY <1>1 DEF absResult, TableIInv, Locals
  <2>5. absResult' = absResult
    BY <2>3, <2>4 DEF absResult
  <2> QED BY <1>1, <2>2, <2>5 DEF Abstract!vars
<1> QED BY <1>2, <1>3

(* ... and one that does not when it stores: it still is not there.         *)
LEMMA StoreKeyImplements ==
  ASSUME TableIInv, NEW t \in Threads, StoreKey(t)
  PROVE  Abstract!TryInsert(t)
<1>1. /\ pc[t] = "store" /\ pc' = [pc EXCEPT ![t] = "unlock"]
      /\ ht' = [ht EXCEPT ![key[t]] = val[t]]
      /\ UNCHANGED <<op, key, val, floor, result>>
  BY DEF StoreKey, Goto, callVars
<1>2. op[t] = "try_insert" /\ result[t] = 0 /\ ht[key[t]] = Null
  BY <1>1 DEF TableIInv, Exclusive
<1>3. result' = [result EXCEPT ![t] = 0]
  BY <1>1, <1>2 DEF TableIInv, TableTypeOK
<1>4. Abstract!Finishes(t, 0)
  BY <1>1, <1>3, TakesEffect
<1> QED BY <1>1, <1>2, <1>4 DEF Abstract!TryInsert

LEMMA LookupImplements ==
  ASSUME TableIInv, NEW t \in Threads, Lookup(t)
  PROVE  Abstract!Lookup(t)
<1>1. /\ op[t] = "lookup" /\ pc[t] = "act" /\ pc' = [pc EXCEPT ![t] = "unlock"]
      /\ result' = [result EXCEPT ![t] = ht[key[t]]]
      /\ UNCHANGED <<ht, op, key, val, floor>>
  BY DEF Lookup, Goto, callVars
<1>2. Abstract!Finishes(t, ht[key[t]])
  BY <1>1, TakesEffect
<1> QED BY <1>1, <1>2 DEF Abstract!Lookup

LEMMA RemoveImplements ==
  ASSUME TableIInv, NEW t \in Threads, Remove(t)
  PROVE  Abstract!Remove(t)
<1>1. /\ op[t] = "remove" /\ pc[t] = "act" /\ pc' = [pc EXCEPT ![t] = "unlock"]
      /\ result' = [result EXCEPT ![t] = IF ht[key[t]] # Null THEN 1 ELSE 0]
      /\ ht' = [ht EXCEPT ![key[t]] = Null]
      /\ UNCHANGED <<op, key, val, floor>>
  BY DEF Remove, Goto, Gboolean, callVars
<1>2. Abstract!Finishes(t, IF ht[key[t]] # Null THEN 1 ELSE 0)
  BY <1>1, TakesEffect
<1> QED BY <1>1, <1>2 DEF Abstract!Remove

(* size returns what it summed up: what was there at the call at least,     *)
(* and no more than is there now.                                           *)
LEMMA EndSizeImplements ==
  ASSUME TableIInv, NEW t \in Threads, EndSize(t)
  PROVE  Abstract!Count(t)
<1>1. /\ pc[t] = "size" /\ pc' = [pc EXCEPT ![t] = "return"] /\ i[t] = SUB_NUM
      /\ result' = [result EXCEPT ![t] = size[t]]
      /\ UNCHANGED <<ht, op, key, val, floor>>
  BY DEF EndSize, Goto, callVars
<1>2. op[t] = "size"
  BY <1>1 DEF TableIInv, Locals
<1>3. Below(Entered, SUB_NUM) = Entered /\ From(Entered, SUB_NUM) = {}
  <2>1. \A k \in Entered : SubOf[k] \in 0 .. SUB_NUM - 1
    BY TableAssumption DEF Entered
  <2>2. \A k \in Entered : SubOf[k] < SUB_NUM /\ ~(SubOf[k] >= SUB_NUM)
    BY <2>1, TableAssumption
  <2> QED BY <2>2 DEF Below, From
<1>4. size[t] \in floor[t] .. Size
  <2>1. Cardinality(From(Entered, SUB_NUM)) = 0
    BY <1>3, FS_EmptySet
  <2>2. /\ size[t] <= Cardinality(Below(Entered, SUB_NUM))
        /\ floor[t] <= size[t] + Cardinality(From(Entered, SUB_NUM))
    BY <1>1 DEF TableIInv, Summed
  <2>3. size[t] \in Nat /\ floor[t] \in Nat /\ Size \in Nat /\ Size = Cardinality(Entered)
    BY SizeBounded DEF TableIInv, TableTypeOK
  <2>4. size[t] <= Size /\ floor[t] <= size[t]
    BY <1>3, <2>1, <2>2, <2>3
  <2> QED BY <2>3, <2>4
<1>5. Abstract!Finishes(t, size[t])
  BY <1>1, TakesEffect
<1>6. Abstract!Size = Size
  BY SameSize
<1> QED BY <1>1, <1>2, <1>4, <1>5, <1>6 DEF Abstract!Count

LEMMA ReturnImplements ==
  ASSUME TableIInv, NEW t \in Threads, Return(t)
  PROVE  Abstract!Return(t)
<1>1. /\ pc[t] = "return" /\ pc' = [pc EXCEPT ![t] = "idle"]
      /\ op' = [op EXCEPT ![t] = Null] /\ key' = [key EXCEPT ![t] = Null]
      /\ val' = [val EXCEPT ![t] = Null] /\ floor' = [floor EXCEPT ![t] = 0]
      /\ result' = [result EXCEPT ![t] = Null] /\ ht' = ht
  BY DEF Return, Goto
<1>2. absPhase[t] = "done" /\ absPhase' = [absPhase EXCEPT ![t] = "idle"]
  BY <1>1, PhaseMoves DEF PhaseOf, TableIInv
<1>3. absResult' = [absResult EXCEPT ![t] = Null]
  BY <1>1, ResultMoves DEF TableIInv
<1> QED BY <1>1, <1>2, <1>3 DEF Abstract!Return

(* Taking or releasing a lock and adding up a sub-table is not visible.     *)
LEMMA HiddenStep ==
  ASSUME TableIInv, NEW t \in Threads,
         LockWrite(t) \/ LockRead(t) \/ Unlock(t) \/ AddSub(t)
  PROVE  UNCHANGED Abstract!vars
<1>1. UNCHANGED <<ht, op, key, val, floor, result>>
  BY DEF LockWrite, LockRead, Unlock, AddSub, callVars, sizeVars
<1>2. CASE AddSub(t)
  <2>1. pc' = pc
    BY <1>2 DEF AddSub
  <2>2. absPhase' = absPhase /\ absResult' = absResult
    BY <1>1, <2>1 DEF absPhase, absResult
  <2> QED BY <1>1, <2>2 DEF Abstract!vars
<1>3. CASE LockWrite(t) \/ LockRead(t) \/ Unlock(t)
  <2>1. \/ pc[t] = "lock" /\ pc' = [pc EXCEPT ![t] = "act"]
        \/ pc[t] = "unlock" /\ pc' = [pc EXCEPT ![t] = "return"]
    BY <1>3 DEF LockWrite, LockRead, Unlock, Goto
  <2>2. absPhase' = absPhase
    BY <2>1, SamePhase DEF PhaseOf, TableIInv
  <2>3. absResult' = absResult
    BY <1>1, <2>1, SameResult DEF TableIInv
  <2> QED BY <1>1, <2>2, <2>3 DEF Abstract!vars
<1> QED BY <1>2, <1>3

LEMMA StepImplements ==
  ASSUME TableIInv, [TableNext]_tableVars
  PROVE  [Abstract!Next]_(Abstract!vars)
<1>1. CASE UNCHANGED tableVars
  <2>1. UNCHANGED <<ht, op, key, val, floor, result, pc>>
    BY <1>1 DEF tableVars, callVars
  <2> QED BY <2>1 DEF Abstract!vars, absPhase, absResult
<1>2. ASSUME NEW t \in Threads, ThreadStep(t)
      PROVE  \/ UNCHANGED Abstract!vars
             \/ Abstract!Call(t) \/ Abstract!Insert(t) \/ Abstract!TryInsert(t)
             \/ Abstract!Lookup(t) \/ Abstract!Remove(t) \/ Abstract!Count(t)
             \/ Abstract!Return(t)
  BY <1>2, CallImplements, InsertImplements, TestKeyImplements, StoreKeyImplements,
     LookupImplements, RemoveImplements, EndSizeImplements, ReturnImplements, HiddenStep
     DEF ThreadStep
<1> QED BY <1>1, <1>2 DEF TableNext, Abstract!Next

(* The operations of a cHashTable are atomic, for any number of threads,    *)
(* keys and sub-tables: an insertion tells one caller only that the key was *)
(* new, a lookup returns the key's value, and a size lies between the       *)
(* number of entries at the call and at the return, though it takes no lock *)
(* (concurrent_hashtable.c:79).                                             *)
THEOREM TableIsAtomic == TableSpec => ImplementsAtomicMap
<1>1. TableInit => Abstract!Init
  BY InitImplements
<1>2. TableIInv /\ [TableNext]_tableVars => [Abstract!Next]_(Abstract!vars)
  BY StepImplements
<1>3. TableIInv => TableTypeOK
  BY DEF TableIInv
<1> QED BY <1>1, <1>2, <1>3, TableInvariance, PTL DEF TableSpec, ImplementsAtomicMap, Abstract!Spec

-----------------------------------------------------------------------------
(*                      The main loop and its pool                         *)

(* A connection waits in the backlog once, from connect to accept, and is   *)
(* in epoll only after that; the listening socket is reported only while    *)
(* somebody waits.                                                          *)
Lined ==
  /\ \A c \in Conns : link[c] = "backlog" <=> \E k \in DOMAIN backlog : backlog[k] = c
  /\ \A j, k \in DOMAIN backlog : backlog[j] = backlog[k] => j = k
  /\ \A c \in Conns : link[c] # "open" => epoll[c] = "out"
  /\ Listen \in events => backlog # <<>>

(* Events are there only to be dispatched, a busy worker has a connection,  *)
(* and the main thread that has drained the pool finds it empty for ever.   *)
Phases ==
  /\ mpc # "dispatch" => events = {}
  /\ \A w \in Workers : wfd[w] = None <=> wpc[w] = "free"
  /\ mpc \in {"free", "closed"} => PoolDone
  /\ tables = "freed" => mpc = "closed"

IInv == TypeOK /\ OneHandler /\ NoneForgotten /\ Lined /\ Phases /\ TimerOnce

places == <<link, backlog, epoll, mpc, events, pool, wfd, tables>>

-----------------------------------------------------------------------------
(* A sequence that names nothing twice is no longer than what it can name.  *)
LEMMA NoLonger ==
  ASSUME NEW S, IsFiniteSet(S), NEW q \in Seq(S),
         \A j, k \in DOMAIN q : q[j] = q[k] => j = k
  PROVE  Len(q) <= Cardinality(S)
<1>1. Len(q) \in Nat /\ DOMAIN q = 1 .. Len(q)
  OBVIOUS
<1>2. q \in Injection(1 .. Len(q), S)
  <2>1. q \in [1 .. Len(q) -> S]
    BY <1>1
  <2>2. \A j, k \in 1 .. Len(q) : q[j] = q[k] => j = k
    BY <1>1
  <2> QED BY <2>1, <2>2 DEF Injection, IsInjective
<1>3. Cardinality(1 .. Len(q)) <= Cardinality(S)
  BY <1>2, FS_Injection
<1>4. Cardinality(1 .. Len(q)) = IF 1 > Len(q) THEN 0 ELSE Len(q) - 1 + 1
  BY <1>1, FS_Interval
<1>5. Cardinality(S) \in Nat
  BY FS_CardinalityType
<1> QED BY <1>1, <1>3, <1>4, <1>5

(* What appending to a sequence, and taking its head away, changes.         *)
LEMMA Appended ==
  ASSUME NEW S, NEW q \in Seq(S), NEW y \in S
  PROVE  LET a == Append(q, y)
             n == Len(q) + 1 IN
         /\ a \in Seq(S) /\ a[n] = y /\ a # <<>>
         /\ DOMAIN a = DOMAIN q \cup {n} /\ n \notin DOMAIN q
         /\ \A k \in DOMAIN q : a[k] = q[k]
OBVIOUS

LEMMA HeadAndTail ==
  ASSUME NEW S, NEW q \in Seq(S), q # <<>>
  PROVE  /\ Head(q) \in S /\ Tail(q) \in Seq(S)
         /\ 1 \in DOMAIN q /\ q[1] = Head(q)
         /\ \A k \in DOMAIN Tail(q) :
              k + 1 \in DOMAIN q /\ k + 1 # 1 /\ Tail(q)[k] = q[k + 1]
         /\ \A k \in DOMAIN q : k = 1 \/ (k - 1 \in DOMAIN Tail(q) /\ Tail(q)[k - 1] = q[k])
         /\ \A j, k \in DOMAIN Tail(q) : j # k => j + 1 # k + 1
         /\ Len(Tail(q)) <= Len(q)
OBVIOUS

LEMMA InitInv ==
  ASSUME Init
  PROVE  IInv
<1>1. Cardinality(Conns) \in Nat
  BY FS_CardinalityType, ConstantAssumption
<1>2. TypeOK
  BY <1>1, ConstantAssumption DEF Init, TypeOK, WPCs
<1>3. OneHandler /\ NoneForgotten
  BY ConstantAssumption DEF Init, OneHandler, NoneForgotten, Queued, Handled
<1>4. Lined
  BY DEF Init, Lined
<1>5. Phases
  BY DEF Init, Phases
<1>6. TimerOnce
  BY DEF Init, TimerOnce
<1> QED BY <1>2, <1>3, <1>4, <1>5, <1>6 DEF IInv

(* A step of a worker or a peer that moves no connection.                   *)
LEMMA NothingMoves ==
  ASSUME OneHandler, NoneForgotten, Lined, Phases, UNCHANGED places,
         \A w \in Workers : wpc'[w] = "free" <=> wpc[w] = "free"
  PROVE  OneHandler' /\ NoneForgotten' /\ Lined' /\ Phases'
<1>1. /\ \A c \in Conns : Queued(c)' = Queued(c)
      /\ \A c \in Conns : Handled(c)' = Handled(c)
  BY DEF places, Queued, Handled
<1>2. OneHandler'
  BY <1>1 DEF OneHandler, Queued, Handled, places
<1>3. NoneForgotten'
  BY <1>1 DEF NoneForgotten, places
<1>4. Lined'
  BY DEF Lined, places
<1>5. Phases'
  BY DEF Phases, PoolDone, places
<1> QED BY <1>2, <1>3, <1>4, <1>5

-----------------------------------------------------------------------------
LEMMA ConnectInv ==
  ASSUME IInv, NEW c \in Conns, Connect(c)
  PROVE  IInv'
<1> USE DEF IInv
<1>1. /\ link[c] = "none" /\ link' = [link EXCEPT ![c] = "backlog"]
      /\ backlog' = Append(backlog, c)
      /\ UNCHANGED <<toSend, inbox, waiting, gone, epoll, mpc, events, pool, wpc, wfd,
                     wmsg, alive, timer, destroyed, report, tables, replied, counted>>
  BY DEF Connect, mainVars, workVars, deathVars
<1>2. /\ link'[c] = "backlog" /\ \A d \in Conns \ {c} : link'[d] = link[d]
      /\ backlog \in Seq(Conns)
  BY <1>1 DEF TypeOK
<1> DEFINE n == Len(backlog) + 1
<1>3. /\ backlog' \in Seq(Conns) /\ backlog'[n] = c /\ backlog' # <<>>
      /\ DOMAIN backlog' = DOMAIN backlog \cup {n} /\ n \notin DOMAIN backlog
      /\ \A k \in DOMAIN backlog : backlog'[k] = backlog[k]
  BY <1>1, <1>2, Appended
<1> HIDE DEF n
<1>4. TypeOK'
  BY <1>1, <1>3 DEF TypeOK
<1>5. OneHandler' /\ NoneForgotten' /\ Phases' /\ TimerOnce'
  <2>1. /\ \A d \in Conns : Queued(d)' = Queued(d)
        /\ \A d \in Conns : Handled(d)' = Handled(d)
    BY <1>1 DEF Queued, Handled
  <2>2. OneHandler'
    BY <1>1, <2>1 DEF OneHandler, Queued, Handled
  <2>3. NoneForgotten'
    BY <1>1, <2>1 DEF NoneForgotten
  <2>4. Phases' /\ TimerOnce'
    BY <1>1 DEF Phases, PoolDone, TimerOnce
  <2> QED BY <2>2, <2>3, <2>4
<1>6. Lined'
  <2>1. \A k \in DOMAIN backlog : backlog[k] # c
    BY <1>1 DEF Lined
  <2>2. \A d \in Conns : link'[d] = "backlog" <=> \E k \in DOMAIN backlog' : backlog'[k] = d
    BY <1>2, <1>3, <2>1 DEF Lined
  <2>3. \A j, k \in DOMAIN backlog' : backlog'[j] = backlog'[k] => j = k
    BY <1>3, <2>1 DEF Lined
  <2>4. \A d \in Conns : link'[d] # "open" => epoll'[d] = "out"
    BY <1>1, <1>2 DEF Lined
  <2> QED BY <1>3, <2>2, <2>3, <2>4 DEF Lined
<1> QED BY <1>4, <1>5, <1>6

LEMMA SendInv ==
  ASSUME IInv, NEW c \in Conns, Send(c)
  PROVE  IInv'
<1> USE DEF IInv
<1>1. /\ toSend[c] # <<>>
      /\ inbox' = [inbox EXCEPT ![c] = Append(@, Head(toSend[c]))]
      /\ waiting' = [waiting EXCEPT ![c] =
                       \/ Head(toSend[c]) = "rest"
                       \/ (Head(toSend[c]) = "shutdown" /\ c \in Awaits)]
      /\ toSend' = [toSend EXCEPT ![c] = Tail(@)]
      /\ UNCHANGED <<link, backlog, gone, epoll, mpc, events, pool, wpc, wfd,
                     wmsg, alive, timer, destroyed, report, tables, replied, counted>>
  BY DEF Send, mainVars, workVars, deathVars
<1>2. toSend[c] \in Seq(Parts) /\ inbox[c] \in Seq(Parts)
  BY DEF TypeOK
<1>3. Head(toSend[c]) \in Parts /\ Tail(toSend[c]) \in Seq(Parts)
  BY <1>1, <1>2, HeadAndTail
<1>4. Append(inbox[c], Head(toSend[c])) \in Seq(Parts)
  BY <1>2, <1>3, Appended
<1>5. waiting' \in [Conns -> BOOLEAN]
  BY <1>1, Zenon DEF TypeOK
<1>6. TypeOK'
  BY <1>1, <1>3, <1>4, <1>5 DEF TypeOK
<1>7. OneHandler' /\ NoneForgotten' /\ Lined' /\ Phases'
  BY <1>1, NothingMoves DEF places
<1> QED BY <1>1, <1>6, <1>7 DEF TimerOnce

LEMMA CloseInv ==
  ASSUME IInv, NEW c \in Conns, Close(c)
  PROVE  IInv'
<1> USE DEF IInv
<1>1. /\ gone' = [gone EXCEPT ![c] = TRUE]
      /\ UNCHANGED <<link, backlog, toSend, inbox, waiting, epoll, mpc, events, pool, wpc,
                     wfd, wmsg, alive, timer, destroyed, report, tables, replied, counted>>
  BY DEF Close, mainVars, workVars, deathVars
<1>2. TypeOK'
  BY <1>1 DEF TypeOK
<1>3. OneHandler' /\ NoneForgotten' /\ Lined' /\ Phases'
  BY <1>1, NothingMoves DEF places
<1> QED BY <1>1, <1>2, <1>3 DEF TimerOnce

LEMMA AbortInv ==
  ASSUME IInv, NEW c \in Conns, Abort(c)
  PROVE  IInv'
<1> USE DEF IInv
<1>1. /\ gone' = [gone EXCEPT ![c] = TRUE]
      /\ waiting' = [waiting EXCEPT ![c] = FALSE]
      /\ toSend' = [toSend EXCEPT ![c] = <<>>]
      /\ UNCHANGED <<link, backlog, inbox, epoll, mpc, events, pool, wpc,
                     wfd, wmsg, alive, timer, destroyed, report, tables, replied, counted>>
  BY DEF Abort, mainVars, workVars, deathVars
<1>2. TypeOK'
  BY <1>1 DEF TypeOK
<1>3. OneHandler' /\ NoneForgotten' /\ Lined' /\ Phases'
  BY <1>1, NothingMoves DEF places
<1> QED BY <1>1, <1>2, <1>3 DEF TimerOnce

-----------------------------------------------------------------------------
(* A step of the main thread to another place in its loop.                  *)
LEMMA MainGoesOn ==
  ASSUME IInv, UNCHANGED <<peerVars, epoll, events, pool, workVars, deathVars, replied, counted>>,
         mpc' \in {"test", "wait", "dispatch", "drain", "free", "closed"},
         tables' \in {"live", "freed"},
         mpc' # "dispatch" => events = {},
         mpc' \in {"free", "closed"} => PoolDone,
         tables' = "freed" => mpc' = "closed"
  PROVE  IInv'
<1> USE DEF IInv, peerVars, workVars, deathVars
<1>1. /\ \A c \in Conns : Queued(c)' = Queued(c)
      /\ \A c \in Conns : Handled(c)' = Handled(c)
  BY DEF Queued, Handled
<1>2. TypeOK'
  BY DEF TypeOK
<1>3. OneHandler'
  BY <1>1 DEF OneHandler, Queued, Handled
<1>4. NoneForgotten'
  BY <1>1 DEF NoneForgotten
<1>5. Lined'
  BY DEF Lined
<1>6. Phases'
  BY DEF Phases, PoolDone
<1> QED BY <1>2, <1>3, <1>4, <1>5, <1>6 DEF TimerOnce

LEMMA TestAliveInv ==
  ASSUME IInv, TestAlive
  PROVE  IInv'
<1>1. mpc = "test" /\ mpc' \in {"wait", "drain"} /\ tables' = tables
  BY DEF TestAlive
<1>2. events = {} /\ tables # "freed" /\ tables \in {"live", "freed"}
  BY <1>1 DEF IInv, Phases, TypeOK
<1> QED BY <1>1, <1>2, MainGoesOn DEF TestAlive

LEMMA EndDispatchInv ==
  ASSUME IInv, EndDispatch
  PROVE  IInv'
<1>1. mpc = "dispatch" /\ events = {} /\ mpc' = "test" /\ tables' = tables
  BY DEF EndDispatch
<1>2. tables # "freed" /\ tables \in {"live", "freed"}
  BY <1>1 DEF IInv, Phases, TypeOK
<1> QED BY <1>1, <1>2, MainGoesOn DEF EndDispatch

LEMMA DrainPoolInv ==
  ASSUME IInv, DrainPool
  PROVE  IInv'
<1>1. mpc = "drain" /\ mpc' = "free" /\ tables' = tables /\ PoolDone
  BY DEF DrainPool
<1>2. events = {} /\ tables # "freed" /\ tables \in {"live", "freed"}
  BY <1>1 DEF IInv, Phases, TypeOK
<1> QED BY <1>1, <1>2, MainGoesOn DEF DrainPool

LEMMA FreeGlobalsInv ==
  ASSUME IInv, FreeGlobals
  PROVE  IInv'
<1>1. mpc = "free" /\ mpc' = "closed" /\ tables' = "freed"
  BY DEF FreeGlobals
<1>2. events = {} /\ PoolDone
  BY <1>1 DEF IInv, Phases
<1> QED BY <1>1, <1>2, MainGoesOn DEF FreeGlobals

LEMMA EpollWaitInv ==
  ASSUME IInv, EpollWait
  PROVE  IInv'
<1> USE DEF IInv
<1>1. PICK some \in SUBSET Ready :
        /\ events' = some
        /\ epoll' = [c \in Conns |-> IF c \in some THEN WhenReported(c) ELSE epoll[c]]
  BY DEF EpollWait
<1>2. /\ mpc = "wait" /\ mpc' = "dispatch"
      /\ UNCHANGED <<link, backlog, toSend, inbox, waiting, gone, pool, wpc, wfd, wmsg,
                     alive, timer, destroyed, report, tables, replied, counted>>
  BY DEF EpollWait, peerVars, workVars, deathVars
<1>3. events = {}
  BY <1>2 DEF Phases
<1>4. /\ \A c \in Conns : c \in some => epoll[c] = "armed" /\ epoll'[c] = "disarmed"
      /\ \A c \in Conns : c \notin some => epoll'[c] = epoll[c]
      /\ some \subseteq Conns \cup {Listen}
      /\ Listen \in some => backlog # <<>>
  BY <1>1, ConstantAssumption DEF Ready, WhenReported
<1>5. TypeOK'
  <2>1. epoll' \in [Conns -> {"out", "armed", "disarmed"}]
    BY <1>1 DEF TypeOK, WhenReported
  <2> QED BY <1>1, <1>2, <1>4, <2>1 DEF TypeOK
<1>6. /\ \A c \in Conns : Queued(c)' = Queued(c)
      /\ \A c \in Conns : Handled(c)' = Handled(c)
  BY <1>2 DEF Queued, Handled
<1>7. \A c \in Conns : c \in some => ~Queued(c) /\ ~Handled(c)
  BY <1>4 DEF OneHandler
<1>8. OneHandler'
  <2>1. \A c \in Conns : epoll'[c] # "disarmed" => c \notin events' /\ ~Queued(c)' /\ ~Handled(c)'
    BY <1>1, <1>4, <1>6 DEF OneHandler
  <2>2. /\ \A v, w \in Workers : v # w /\ wfd'[v] = wfd'[w] => wfd'[v] = None
        /\ \A j, k \in DOMAIN pool' : pool'[j] = pool'[k] => j = k
    BY <1>2 DEF OneHandler
  <2>3. \A k \in DOMAIN pool' : pool'[k] \notin events' /\ \A w \in Workers : wfd'[w] # pool'[k]
    <3>1. ASSUME NEW k \in DOMAIN pool PROVE pool[k] \in Conns /\ Queued(pool[k])
      BY DEF TypeOK, Queued
    <3>2. \A k \in DOMAIN pool : pool[k] \notin some
      BY <3>1, <1>7
    <3>3. \A k \in DOMAIN pool : \A w \in Workers : wfd[w] # pool[k]
      BY <1>2 DEF OneHandler, Handled
    <3> QED BY <1>1, <1>2, <3>2, <3>3
  <2>4. \A w \in Workers : wfd'[w] \notin events'
    <3>1. ASSUME NEW w \in Workers, wfd[w] \in some PROVE FALSE
      <4>1. wfd[w] \in Conns
        BY <3>1, <1>4, ConstantAssumption DEF TypeOK
      <4> QED BY <3>1, <4>1, <1>7 DEF Handled
    <3> QED BY <1>1, <1>2, <3>1
  <2> QED BY <2>1, <2>2, <2>3, <2>4 DEF OneHandler, Handled
<1>9. NoneForgotten'
  BY <1>1, <1>3, <1>4, <1>6 DEF NoneForgotten
<1>10. Lined'
  <2>1. \A c \in Conns : link[c] # "open" => epoll'[c] = "out"
    BY <1>4 DEF Lined
  <2> QED BY <1>1, <1>2, <1>4, <2>1 DEF Lined
<1>11. Phases' /\ TimerOnce'
  BY <1>2 DEF Phases, TimerOnce
<1> QED BY <1>5, <1>8, <1>9, <1>10, <1>11

LEMMA AcceptInv ==
  ASSUME IInv, Accept
  PROVE  IInv'
<1> USE DEF IInv
<1> DEFINE c == Head(backlog)
<1>1. /\ mpc = "dispatch" /\ Listen \in events
      /\ backlog' = Tail(backlog)
      /\ link' = [link EXCEPT ![c] = "open"]
      /\ epoll' = [epoll EXCEPT ![c] = "armed"]
      /\ events' = events \ {Listen}
      /\ UNCHANGED <<toSend, inbox, waiting, gone, mpc, pool, wpc, wfd, wmsg,
                     alive, timer, destroyed, report, tables, replied, counted>>
  BY DEF Accept, workVars, deathVars
<1>2. backlog \in Seq(Conns) /\ backlog # <<>>
  BY <1>1 DEF TypeOK, Lined
<1>3. /\ c \in Conns /\ Tail(backlog) \in Seq(Conns)
      /\ 1 \in DOMAIN backlog /\ backlog[1] = c
      /\ \A k \in DOMAIN Tail(backlog) :
           k + 1 \in DOMAIN backlog /\ k + 1 # 1 /\ Tail(backlog)[k] = backlog[k + 1]
      /\ \A k \in DOMAIN backlog :
           k = 1 \/ (k - 1 \in DOMAIN Tail(backlog) /\ Tail(backlog)[k - 1] = backlog[k])
      /\ \A j, k \in DOMAIN Tail(backlog) : j # k => j + 1 # k + 1
  BY <1>2, HeadAndTail
<1>4. link[c] = "backlog" /\ epoll[c] = "out"
  BY <1>3 DEF Lined
<1>5. /\ link'[c] = "open" /\ epoll'[c] = "armed"
      /\ \A d \in Conns \ {c} : link'[d] = link[d] /\ epoll'[d] = epoll[d]
  BY <1>1, <1>3 DEF TypeOK
<1> HIDE DEF c
<1>6. TypeOK'
  BY <1>1, <1>3 DEF TypeOK
<1>7. /\ \A d \in Conns : Queued(d)' = Queued(d)
      /\ \A d \in Conns : Handled(d)' = Handled(d)
      /\ \A d \in Conns : d \in events' <=> d \in events
  BY <1>1, ConstantAssumption DEF Queued, Handled
<1>8. OneHandler'
  <2>1. \A d \in Conns : epoll'[d] # "disarmed" => d \notin events' /\ ~Queued(d)' /\ ~Handled(d)'
    BY <1>4, <1>5, <1>7 DEF OneHandler
  <2>2. \A k \in DOMAIN pool : pool[k] \notin events' /\ \A w \in Workers : wfd'[w] # pool[k]
    BY <1>1 DEF OneHandler, Handled
  <2>3. \A w \in Workers : wfd[w] \notin events'
    BY <1>1 DEF OneHandler
  <2>4. /\ \A v, w \in Workers : v # w /\ wfd'[v] = wfd'[w] => wfd'[v] = None
        /\ \A j, k \in DOMAIN pool' : pool'[j] = pool'[k] => j = k
    BY <1>1 DEF OneHandler
  <2> QED BY <1>1, <2>1, <2>2, <2>3, <2>4 DEF OneHandler, Handled
<1>9. NoneForgotten'
  BY <1>5, <1>7 DEF NoneForgotten
<1>10. Lined'
  <2>1. \A j, k \in DOMAIN backlog' : backlog'[j] = backlog'[k] => j = k
    BY <1>1, <1>3 DEF Lined
  <2>2. \A k \in DOMAIN backlog' : backlog'[k] # c
    BY <1>1, <1>3 DEF Lined
  <2>3. ASSUME NEW d \in Conns \ {c}
        PROVE  link'[d] = "backlog" <=> \E k \in DOMAIN backlog' : backlog'[k] = d
    <3>1. link'[d] = "backlog" <=> \E k \in DOMAIN backlog : backlog[k] = d
      BY <1>5 DEF Lined
    <3>2. (\E k \in DOMAIN backlog : backlog[k] = d) => \E k \in DOMAIN backlog' : backlog'[k] = d
      BY <1>1, <1>3
    <3>3. (\E k \in DOMAIN backlog' : backlog'[k] = d) => \E k \in DOMAIN backlog : backlog[k] = d
      BY <1>1, <1>3
    <3> QED BY <3>1, <3>2, <3>3
  <2>4. \A d \in Conns : link'[d] # "open" => epoll'[d] = "out"
    BY <1>5 DEF Lined
  <2> QED BY <1>1, <1>5, <2>1, <2>2, <2>3, <2>4 DEF Lined
<1>11. Phases' /\ TimerOnce'
  BY <1>1 DEF Phases, TimerOnce
<1> QED BY <1>6, <1>8, <1>9, <1>10, <1>11

LEMMA PushInv ==
  ASSUME IInv, NEW c \in Conns, Push(c)
  PROVE  IInv'
<1> USE DEF IInv
<1>1. /\ mpc = "dispatch" /\ c \in events
      /\ pool' = Append(pool, c) /\ events' = events \ {c}
      /\ UNCHANGED <<link, backlog, toSend, inbox, waiting, gone, epoll, mpc, wpc, wfd, wmsg,
                     alive, timer, destroyed, report, tables, replied, counted>>
  BY DEF Push, peerVars, workVars, deathVars
<1>2. pool \in Seq(Conns)
  BY DEF TypeOK
<1> DEFINE n == Len(pool) + 1
<1>3. /\ pool' \in Seq(Conns) /\ pool'[n] = c
      /\ DOMAIN pool' = DOMAIN pool \cup {n} /\ n \notin DOMAIN pool
      /\ \A k \in DOMAIN pool : pool'[k] = pool[k]
  BY <1>1, <1>2, Appended
<1> HIDE DEF n
<1>4. epoll[c] = "disarmed" /\ ~Handled(c) /\ \A k \in DOMAIN pool : pool[k] # c
  BY <1>1 DEF OneHandler, Handled
<1>5. /\ \A d \in Conns : Handled(d)' = Handled(d)
      /\ \A d \in Conns \ {c} : Queued(d)' = Queued(d)
      /\ \A d \in Conns \ {c} : d \in events' <=> d \in events
      /\ Queued(c)' /\ c \notin events'
  <2>1. \A d \in Conns : Handled(d)' = Handled(d)
    BY <1>1 DEF Handled
  <2>2. Queued(c)' /\ \A d \in Conns \ {c} : Queued(d)' = Queued(d)
    BY <1>3 DEF Queued
  <2> QED BY <1>1, <2>1, <2>2
<1>6. \A j, k \in DOMAIN pool' : pool'[j] = pool'[k] => j = k
  BY <1>3, <1>4 DEF OneHandler
<1>7. TypeOK'
  <2>1. Len(pool') <= Cardinality(Conns)
    BY <1>3, <1>6, NoLonger, ConstantAssumption
  <2> QED BY <1>1, <1>3, <2>1 DEF TypeOK
<1>8. OneHandler'
  <2>1. \A d \in Conns : epoll'[d] # "disarmed" => d \notin events' /\ ~Queued(d)' /\ ~Handled(d)'
    BY <1>1, <1>4, <1>5 DEF OneHandler
  <2>2. \A k \in DOMAIN pool' : pool'[k] \notin events' /\ \A w \in Workers : wfd'[w] # pool'[k]
    BY <1>1, <1>3, <1>4 DEF OneHandler, Handled
  <2>3. \A w \in Workers : wfd'[w] \notin events'
    BY <1>1 DEF OneHandler
  <2>4. \A v, w \in Workers : v # w /\ wfd'[v] = wfd'[w] => wfd'[v] = None
    BY <1>1 DEF OneHandler
  <2> QED BY <1>6, <2>1, <2>2, <2>3, <2>4 DEF OneHandler, Handled
<1>9. NoneForgotten'
  BY <1>1, <1>5 DEF NoneForgotten
<1>10. Lined'
  BY <1>1 DEF Lined
<1>11. Phases' /\ TimerOnce'
  BY <1>1 DEF Phases, TimerOnce
<1> QED BY <1>7, <1>8, <1>9, <1>10, <1>11

-----------------------------------------------------------------------------
LEMMA StartTaskInv ==
  ASSUME IInv, NEW w \in Workers, StartTask(w)
  PROVE  IInv'
<1> USE DEF IInv
<1> DEFINE c == Head(pool)
<1>1. /\ pool # <<>> /\ wpc[w] = "free"
      /\ wpc' = [wpc EXCEPT ![w] = "recv"]
      /\ wfd' = [wfd EXCEPT ![w] = c]
      /\ pool' = Tail(pool)
      /\ UNCHANGED <<link, backlog, toSend, inbox, waiting, gone, epoll, mpc, events, wmsg,
                     alive, timer, destroyed, report, tables, replied, counted>>
  BY DEF StartTask, Step, peerVars, mainVars, deathVars
<1>2. pool \in Seq(Conns)
  BY DEF TypeOK
<1>3. /\ c \in Conns /\ Tail(pool) \in Seq(Conns)
      /\ 1 \in DOMAIN pool /\ pool[1] = c
      /\ \A k \in DOMAIN Tail(pool) :
           k + 1 \in DOMAIN pool /\ k + 1 # 1 /\ Tail(pool)[k] = pool[k + 1]
      /\ \A k \in DOMAIN pool :
           k = 1 \/ (k - 1 \in DOMAIN Tail(pool) /\ Tail(pool)[k - 1] = pool[k])
      /\ \A j, k \in DOMAIN Tail(pool) : j # k => j + 1 # k + 1
  BY <1>1, <1>2, HeadAndTail
<1> HIDE DEF c
<1>4. /\ wpc'[w] = "recv" /\ wfd'[w] = c /\ wfd[w] = None
      /\ \A v \in Workers \ {w} : wpc'[v] = wpc[v] /\ wfd'[v] = wfd[v]
  BY <1>1, <1>3 DEF TypeOK, Phases
<1>5. /\ epoll[c] = "disarmed" /\ c \notin events
      /\ \A v \in Workers : wfd[v] # c
  BY <1>3 DEF OneHandler, Queued, Handled
<1>6. \A j, k \in DOMAIN pool' : pool'[j] = pool'[k] => j = k
  BY <1>1, <1>3 DEF OneHandler
<1>7. \A k \in DOMAIN pool' : pool'[k] # c /\ \E j \in DOMAIN pool : pool[j] = pool'[k]
  BY <1>1, <1>3 DEF OneHandler
<1>8. TypeOK'
  <2>1. pool' \in Seq(Conns)
    BY <1>1, <1>3
  <2>2. Len(pool') <= Cardinality(Conns)
    BY <1>6, <2>1, NoLonger, ConstantAssumption
  <2>3. wpc' \in [Workers -> WPCs] /\ wfd' \in [Workers -> Conns \cup {None}]
    BY <1>1, <1>3 DEF TypeOK, WPCs
  <2> QED BY <1>1, <2>1, <2>2, <2>3 DEF TypeOK
<1>9. OneHandler'
  <2>1. ASSUME NEW d \in Conns, epoll'[d] # "disarmed"
        PROVE  d \notin events' /\ ~Queued(d)' /\ ~Handled(d)'
    <3>1. d # c /\ d \notin events /\ ~Queued(d) /\ ~Handled(d)
      BY <1>1, <1>5, <2>1 DEF OneHandler
    <3>2. ~Queued(d)'
      BY <1>7, <3>1 DEF Queued
    <3>3. ~Handled(d)'
      BY <1>4, <3>1 DEF Handled
    <3> QED BY <1>1, <3>1, <3>2, <3>3
  <2>2. \A u, v \in Workers : u # v /\ wfd'[u] = wfd'[v] => wfd'[u] = None
    BY <1>4, <1>5 DEF OneHandler
  <2>3. \A k \in DOMAIN pool' : pool'[k] \notin events' /\ \A v \in Workers : wfd'[v] # pool'[k]
    BY <1>1, <1>4, <1>7 DEF OneHandler, Handled
  <2>4. \A v \in Workers : wfd'[v] \notin events'
    BY <1>1, <1>4, <1>5 DEF OneHandler
  <2> QED BY <1>6, <2>1, <2>2, <2>3, <2>4 DEF OneHandler, Handled
<1>10. NoneForgotten'
  <2> SUFFICES ASSUME NEW d \in Conns, epoll'[d] = "disarmed"
               PROVE  d \in events' \/ Queued(d)' \/ Handled(d)'
    BY DEF NoneForgotten
  <2>1. CASE d \in events
    BY <1>1, <2>1
  <2>2. CASE Queued(d)
    <3>1. PICK k \in DOMAIN pool : pool[k] = d
      BY <2>2 DEF Queued
    <3>2. CASE k = 1
      BY <1>3, <1>4, <3>1, <3>2 DEF Handled
    <3>3. CASE k # 1
      BY <1>1, <1>3, <3>1, <3>3 DEF Queued
    <3> QED BY <3>2, <3>3
  <2>3. CASE Handled(d)
    <3>1. PICK v \in Workers : wfd[v] = d
      BY <2>3 DEF Handled
    <3>2. v # w
      BY <1>4, <3>1, ConstantAssumption
    <3> QED BY <1>4, <3>1, <3>2 DEF Handled
  <2> QED BY <1>1, <2>1, <2>2, <2>3 DEF NoneForgotten
<1>11. Lined'
  BY <1>1 DEF Lined
<1>12. Phases' /\ TimerOnce'
  <2>1. mpc \notin {"free", "closed"}
    BY <1>1 DEF Phases, PoolDone
  <2>2. \A v \in Workers : wfd'[v] = None <=> wpc'[v] = "free"
    BY <1>3, <1>4, ConstantAssumption DEF Phases
  <2> QED BY <1>1, <2>1, <2>2 DEF Phases, TimerOnce
<1> QED BY <1>8, <1>9, <1>10, <1>11, <1>12

(* A step within a handler keeps its worker busy with its connection.       *)
LEMMA WithinHandler ==
  ASSUME IInv, NEW w \in Workers, NEW to \in WPCs \ {"free"},
         wpc[w] # "free", wpc' = [wpc EXCEPT ![w] = to], UNCHANGED places
  PROVE  /\ OneHandler' /\ NoneForgotten' /\ Lined' /\ Phases'
         /\ wpc' \in [Workers -> WPCs]
<1>1. \A v \in Workers : wpc'[v] = "free" <=> wpc[v] = "free"
  BY DEF IInv, TypeOK
<1>2. wpc' \in [Workers -> WPCs]
  BY DEF IInv, TypeOK
<1> QED BY <1>1, <1>2, NothingMoves DEF IInv

LEMMA HandlerOf ==
  ASSUME IInv, NEW w \in Workers, wpc[w] # "free"
  PROVE  wfd[w] \in Conns
BY DEF IInv, TypeOK, Phases

LEMMA ReceiveNothingInv ==
  ASSUME IInv, NEW w \in Workers, ReceiveNothing(w)
  PROVE  IInv'
<1>1. PICK to \in {"delete", "rearm"} : wpc' = [wpc EXCEPT ![w] = to]
  BY DEF ReceiveNothing, Step
<1>2. /\ wpc[w] = "recv"
      /\ UNCHANGED <<peerVars, epoll, mainVars, pool, wfd, wmsg, deathVars, tables,
                     replied, counted>>
  BY DEF ReceiveNothing
<1>3. /\ OneHandler' /\ NoneForgotten' /\ Lined' /\ Phases'
      /\ wpc' \in [Workers -> WPCs]
  BY <1>1, <1>2, WithinHandler DEF places, peerVars, mainVars, WPCs
<1>4. TypeOK' /\ TimerOnce'
  BY <1>2, <1>3 DEF IInv, TypeOK, TimerOnce, peerVars, mainVars, deathVars
<1> QED BY <1>3, <1>4 DEF IInv

LEMMA ReceiveTypeInv ==
  ASSUME IInv, NEW w \in Workers, ReceiveType(w)
  PROVE  IInv'
<1> DEFINE c == wfd[w]
<1>1. PICK to \in {"process", "check", "body"} : wpc' = [wpc EXCEPT ![w] = to]
  BY DEF ReceiveType, Step
<1>2. /\ wpc[w] = "recv" /\ inbox[c] # <<>>
      /\ wmsg' = [wmsg EXCEPT ![w] = Head(inbox[c])]
      /\ inbox' = [inbox EXCEPT ![c] = Tail(@)]
      /\ UNCHANGED <<link, backlog, toSend, waiting, gone, epoll, mpc, events, pool, wfd,
                     alive, timer, destroyed, report, tables, replied, counted>>
  BY DEF ReceiveType, mainVars, deathVars
<1>3. c \in Conns
  BY <1>2, HandlerOf
<1> HIDE DEF c
<1>4. inbox[c] \in Seq(Parts)
  BY <1>3 DEF IInv, TypeOK
<1>5. Head(inbox[c]) \in Parts /\ Tail(inbox[c]) \in Seq(Parts)
  BY <1>2, <1>4, HeadAndTail
<1>6. /\ OneHandler' /\ NoneForgotten' /\ Lined' /\ Phases'
      /\ wpc' \in [Workers -> WPCs]
  BY <1>1, <1>2, WithinHandler DEF places, WPCs
<1>7. TypeOK' /\ TimerOnce'
  BY <1>2, <1>5, <1>6 DEF IInv, TypeOK, TimerOnce
<1> QED BY <1>6, <1>7 DEF IInv

LEMMA ReceiveRestInv ==
  ASSUME IInv, NEW w \in Workers, ReceiveRest(w)
  PROVE  IInv'
<1> DEFINE c == wfd[w]
<1>1. /\ wpc[w] = "body"
      /\ UNCHANGED <<link, backlog, toSend, waiting, gone, epoll, mpc, events, pool, wfd, wmsg,
                     alive, timer, destroyed, report, tables, replied, counted>>
  BY DEF ReceiveRest, mainVars, deathVars
<1>2. /\ \E to \in {"process", "delete"} : wpc' = [wpc EXCEPT ![w] = to]
      /\ inbox' = inbox \/ (inbox[c] # <<>> /\ inbox' = [inbox EXCEPT ![c] = Tail(@)])
  BY DEF ReceiveRest, Step
<1>3. c \in Conns
  BY <1>1, HandlerOf
<1> HIDE DEF c
<1>4. inbox' \in [Conns -> Seq(Parts)]
  <2>1. CASE inbox' = inbox
    BY <2>1 DEF IInv, TypeOK
  <2>2. CASE inbox[c] # <<>> /\ inbox' = [inbox EXCEPT ![c] = Tail(@)]
    <3>1. inbox[c] \in Seq(Parts)
      BY <1>3 DEF IInv, TypeOK
    <3>2. Tail(inbox[c]) \in Seq(Parts)
      BY <2>2, <3>1, HeadAndTail
    <3> QED BY <2>2, <3>2 DEF IInv, TypeOK
  <2> QED BY <1>2, <2>1, <2>2
<1>5. /\ OneHandler' /\ NoneForgotten' /\ Lined' /\ Phases'
      /\ wpc' \in [Workers -> WPCs]
  BY <1>1, <1>2, WithinHandler DEF places, WPCs
<1>6. TypeOK' /\ TimerOnce'
  BY <1>1, <1>4, <1>5 DEF IInv, TypeOK, TimerOnce
<1> QED BY <1>5, <1>6 DEF IInv

LEMMA ProcessInv ==
  ASSUME IInv, NEW w \in Workers, Process(w)
  PROVE  IInv'
<1>1. /\ wpc[w] = "process"
      /\ waiting' = [waiting EXCEPT ![wfd[w]] = @ /\ wmsg[w] = "eof"]
      /\ replied' = IF wmsg[w] = "segment" THEN replied + 1 ELSE replied
      /\ UNCHANGED <<link, backlog, toSend, inbox, gone, epoll, mpc, events, pool, wfd, wmsg,
                     alive, timer, destroyed, report, tables, counted>>
  BY DEF Process, Step, mainVars, deathVars
<1>2. PICK to \in {"recv", "count"} : wpc' = [wpc EXCEPT ![w] = to]
  BY DEF Process, Step
<1>3. waiting' \in [Conns -> BOOLEAN]
  BY <1>1, Zenon DEF IInv, TypeOK
<1>4. replied' \in Nat
  BY <1>1 DEF IInv, TypeOK
<1>5. /\ OneHandler' /\ NoneForgotten' /\ Lined' /\ Phases'
      /\ wpc' \in [Workers -> WPCs]
  BY <1>1, <1>2, WithinHandler DEF places, WPCs
<1>6. TypeOK' /\ TimerOnce'
  BY <1>1, <1>3, <1>4, <1>5 DEF IInv, TypeOK, TimerOnce
<1> QED BY <1>5, <1>6 DEF IInv

LEMMA CountInv ==
  ASSUME IInv, NEW w \in Workers, Count(w)
  PROVE  IInv'
<1>1. /\ wpc[w] = "count" /\ wpc' = [wpc EXCEPT ![w] = "recv"]
      /\ counted' = IF wmsg[w] = "segment" THEN counted + 1 ELSE counted
      /\ UNCHANGED <<peerVars, epoll, mainVars, pool, wfd, wmsg, deathVars, tables, replied>>
  BY DEF Count, Step
<1>2. counted' \in Nat
  BY <1>1 DEF IInv, TypeOK
<1>3. /\ OneHandler' /\ NoneForgotten' /\ Lined' /\ Phases'
      /\ wpc' \in [Workers -> WPCs]
  BY <1>1, WithinHandler DEF places, WPCs, peerVars, mainVars
<1>4. TypeOK' /\ TimerOnce'
  BY <1>1, <1>2, <1>3 DEF IInv, TypeOK, TimerOnce, peerVars, mainVars, deathVars
<1> QED BY <1>3, <1>4 DEF IInv

LEMMA CheckAliveInv ==
  ASSUME IInv, NEW w \in Workers, CheckAlive(w)
  PROVE  IInv'
<1>1. /\ wpc[w] = "check"
      /\ UNCHANGED <<peerVars, epoll, mainVars, pool, wfd, wmsg, deathVars, tables,
                     replied, counted>>
  BY DEF CheckAlive, Step
<1>2. PICK to \in {"kill", "recv"} : wpc' = [wpc EXCEPT ![w] = to]
  BY DEF CheckAlive, Step
<1>3. /\ OneHandler' /\ NoneForgotten' /\ Lined' /\ Phases'
      /\ wpc' \in [Workers -> WPCs]
  BY <1>1, <1>2, WithinHandler DEF places, WPCs, peerVars, mainVars
<1>4. TypeOK' /\ TimerOnce'
  BY <1>1, <1>3 DEF IInv, TypeOK, TimerOnce, peerVars, mainVars, deathVars
<1> QED BY <1>3, <1>4 DEF IInv

LEMMA KillInv ==
  ASSUME IInv, NEW w \in Workers, Kill(w)
  PROVE  IInv'
<1>1. /\ wpc[w] = "kill" /\ wpc' = [wpc EXCEPT ![w] = "fill"] /\ alive' = FALSE
      /\ UNCHANGED <<peerVars, epoll, mainVars, pool, wfd, wmsg, timer, destroyed,
                     report, tables, replied, counted>>
  BY DEF Kill, Step
<1>2. /\ OneHandler' /\ NoneForgotten' /\ Lined' /\ Phases'
      /\ wpc' \in [Workers -> WPCs]
  BY <1>1, WithinHandler DEF places, WPCs, peerVars, mainVars
<1>3. TypeOK' /\ TimerOnce'
  BY <1>1, <1>2 DEF IInv, TypeOK, TimerOnce, peerVars, mainVars
<1> QED BY <1>2, <1>3 DEF IInv

LEMMA FillStatsInv ==
  ASSUME IInv, NEW w \in Workers, FillStats(w)
  PROVE  IInv'
<1>1. /\ wpc[w] = "fill" /\ wpc' = [wpc EXCEPT ![w] = "timer"]
      /\ report' = IF report = None THEN counted ELSE report
      /\ UNCHANGED <<peerVars, epoll, mainVars, pool, wfd, wmsg, alive, timer,
                     destroyed, tables, replied, counted>>
  BY DEF FillStats, Step
<1>2. report' \in Nat \cup {None}
  BY <1>1 DEF IInv, TypeOK
<1>3. /\ OneHandler' /\ NoneForgotten' /\ Lined' /\ Phases'
      /\ wpc' \in [Workers -> WPCs]
  BY <1>1, WithinHandler DEF places, WPCs, peerVars, mainVars
<1>4. TypeOK' /\ TimerOnce'
  BY <1>1, <1>2, <1>3 DEF IInv, TypeOK, TimerOnce, peerVars, mainVars
<1> QED BY <1>3, <1>4 DEF IInv

(* The second of two shutdown messages finds total_timer gone.              *)
LEMMA StopTimerInv ==
  ASSUME IInv, NEW w \in Workers, StopTimer(w)
  PROVE  IInv'
<1>1. /\ wpc[w] = "timer" /\ wpc' = [wpc EXCEPT ![w] = "recv"]
      /\ timer' = "null"
      /\ destroyed' = IF timer # "null" THEN destroyed + 1 ELSE destroyed
      /\ waiting' = [waiting EXCEPT ![wfd[w]] = FALSE]
      /\ UNCHANGED <<link, backlog, toSend, inbox, gone, epoll, mpc, events, pool, wfd,
                     wmsg, alive, report, tables, replied, counted>>
  BY DEF StopTimer, Step, TimerThere, mainVars
<1>2. destroyed = IF timer = "null" THEN 1 ELSE 0
  BY DEF IInv, TimerOnce
<1>3. TimerOnce'
  BY <1>1, <1>2 DEF TimerOnce
<1>4. /\ OneHandler' /\ NoneForgotten' /\ Lined' /\ Phases'
      /\ wpc' \in [Workers -> WPCs]
  BY <1>1, WithinHandler DEF places, WPCs
<1>5. TypeOK'
  <2>1. waiting' \in [Conns -> BOOLEAN]
    BY <1>1 DEF IInv, TypeOK
  <2>2. destroyed' \in Nat
    BY <1>3, <1>1 DEF TimerOnce
  <2> QED BY <1>1, <1>4, <2>1, <2>2 DEF IInv, TypeOK
<1> QED BY <1>3, <1>4, <1>5 DEF IInv

LEMMA FinishInv ==
  ASSUME IInv, NEW w \in Workers, Finish(w)
  PROVE  IInv'
<1> USE DEF IInv
<1> DEFINE c == wfd[w]
<1>1. PICK how \in {"armed", "out"} : epoll' = [epoll EXCEPT ![c] = how]
  BY DEF Finish, WhenDrained
<1>2. /\ wpc[w] \in {"rearm", "delete"} /\ wpc' = [wpc EXCEPT ![w] = "free"]
      /\ wfd' = [wfd EXCEPT ![w] = None] /\ wmsg' = [wmsg EXCEPT ![w] = None]
      /\ UNCHANGED <<link, backlog, toSend, inbox, waiting, gone, mpc, events, pool,
                     alive, timer, destroyed, report, tables, replied, counted>>
  BY DEF Finish, peerVars, mainVars, deathVars
<1>3. c \in Conns /\ Handled(c)
  BY <1>2, HandlerOf DEF Handled
<1>4. epoll[c] = "disarmed" /\ link[c] = "open"
  BY <1>3 DEF OneHandler, Lined
<1>5. c \notin events /\ ~Queued(c) /\ \A v \in Workers \ {w} : wfd[v] # c
  <2>1. c \notin events
    BY DEF OneHandler
  <2>2. ~Queued(c)
    BY <1>3 DEF OneHandler, Queued
  <2>3. c # None
    BY <1>3, ConstantAssumption
  <2>4. \A v \in Workers \ {w} : wfd[v] # c
    BY <2>3 DEF OneHandler
  <2> QED BY <2>1, <2>2, <2>4
<1> HIDE DEF c
<1>6. /\ epoll'[c] = how /\ \A d \in Conns \ {c} : epoll'[d] = epoll[d]
      /\ wfd'[w] = None /\ wpc'[w] = "free"
      /\ \A v \in Workers \ {w} : wfd'[v] = wfd[v] /\ wpc'[v] = wpc[v]
  BY <1>1, <1>2, <1>3 DEF TypeOK
<1>7. TypeOK'
  BY <1>1, <1>2 DEF TypeOK, WPCs
<1>8. OneHandler'
  <2>1. \A d \in Conns : Handled(d)' => Handled(d) /\ d # c
    BY <1>5, <1>6, ConstantAssumption DEF Handled
  <2>2. \A d \in Conns : Queued(d)' <=> Queued(d)
    BY <1>2 DEF Queued
  <2>3. \A d \in Conns : epoll'[d] # "disarmed" => d \notin events' /\ ~Queued(d)' /\ ~Handled(d)'
    BY <1>2, <1>5, <1>6, <2>1, <2>2 DEF OneHandler
  <2>4. \A u, v \in Workers : u # v /\ wfd'[u] = wfd'[v] => wfd'[u] = None
    BY <1>6 DEF OneHandler
  <2>5. \A k \in DOMAIN pool : pool[k] \in Conns
    BY DEF TypeOK
  <2>6. \A k \in DOMAIN pool' : pool'[k] \notin events' /\ \A v \in Workers : wfd'[v] # pool'[k]
    BY <1>2, <1>6, <2>5, ConstantAssumption DEF OneHandler, Handled
  <2>7. \A v \in Workers : wfd'[v] \notin events'
    BY <1>2, <1>6, ConstantAssumption DEF OneHandler, TypeOK
  <2>8. \A j, k \in DOMAIN pool' : pool'[j] = pool'[k] => j = k
    BY <1>2 DEF OneHandler
  <2> QED BY <2>3, <2>4, <2>6, <2>7, <2>8 DEF OneHandler, Handled
<1>9. NoneForgotten'
  <2>1. \A d \in Conns \ {c} : Handled(d) => Handled(d)'
    <3> SUFFICES ASSUME NEW d \in Conns \ {c}, NEW v \in Workers, wfd[v] = d
                 PROVE  wfd'[v] = d
      BY DEF Handled
    <3> QED BY <1>6 DEF c
  <2>2. \A d \in Conns : Queued(d)' <=> Queued(d)
    BY <1>2 DEF Queued
  <2> QED BY <1>2, <1>6, <2>1, <2>2 DEF NoneForgotten
<1>10. Lined'
  BY <1>2, <1>4, <1>6 DEF Lined
<1>11. Phases' /\ TimerOnce'
  BY <1>2, <1>6 DEF Phases, PoolDone, TimerOnce
<1> QED BY <1>7, <1>8, <1>9, <1>10, <1>11

-----------------------------------------------------------------------------
LEMMA NextInv ==
  ASSUME IInv, [Next]_vars
  PROVE  IInv'
<1>1. CASE UNCHANGED vars
  <2>1. OneHandler' /\ NoneForgotten' /\ Lined' /\ Phases'
    BY <1>1, NothingMoves DEF IInv, vars, peerVars, mainVars, workVars, places
  <2>2. TypeOK' /\ TimerOnce'
    BY <1>1 DEF IInv, vars, peerVars, mainVars, workVars, deathVars, TypeOK, TimerOnce
  <2> QED BY <2>1, <2>2 DEF IInv
<1>2. CASE Main
  BY <1>2, TestAliveInv, EpollWaitInv, AcceptInv, PushInv, EndDispatchInv, DrainPoolInv,
     FreeGlobalsInv DEF Main
<1>3. CASE \E w \in Workers : Handler(w)
  BY <1>3, StartTaskInv, ReceiveNothingInv, ReceiveTypeInv, ReceiveRestInv, ProcessInv,
     CountInv, CheckAliveInv, KillInv, FillStatsInv, StopTimerInv, FinishInv DEF Handler
<1>4. CASE \E c \in Conns : Peer(c)
  BY <1>4, ConnectInv, SendInv, CloseInv, AbortInv DEF Peer
<1> QED BY <1>1, <1>2, <1>3, <1>4 DEF Next, Closed

(* What the theorems below rest on.                                         *)
THEOREM Invariance == Spec => []IInv
<1>1. Init => IInv
  BY InitInv
<1>2. IInv /\ [Next]_vars => IInv'
  BY NextInv
<1> QED BY <1>1, <1>2, PTL DEF Spec

(* A connection is armed, out of epoll, or in exactly one pair of hands:    *)
(* reported, queued or handled.  No message of it is read by two handlers,  *)
(* and none is forgotten when the handler gives it back (main.c:140-228).   *)
THEOREM OnePairOfHands == Spec => []Inv
<1>1. IInv => Inv
  BY DEF IInv, Inv
<1> QED BY <1>1, Invariance, PTL

(* The tables are freed when no handler runs and none can ever start again, *)
(* whatever the peers still send (main.c:327).                              *)
THEOREM TablesOutliveHandlers == Spec => []NoUseAfterFree
<1>1. IInv => NoUseAfterFree
  BY DEF IInv, Phases, PoolDone, NoUseAfterFree
<1> QED BY <1>1, Invariance, PTL

(* However many shutdown messages pass the test of alive_flag at the same   *)
(* time, total_timer is destroyed once (main.c:101-109, 196-199).           *)
THEOREM TimerDestroyedOnce == Spec => []TimerOnce
<1>1. IInv => TimerOnce
  BY DEF IInv
<1> QED BY <1>1, Invariance, PTL
=============================================================================
