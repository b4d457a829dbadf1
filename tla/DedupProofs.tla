----------------------------- MODULE DedupProofs -----------------------------
(***************************************************************************)
(* Deduplication for any number of connections, chunks, segments and       *)
(* sub-tables: every stored chunk is reported once as new, and the storage *)
(* a client is told fits the table, covers the segment and never goes back.*)
(*                                                                         *)
(* The argument: between the test for a chunk and its insertion the lock   *)
(* of its sub-table keeps every other handler from entering it (Excluded), *)
(* so a chunk gets into one reply (OnePlace) and out of it when the client *)
(* is told (SentOrReported).  The table only grows, so a sum taken while   *)
(* others insert lies between what the segment and what the table hold of  *)
(* the sub-tables it has passed (Summed).                                  *)
(***************************************************************************)
EXTENDS Dedup, FiniteSetTheorems, TLAPS

(* The chunks that the reply to c reports as new.                          *)
Reported(c) == Elems(re[c].fp)

(* The handler that is about to enter a chunk holds the lock of its         *)
(* sub-table since it saw that the chunk was not there.                    *)
Excluded ==
  \A c \in Conns : pc[c] = "insert" =>
    /\ i[c] < Len(segment[c])
    /\ fpLock[SubOf[Chunk(c)]] = c
    /\ Chunk(c) \notin fpTable

(* What a handler has gone through is in the table.                        *)
Stored ==
  \A c \in Conns :
    /\ pc[c] # "size" => \A n \in 1 .. i[c] : segment[c][n] \in fpTable
    /\ pc[c] = "size" => Elems(segment[c]) \subseteq fpTable

(* A chunk is in one place of one reply, and its client has not heard of   *)
(* it before; an idle handler has no reply.                                *)
OnePlace ==
  /\ \A c \in Conns : pc[c] = "idle" => re[c].fp = <<>>
  /\ \A c \in Conns : \A n \in DOMAIN re[c].fp :
       /\ re[c].fp[n] \in fpTable
       /\ told[re[c].fp[n]] = 0
  /\ \A c, d \in Conns : \A n \in DOMAIN re[c].fp : \A m \in DOMAIN re[d].fp :
       re[c].fp[n] = re[d].fp[m] => c = d /\ n = m

(* A chunk in the table was sent once or is in a reply; no other was sent. *)
SentOrReported ==
  \A x \in Chunks :
    /\ x \in fpTable => \/ told[x] = 1
                        \/ told[x] = 0 /\ \E c \in Conns : x \in Reported(c)
    /\ x \notin fpTable => told[x] = 0

(* The chunks of a set in one sub-table, in those before it, and from it on. *)
At(S, k) == {x \in S : SubOf[x] = k}
Below(S, k) == {x \in S : SubOf[x] < k}
From(S, k) == {x \in S : SubOf[x] >= k}

(* The sum lies between what the segment and what the table hold of the    *)
(* sub-tables it has passed, and cannot end up behind the last answer.     *)
Summed ==
  \A c \in Conns :
    /\ storage[c] <= Cardinality(fpTable)
    /\ pc[c] # "size" => re[c].storage = 0
    /\ pc[c] = "size" =>
         /\ re[c].storage <= Cardinality(Below(fpTable, i[c]))
         /\ re[c].storage >= Cardinality(Below(Elems(segment[c]), i[c]))
         /\ storage[c] <= re[c].storage + Cardinality(From(fpTable, i[c]))

IInv == TypeOK /\ Excluded /\ Stored /\ OnePlace /\ SentOrReported /\ Summed

-----------------------------------------------------------------------------
(* Two sets that share nothing are together as large as their sizes added. *)
LEMMA DisjointUnion ==
  ASSUME NEW S, NEW T, IsFiniteSet(S), IsFiniteSet(T), S \cap T = {}
  PROVE  /\ IsFiniteSet(S \cup T)
         /\ Cardinality(S \cup T) = Cardinality(S) + Cardinality(T)
<1>1. Cardinality(S \cap T) = 0
  BY FS_EmptySet
<1>2. Cardinality(S) \in Nat /\ Cardinality(T) \in Nat
  BY FS_CardinalityType
<1>3. /\ IsFiniteSet(S \cup T)
      /\ Cardinality(S \cup T)
           = Cardinality(S) + Cardinality(T) - Cardinality(S \cap T)
  BY FS_Union
<1> QED BY <1>1, <1>2, <1>3

(* Every set of chunks is finite, and smaller than one it is part of.      *)
LEMMA ChunksFinite ==
  ASSUME NEW T, T \subseteq Chunks, NEW S, S \subseteq T
  PROVE  /\ Cardinality(S) \in Nat /\ Cardinality(T) \in Nat
         /\ Cardinality(S) <= Cardinality(T)
<1>1. IsFiniteSet(T)
  BY FS_Subset, ConstantAssumption
<1> QED BY <1>1, FS_Subset, FS_CardinalityType

(* A sum that goes on to the next sub-table has that one behind it.        *)
LEMMA NextSub ==
  ASSUME NEW S, S \subseteq Chunks, NEW k \in Nat
  PROVE  /\ Cardinality(At(S, k)) \in Nat
         /\ Cardinality(Below(S, k)) \in Nat /\ Cardinality(From(S, k)) \in Nat
         /\ Cardinality(Below(S, k + 1)) \in Nat /\ Cardinality(From(S, k + 1)) \in Nat
         /\ Cardinality(Below(S, k + 1)) = Cardinality(Below(S, k)) + Cardinality(At(S, k))
         /\ Cardinality(From(S, k)) = Cardinality(From(S, k + 1)) + Cardinality(At(S, k))
<1>1. \A x \in S : SubOf[x] \in Nat
  BY ConstantAssumption
<1>2. /\ Below(S, k + 1) = Below(S, k) \cup At(S, k) /\ Below(S, k) \cap At(S, k) = {}
      /\ From(S, k) = From(S, k + 1) \cup At(S, k) /\ From(S, k + 1) \cap At(S, k) = {}
  BY <1>1 DEF Below, From, At
<1>3. /\ IsFiniteSet(At(S, k))
      /\ \A n \in Nat : IsFiniteSet(Below(S, n)) /\ IsFiniteSet(From(S, n))
  <2>1. /\ At(S, k) \subseteq Chunks
        /\ \A n \in Nat : Below(S, n) \subseteq Chunks /\ From(S, n) \subseteq Chunks
    BY DEF At, Below, From
  <2> QED BY <2>1, FS_Subset, ConstantAssumption
<1>4. IsFiniteSet(Below(S, k)) /\ IsFiniteSet(From(S, k + 1))
  BY <1>3
<1>5. Cardinality(Below(S, k) \cup At(S, k)) = Cardinality(Below(S, k)) + Cardinality(At(S, k))
  BY <1>2, <1>3, <1>4, DisjointUnion
<1>6. Cardinality(From(S, k + 1) \cup At(S, k))
        = Cardinality(From(S, k + 1)) + Cardinality(At(S, k))
  BY <1>2, <1>3, <1>4, DisjointUnion
<1>7. /\ Cardinality(At(S, k)) \in Nat
      /\ Cardinality(Below(S, k)) \in Nat /\ Cardinality(From(S, k)) \in Nat
      /\ Cardinality(Below(S, k + 1)) \in Nat /\ Cardinality(From(S, k + 1)) \in Nat
  <2>1. k + 1 \in Nat
    OBVIOUS
  <2> QED BY <1>3, <2>1, FS_CardinalityType
<1> QED BY <1>2, <1>5, <1>6, <1>7

(* What appending to a sequence changes.                                   *)
LEMMA Appended ==
  ASSUME NEW S, NEW q \in Seq(S), NEW y \in S
  PROVE  LET a == Append(q, y)
             k == Len(q) + 1 IN
         /\ a \in Seq(S) /\ a[k] = y
         /\ DOMAIN a = DOMAIN q \cup {k} /\ k \notin DOMAIN q
         /\ \A n \in DOMAIN q : a[n] = q[n]
OBVIOUS

(* The chunk that a handler is at.                                         *)
LEMMA ChunkIs ==
  ASSUME TypeOK, NEW c \in Conns, i[c] < Len(segment[c])
  PROVE  /\ Chunk(c) \in Chunks
         /\ SubOf[Chunk(c)] \in Subs
<1>1. segment[c] \in Seq(Chunks) /\ i[c] \in Nat
  BY DEF TypeOK
<1>2. Chunk(c) \in Chunks
  BY <1>1 DEF Chunk
<1> QED BY <1>2, ConstantAssumption DEF Subs

(* The initial state.                                                      *)
LEMMA InitInv ==
  ASSUME Init
  PROVE  IInv
<1>1. <<>> \in Seq(Chunks) /\ Len(<<>>) = 0
  OBVIOUS
<1>2. TypeOK
  <2>1. SUB_NUM \in Nat
    BY ConstantAssumption
  <2> QED BY <1>1, <2>1 DEF Init, TypeOK, NoReply
<1>3. Excluded /\ Stored /\ OnePlace /\ SentOrReported
  <2>1. Excluded /\ Stored /\ SentOrReported
    BY DEF Init, Excluded, Stored, SentOrReported
  <2>2. \A c \in Conns : re[c].fp = <<>> /\ DOMAIN re[c].fp = {}
    BY DEF Init, NoReply
  <2>3. OnePlace
    BY <2>2 DEF OnePlace
  <2> QED BY <2>1, <2>3
<1>4. Summed
  <2>1. Cardinality(fpTable) = 0
    BY FS_EmptySet DEF Init
  <2> QED BY <2>1 DEF Init, Summed, NoReply
<1> QED BY <1>2, <1>3, <1>4 DEF IInv

(* A step that leaves the table, the replies and what was told alone.      *)
LEMMA SameReplies ==
  ASSUME OnePlace, SentOrReported, UNCHANGED <<fpTable, told>>,
         \A d \in Conns : re'[d].fp = re[d].fp,
         \A d \in Conns : pc'[d] = "idle" => re[d].fp = <<>>
  PROVE  OnePlace' /\ SentOrReported'
<1>1. OnePlace'
  BY DEF OnePlace
<1>2. \A d \in Conns : Reported(d)' = Reported(d)
  BY DEF Reported, Elems
<1>3. SentOrReported'
  BY <1>2 DEF SentOrReported
<1> QED BY <1>1, <1>3

LEMMA ReceiveInv ==
  ASSUME IInv, NEW c \in Conns, Receive(c)
  PROVE  IInv'
<1> USE DEF IInv
<1>1. PICK s \in Segments : segment' = [segment EXCEPT ![c] = s]
  BY DEF Receive
<1>2. s \in Seq(Chunks)
  BY ConstantAssumption
<1>3. /\ pc[c] = "idle" /\ pc' = [pc EXCEPT ![c] = "test"]
      /\ i' = [i EXCEPT ![c] = 0]
      /\ re' = [re EXCEPT ![c] = NoReply]
      /\ UNCHANGED <<fpTable, fpLock, storage, told>>
  BY DEF Receive, Goto
<1>4. /\ pc'[c] = "test" /\ segment'[c] = s /\ i'[c] = 0 /\ re'[c] = NoReply
      /\ \A d \in Conns \ {c} : /\ pc'[d] = pc[d] /\ segment'[d] = segment[d]
                               /\ i'[d] = i[d] /\ re'[d] = re[d]
  BY <1>1, <1>3 DEF TypeOK
<1>5. TypeOK'
  <2>1. NoReply \in [fp : Seq(Chunks), storage : Nat]
    BY DEF NoReply
  <2>2. segment' \in [Conns -> Seq(Chunks)] /\ i' \in [Conns -> Nat]
    BY <1>1, <1>2, <1>3 DEF TypeOK
  <2>3. \A d \in Conns : i'[d] <= IF pc'[d] = "size" THEN SUB_NUM ELSE Len(segment'[d])
    <3>1. 0 <= Len(s)
      BY <1>2
    <3> QED BY <3>1, <1>4 DEF TypeOK
  <2>4. pc' \in [Conns -> {"idle", "test", "insert", "size"}]
    BY <1>3 DEF TypeOK
  <2>5. re' \in [Conns -> [fp : Seq(Chunks), storage : Nat]]
    BY <2>1, <1>3 DEF TypeOK
  <2> QED BY <1>3, <2>2, <2>3, <2>4, <2>5 DEF TypeOK
<1>6. Excluded' /\ Stored'
  <2>1. \A d \in Conns \ {c} : Chunk(d)' = Chunk(d)
    BY <1>4 DEF Chunk
  <2>2. Excluded'
    BY <1>3, <1>4, <2>1 DEF Excluded
  <2>3. Stored'
    BY <1>3, <1>4 DEF Stored
  <2> QED BY <2>2, <2>3
<1>7. OnePlace' /\ SentOrReported'
  <2>1. re[c].fp = <<>> /\ \A d \in Conns : pc'[d] = "idle" => re[d].fp = <<>>
    BY <1>3, <1>4 DEF OnePlace
  <2>2. \A d \in Conns : re'[d].fp = re[d].fp
    BY <1>4, <2>1 DEF NoReply
  <2> QED BY <1>3, <2>1, <2>2, SameReplies
<1>8. Summed'
  BY <1>3, <1>4 DEF Summed, NoReply
<1> QED BY <1>5, <1>6, <1>7, <1>8

LEMMA TestInv ==
  ASSUME IInv, NEW c \in Conns, Test(c)
  PROVE  IInv'
<1> USE DEF IInv
<1>1. /\ pc[c] = "test" /\ i[c] < Len(segment[c]) /\ fpLock[SubOf[Chunk(c)]] = None
      /\ UNCHANGED <<fpTable, segment, re, storage, told>>
  BY DEF Test, Lockable
<1>2. Chunk(c) \in Chunks /\ SubOf[Chunk(c)] \in Subs
  BY <1>1, ChunkIs
<1>3. i[c] \in Nat /\ Len(segment[c]) \in Nat
  BY DEF TypeOK
<1>4. CASE Chunk(c) \in fpTable
  <2>1. i' = [i EXCEPT ![c] = @ + 1] /\ UNCHANGED <<pc, fpLock>>
    BY <1>4 DEF Test
  <2>2. i'[c] = i[c] + 1 /\ \A d \in Conns \ {c} : i'[d] = i[d]
    BY <2>1 DEF TypeOK
  <2>3. TypeOK'
    <3>1. i' \in [Conns -> Nat]
      BY <2>1, <1>3 DEF TypeOK
    <3>2. i'[c] <= Len(segment[c])
      BY <1>1, <1>3, <2>2
    <3>3. \A d \in Conns : i'[d] <= IF pc[d] = "size" THEN SUB_NUM ELSE Len(segment[d])
      BY <1>1, <2>2, <3>2 DEF TypeOK
    <3> QED BY <1>1, <2>1, <3>1, <3>3 DEF TypeOK
  <2>4. Excluded'
    <3>1. \A d \in Conns : pc[d] = "insert" => d # c
      BY <1>1
    <3>2. \A d \in Conns \ {c} : Chunk(d)' = Chunk(d)
      BY <1>1, <2>2 DEF Chunk
    <3> QED BY <1>1, <2>1, <2>2, <3>1, <3>2 DEF Excluded
  <2>5. Stored'
    <3>1. \A n \in 1 .. i[c] + 1 : segment[c][n] \in fpTable
      <4>1. \A n \in 1 .. i[c] : segment[c][n] \in fpTable
        BY <1>1 DEF Stored
      <4>2. segment[c][i[c] + 1] \in fpTable
        BY <1>4 DEF Chunk
      <4>3. \A n \in 1 .. i[c] + 1 : n \in 1 .. i[c] \/ n = i[c] + 1
        BY <1>3
      <4> QED BY <4>1, <4>2, <4>3
    <3> QED BY <1>1, <2>1, <2>2, <3>1 DEF Stored
  <2>6. OnePlace' /\ SentOrReported'
    BY <1>1, <2>1, SameReplies DEF OnePlace
  <2>7. Summed'
    BY <1>1, <2>1, <2>2 DEF Summed
  <2> QED BY <2>3, <2>4, <2>5, <2>6, <2>7
<1>5. CASE Chunk(c) \notin fpTable
  <2>1. /\ pc' = [pc EXCEPT ![c] = "insert"]
        /\ fpLock' = [fpLock EXCEPT ![SubOf[Chunk(c)]] = c]
        /\ i' = i
    BY <1>5 DEF Test, Goto
  <2>2. pc'[c] = "insert" /\ \A d \in Conns \ {c} : pc'[d] = pc[d]
    BY <2>1 DEF TypeOK
  <2>3. \A d \in Conns : Chunk(d)' = Chunk(d)
    BY <1>1, <2>1 DEF Chunk
  <2>4. TypeOK'
    <3>1. \A d \in Conns : i[d] <= IF pc'[d] = "size" THEN SUB_NUM ELSE Len(segment[d])
      BY <1>1, <2>2 DEF TypeOK
    <3>2. pc' \in [Conns -> {"idle", "test", "insert", "size"}]
      BY <2>1 DEF TypeOK
    <3>3. fpLock' \in [Subs -> Conns \cup {None}]
      BY <2>1, <1>2 DEF TypeOK
    <3> QED BY <1>1, <2>1, <3>1, <3>2, <3>3 DEF TypeOK
  <2>5. Excluded'
    <3>1. fpLock'[SubOf[Chunk(c)]] = c
      BY <2>1, <1>2 DEF TypeOK
    <3>2. ASSUME NEW d \in Conns \ {c}, pc[d] = "insert"
          PROVE  fpLock'[SubOf[Chunk(d)]] = d
      <4>1. fpLock[SubOf[Chunk(d)]] = d
        BY <3>2 DEF Excluded
      <4>2. SubOf[Chunk(d)] # SubOf[Chunk(c)]
        BY <4>1, <1>1, ConstantAssumption
      <4>3. SubOf[Chunk(d)] \in Subs
        BY <3>2, ChunkIs DEF Excluded
      <4> QED BY <2>1, <4>1, <4>2, <4>3 DEF TypeOK
    <3> QED BY <1>1, <1>5, <2>1, <2>2, <2>3, <3>1, <3>2 DEF Excluded
  <2>6. Stored'
    BY <1>1, <2>1, <2>2 DEF Stored
  <2>7. OnePlace' /\ SentOrReported'
    BY <1>1, <2>2, SameReplies DEF OnePlace
  <2>8. Summed'
    BY <1>1, <2>1, <2>2 DEF Summed
  <2> QED BY <2>4, <2>5, <2>6, <2>7, <2>8
<1> QED BY <1>4, <1>5

LEMMA InsertInv ==
  ASSUME IInv, NEW c \in Conns, Insert(c)
  PROVE  IInv'
<1> USE DEF IInv
<1> DEFINE x == Chunk(c)
<1>1. /\ pc[c] = "insert" /\ pc' = [pc EXCEPT ![c] = "test"]
      /\ fpTable' = fpTable \cup {x}
      /\ fpLock' = [fpLock EXCEPT ![SubOf[x]] = None]
      /\ re' = [re EXCEPT ![c].fp = Append(@, x)]
      /\ i' = [i EXCEPT ![c] = @ + 1]
      /\ UNCHANGED <<segment, storage, told>>
  BY DEF Insert, Goto, Released
<1>2. i[c] < Len(segment[c]) /\ fpLock[SubOf[x]] = c /\ x \notin fpTable
  BY <1>1 DEF Excluded
<1>3. x \in Chunks /\ SubOf[x] \in Subs
  BY <1>2, ChunkIs
<1>4. /\ pc'[c] = "test" /\ i'[c] = i[c] + 1
      /\ re'[c].fp = Append(re[c].fp, x) /\ re'[c].storage = re[c].storage
      /\ \A d \in Conns \ {c} : pc'[d] = pc[d] /\ i'[d] = i[d] /\ re'[d] = re[d]
  BY <1>1 DEF TypeOK
<1>5. /\ \A d \in Conns : /\ re[d].fp \in Seq(Chunks)
                         /\ DOMAIN re[d].fp = 1 .. Len(re[d].fp) /\ Len(re[d].fp) \in Nat
      /\ i[c] \in Nat /\ Len(segment[c]) \in Nat /\ i[c] + 1 <= Len(segment[c])
  BY <1>2 DEF TypeOK
<1> DEFINE k == Len(re[c].fp) + 1
<1>6. /\ re'[c].fp \in Seq(Chunks)
      /\ DOMAIN re'[c].fp = DOMAIN re[c].fp \cup {k} /\ k \notin DOMAIN re[c].fp
      /\ re'[c].fp[k] = x
      /\ \A n \in DOMAIN re[c].fp : re'[c].fp[n] = re[c].fp[n]
  <2>1. re[c].fp \in Seq(Chunks)
    BY <1>5
  <2> HIDE DEF x
  <2> QED BY <2>1, <1>3, <1>4, Appended
<1> HIDE DEF x, k
<1>7. TypeOK'
  <2>1. re' \in [Conns -> [fp : Seq(Chunks), storage : Nat]]
    <3>1. Append(re[c].fp, x) \in Seq(Chunks)
      BY <1>3, <1>5
    <3> QED BY <3>1, <1>1 DEF TypeOK
  <2>2. fpLock' \in [Subs -> Conns \cup {None}]
    BY <1>1 DEF TypeOK
  <2>3. i' \in [Conns -> Nat] /\ pc' \in [Conns -> {"idle", "test", "insert", "size"}]
    BY <1>1, <1>5 DEF TypeOK
  <2>4. \A d \in Conns : i'[d] <= IF pc'[d] = "size" THEN SUB_NUM ELSE Len(segment[d])
    BY <1>4, <1>5 DEF TypeOK
  <2> QED BY <1>1, <1>3, <2>1, <2>2, <2>3, <2>4 DEF TypeOK
<1>8. Excluded'
  <2> SUFFICES ASSUME NEW d \in Conns, pc'[d] = "insert"
               PROVE  /\ i'[d] < Len(segment'[d])
                      /\ fpLock'[SubOf[Chunk(d)']] = d
                      /\ Chunk(d)' \notin fpTable'
    BY ConstantAssumption DEF Excluded
  <2>1. d # c /\ pc[d] = "insert"
    BY <1>4
  <2>2. Chunk(d)' = Chunk(d) /\ i'[d] = i[d]
    BY <1>1, <1>4, <2>1 DEF Chunk
  <2>3. i[d] < Len(segment[d]) /\ fpLock[SubOf[Chunk(d)]] = d /\ Chunk(d) \notin fpTable
    BY <2>1 DEF Excluded
  <2>4. SubOf[Chunk(d)] # SubOf[x] /\ SubOf[Chunk(d)] \in Subs
    BY <1>2, <2>1, <2>3, ChunkIs
  <2>5. fpLock'[SubOf[Chunk(d)]] = d
    BY <1>1, <2>3, <2>4 DEF TypeOK
  <2>6. Chunk(d) \notin fpTable'
    BY <1>1, <2>3, <2>4
  <2> QED BY <1>1, <2>2, <2>3, <2>5, <2>6
<1>9. Stored'
  <2>1. \A n \in 1 .. i[c] + 1 : segment[c][n] \in fpTable'
    <3>1. \A n \in 1 .. i[c] : segment[c][n] \in fpTable
      BY <1>1 DEF Stored
    <3>2. segment[c][i[c] + 1] = x
      BY DEF Chunk, x
    <3>3. \A n \in 1 .. i[c] + 1 : n \in 1 .. i[c] \/ n = i[c] + 1
      BY <1>5
    <3> QED BY <1>1, <3>1, <3>2, <3>3
  <2> QED BY <1>1, <1>4, <2>1 DEF Stored
<1>10. OnePlace'
  <2>1. \A d \in Conns : pc'[d] = "idle" => re'[d].fp = <<>>
    BY <1>4 DEF OnePlace
  <2>2. ASSUME NEW d \in Conns, NEW n \in DOMAIN re'[d].fp
        PROVE  \/ d = c /\ n = k /\ re'[d].fp[n] = x
               \/ /\ n \in DOMAIN re[d].fp /\ re'[d].fp[n] = re[d].fp[n]
                  /\ re[d].fp[n] \in fpTable /\ told[re[d].fp[n]] = 0
                  /\ ~(d = c /\ n = k)
    <3>1. CASE d = c /\ n = k
      BY <3>1, <1>6
    <3>2. CASE ~(d = c /\ n = k)
      <4>1. n \in DOMAIN re[d].fp /\ re'[d].fp[n] = re[d].fp[n]
        <5>1. CASE d = c
          BY <5>1, <3>2, <1>6
        <5>2. CASE d # c
          BY <5>2, <1>4
        <5> QED BY <5>1, <5>2
      <4>2. re[d].fp[n] \in fpTable /\ told[re[d].fp[n]] = 0
        BY <4>1 DEF OnePlace
      <4> QED BY <4>1, <4>2, <3>2
    <3> QED BY <3>1, <3>2
  <2>3. told[x] = 0
    BY <1>2, <1>3 DEF SentOrReported
  <2>4. \A d \in Conns : \A n \in DOMAIN re'[d].fp :
          re'[d].fp[n] \in fpTable' /\ told'[re'[d].fp[n]] = 0
    BY <1>1, <2>2, <2>3
  <2>5. ASSUME NEW d \in Conns, NEW e \in Conns,
               NEW n \in DOMAIN re'[d].fp, NEW m \in DOMAIN re'[e].fp,
               re'[d].fp[n] = re'[e].fp[m]
        PROVE  d = e /\ n = m
    <3>1. CASE d = c /\ n = k
      BY <3>1, <2>2, <2>5, <1>2
    <3>2. CASE e = c /\ m = k
      BY <3>2, <2>2, <2>5, <1>2
    <3>3. CASE ~(d = c /\ n = k) /\ ~(e = c /\ m = k)
      BY <3>3, <2>2, <2>5 DEF OnePlace
    <3> QED BY <3>1, <3>2, <3>3
  <2> QED BY <2>1, <2>4, <2>5 DEF OnePlace
<1>11. SentOrReported'
  <2>1. x \in Reported(c)' /\ told[x] = 0
    BY <1>2, <1>3, <1>6 DEF Reported, Elems, SentOrReported
  <2>2. \A d \in Conns : Reported(d) \subseteq Reported(d)'
    BY <1>4, <1>6 DEF Reported, Elems
  <2> QED BY <1>1, <2>1, <2>2 DEF SentOrReported
<1>12. Summed'
  <2>1. fpTable \subseteq fpTable' /\ fpTable' \subseteq Chunks
    BY <1>1, <1>7 DEF TypeOK
  <2>2. Cardinality(fpTable) <= Cardinality(fpTable') /\ Cardinality(fpTable) \in Nat
        /\ Cardinality(fpTable') \in Nat
    BY <2>1, ChunksFinite
  <2>3. ASSUME NEW n \in Nat
        PROVE  /\ Cardinality(Below(fpTable, n)) <= Cardinality(Below(fpTable', n))
               /\ Cardinality(From(fpTable, n)) <= Cardinality(From(fpTable', n))
               /\ Cardinality(Below(fpTable, n)) \in Nat /\ Cardinality(From(fpTable, n)) \in Nat
               /\ Cardinality(Below(fpTable', n)) \in Nat /\ Cardinality(From(fpTable', n)) \in Nat
    <3>1. /\ Below(fpTable, n) \subseteq Below(fpTable', n) /\ Below(fpTable', n) \subseteq Chunks
          /\ From(fpTable, n) \subseteq From(fpTable', n) /\ From(fpTable', n) \subseteq Chunks
      BY <2>1 DEF Below, From
    <3> QED BY <3>1, ChunksFinite
  <2>4. \A d \in Conns : i[d] \in Nat /\ re[d].storage \in Nat /\ storage[d] \in Nat
    BY DEF TypeOK
  <2>5. ASSUME NEW d \in Conns, pc'[d] = "size"
        PROVE  /\ re'[d].storage <= Cardinality(Below(fpTable', i'[d]))
               /\ re'[d].storage >= Cardinality(Below(Elems(segment'[d]), i'[d]))
               /\ storage[d] <= re'[d].storage + Cardinality(From(fpTable', i'[d]))
    <3>1. d # c /\ pc[d] = "size" /\ i'[d] = i[d] /\ re'[d] = re[d] /\ segment'[d] = segment[d]
      BY <1>1, <1>4, <2>5
    <3>2. /\ re[d].storage <= Cardinality(Below(fpTable, i[d]))
          /\ re[d].storage >= Cardinality(Below(Elems(segment[d]), i[d]))
          /\ storage[d] <= re[d].storage + Cardinality(From(fpTable, i[d]))
      BY <3>1 DEF Summed
    <3> QED BY <3>1, <3>2, <2>3, <2>4
  <2>6. \A d \in Conns : storage[d] <= Cardinality(fpTable')
    BY <2>2, <2>4 DEF Summed
  <2>7. \A d \in Conns : pc'[d] # "size" => re'[d].storage = 0
    BY <1>1, <1>4 DEF Summed
  <2> QED BY <1>1, <2>5, <2>6, <2>7 DEF Summed
<1> QED BY <1>7, <1>8, <1>9, <1>10, <1>11, <1>12

LEMMA StartSizeInv ==
  ASSUME IInv, NEW c \in Conns, StartSize(c)
  PROVE  IInv'
<1> USE DEF IInv
<1>1. /\ i[c] = Len(segment[c]) /\ pc[c] = "test"
      /\ pc' = [pc EXCEPT ![c] = "size"] /\ i' = [i EXCEPT ![c] = 0]
      /\ UNCHANGED <<fpTable, fpLock, segment, re, storage, told>>
  BY DEF StartSize, Goto
<1>2. /\ pc'[c] = "size" /\ i'[c] = 0
      /\ \A d \in Conns \ {c} : pc'[d] = pc[d] /\ i'[d] = i[d]
  BY <1>1 DEF TypeOK
<1>3. TypeOK'
  <2>1. i' \in [Conns -> Nat] /\ pc' \in [Conns -> {"idle", "test", "insert", "size"}]
    BY <1>1 DEF TypeOK
  <2>2. 0 <= SUB_NUM
    BY ConstantAssumption
  <2>3. \A d \in Conns : i'[d] <= IF pc'[d] = "size" THEN SUB_NUM ELSE Len(segment[d])
    BY <1>2, <2>2 DEF TypeOK
  <2> QED BY <1>1, <2>1, <2>3 DEF TypeOK
<1>4. Excluded'
  <2>1. \A d \in Conns \ {c} : Chunk(d)' = Chunk(d)
    BY <1>1, <1>2 DEF Chunk
  <2> QED BY <1>1, <1>2, <2>1 DEF Excluded
<1>5. Stored'
  <2>1. \A n \in 1 .. Len(segment[c]) : segment[c][n] \in fpTable
    BY <1>1 DEF Stored
  <2>2. DOMAIN segment[c] = 1 .. Len(segment[c])
    BY DEF TypeOK
  <2>3. Elems(segment[c]) \subseteq fpTable
    BY <2>1, <2>2 DEF Elems
  <2>4. \A d \in Conns : Elems(segment[d])' = Elems(segment[d])
    BY <1>1 DEF Elems
  <2> QED BY <1>1, <1>2, <2>3, <2>4 DEF Stored
<1>6. OnePlace' /\ SentOrReported'
  BY <1>1, <1>2, SameReplies DEF OnePlace
<1>7. Summed'
  <2>1. /\ Below(fpTable, 0) = {} /\ Below(Elems(segment[c]), 0) = {}
        /\ From(fpTable, 0) = fpTable
    <3>1. \A x \in Chunks : SubOf[x] \in Nat
      BY ConstantAssumption
    <3>2. fpTable \subseteq Chunks /\ Elems(segment[c]) \subseteq Chunks
      BY <1>3, <1>5, <1>1, <1>2 DEF TypeOK, Stored
    <3> QED BY <3>1, <3>2 DEF Below, From
  <2>2. Cardinality({}) = 0 /\ Cardinality(fpTable) \in Nat
    BY FS_EmptySet, ChunksFinite DEF TypeOK
  <2>3. re[c].storage = 0 /\ storage[c] <= Cardinality(fpTable) /\ storage[c] \in Nat
    BY <1>1 DEF Summed, TypeOK
  <2>4. \A d \in Conns : Elems(segment[d])' = Elems(segment[d])
    BY <1>1 DEF Elems
  <2>5. /\ re'[c].storage <= Cardinality(Below(fpTable', i'[c]))
        /\ re'[c].storage >= Cardinality(Below(Elems(segment[c])', i'[c]))
        /\ storage[c] <= re'[c].storage + Cardinality(From(fpTable', i'[c]))
    <3>1. re'[c].storage = 0 /\ storage[c] <= 0 + Cardinality(fpTable)
      BY <1>1, <2>2, <2>3
    <3>2. /\ Cardinality(Below(fpTable', i'[c])) = 0
          /\ Cardinality(Below(Elems(segment[c])', i'[c])) = 0
          /\ Cardinality(From(fpTable', i'[c])) = Cardinality(fpTable)
      BY <1>1, <1>2, <2>1, <2>2, <2>4
    <3> QED BY <3>1, <3>2
  <2>6. ASSUME NEW d \in Conns \ {c}, pc'[d] = "size"
        PROVE  /\ re'[d].storage <= Cardinality(Below(fpTable', i'[d]))
               /\ re'[d].storage >= Cardinality(Below(Elems(segment[d])', i'[d]))
               /\ storage[d] <= re'[d].storage + Cardinality(From(fpTable', i'[d]))
    BY <1>1, <1>2, <2>4, <2>6 DEF Summed
  <2> QED BY <1>1, <1>2, <2>5, <2>6 DEF Summed
<1> QED BY <1>3, <1>4, <1>5, <1>6, <1>7

LEMMA AddSubInv ==
  ASSUME IInv, NEW c \in Conns, AddSub(c)
  PROVE  IInv'
<1> USE DEF IInv
<1> DEFINE size == Cardinality(At(fpTable, i[c]))
<1>1. /\ pc[c] = "size" /\ i[c] < SUB_NUM
      /\ re' = [re EXCEPT ![c].storage = @ + size]
      /\ i' = [i EXCEPT ![c] = @ + 1]
      /\ UNCHANGED <<fpTable, fpLock, pc, segment, storage, told>>
  BY DEF AddSub, SubsLeft, PlusSize, Entries, At
<1>2. /\ fpTable \subseteq Chunks /\ i[c] \in Nat /\ re[c].storage \in Nat
      /\ storage[c] \in Nat /\ segment[c] \in Seq(Chunks)
      /\ SUB_NUM \in Nat
  BY ConstantAssumption DEF TypeOK
<1>3. size \in Nat
  BY <1>2, NextSub
<1> HIDE DEF size
<1>4. /\ i'[c] = i[c] + 1 /\ re'[c].storage = re[c].storage + size
      /\ \A d \in Conns : re'[d].fp = re[d].fp
      /\ \A d \in Conns \ {c} : i'[d] = i[d] /\ re'[d] = re[d]
  BY <1>1 DEF TypeOK
<1>5. TypeOK'
  <2>1. i' \in [Conns -> Nat] /\ re' \in [Conns -> [fp : Seq(Chunks), storage : Nat]]
    <3>1. re[c].storage + size \in Nat /\ i[c] + 1 \in Nat
      BY <1>2, <1>3
    <3> QED BY <1>1, <3>1 DEF TypeOK
  <2>2. i[c] + 1 <= SUB_NUM
    BY <1>1, <1>2
  <2>3. \A d \in Conns : i'[d] <= IF pc[d] = "size" THEN SUB_NUM ELSE Len(segment[d])
    BY <1>1, <1>4, <2>2 DEF TypeOK
  <2> QED BY <1>1, <2>1, <2>3 DEF TypeOK
<1>6. Excluded'
  <2>1. \A d \in Conns \ {c} : Chunk(d)' = Chunk(d)
    BY <1>1, <1>4 DEF Chunk
  <2> QED BY <1>1, <1>4, <2>1 DEF Excluded
<1>7. Stored'
  <2>1. \A d \in Conns : Elems(segment[d])' = Elems(segment[d])
    BY <1>1 DEF Elems
  <2> QED BY <1>1, <1>4, <2>1 DEF Stored
<1>8. OnePlace' /\ SentOrReported'
  BY <1>1, <1>4, SameReplies DEF OnePlace
<1>9. Summed'
  <2> DEFINE E == Elems(segment[c])
  <2>1. E \subseteq fpTable
    BY <1>1 DEF Stored
  <2>2. \A d \in Conns : Elems(segment[d])' = Elems(segment[d])
    BY <1>1 DEF Elems
  <2>3. /\ re[c].storage <= Cardinality(Below(fpTable, i[c]))
        /\ re[c].storage >= Cardinality(Below(E, i[c]))
        /\ storage[c] <= re[c].storage + Cardinality(From(fpTable, i[c]))
    BY <1>1 DEF Summed
  <2> HIDE DEF E
  <2>4. /\ Cardinality(Below(fpTable, i[c])) \in Nat /\ Cardinality(From(fpTable, i[c])) \in Nat
        /\ Cardinality(From(fpTable, i[c] + 1)) \in Nat
        /\ Cardinality(Below(fpTable, i[c] + 1)) = Cardinality(Below(fpTable, i[c])) + size
        /\ Cardinality(From(fpTable, i[c])) = Cardinality(From(fpTable, i[c] + 1)) + size
    BY <1>2, NextSub DEF size
  <2>5. /\ Cardinality(Below(E, i[c])) \in Nat
        /\ Cardinality(Below(E, i[c] + 1)) = Cardinality(Below(E, i[c])) + Cardinality(At(E, i[c]))
        /\ Cardinality(At(E, i[c])) \in Nat
    BY <1>2, <2>1, NextSub
  <2>6. Cardinality(At(E, i[c])) <= size
    <3>1. At(E, i[c]) \subseteq At(fpTable, i[c]) /\ At(fpTable, i[c]) \subseteq Chunks
      BY <1>2, <2>1 DEF At
    <3> QED BY <3>1, ChunksFinite DEF size
  <2>7. /\ re[c].storage + size <= Cardinality(Below(fpTable, i[c] + 1))
        /\ re[c].storage + size >= Cardinality(Below(E, i[c] + 1))
        /\ storage[c] <= (re[c].storage + size) + Cardinality(From(fpTable, i[c] + 1))
    <3>1. re[c].storage + size <= Cardinality(Below(fpTable, i[c])) + size
      BY <1>2, <1>3, <2>3, <2>4
    <3>2. re[c].storage + size >= Cardinality(Below(E, i[c])) + Cardinality(At(E, i[c]))
      BY <1>2, <1>3, <2>3, <2>5, <2>6
    <3>3. storage[c] <= re[c].storage + (Cardinality(From(fpTable, i[c] + 1)) + size)
      BY <2>3, <2>4
    <3> QED BY <1>2, <1>3, <2>4, <2>5, <3>1, <3>2, <3>3
  <2>8. /\ re'[c].storage <= Cardinality(Below(fpTable', i'[c]))
        /\ re'[c].storage >= Cardinality(Below(Elems(segment[c])', i'[c]))
        /\ storage[c] <= re'[c].storage + Cardinality(From(fpTable', i'[c]))
    BY <1>1, <1>4, <2>2, <2>7 DEF E
  <2>9. ASSUME NEW d \in Conns \ {c}, pc[d] = "size"
        PROVE  /\ re'[d].storage <= Cardinality(Below(fpTable', i'[d]))
               /\ re'[d].storage >= Cardinality(Below(Elems(segment[d])', i'[d]))
               /\ storage[d] <= re'[d].storage + Cardinality(From(fpTable', i'[d]))
    BY <1>1, <1>4, <2>2, <2>9 DEF Summed
  <2> QED BY <1>1, <1>4, <2>8, <2>9 DEF Summed
<1> QED BY <1>5, <1>6, <1>7, <1>8, <1>9

(* A reply adds one to what was told of the chunks it reports.             *)
LEMMA TellOnce ==
  ASSUME TypeOK, OnePlace, NEW c \in Conns, NEW x \in Chunks
  PROVE  Cardinality({n \in DOMAIN re[c].fp : re[c].fp[n] = x})
           = IF x \in Reported(c) THEN 1 ELSE 0
<1> DEFINE N == {n \in DOMAIN re[c].fp : re[c].fp[n] = x}
<1>1. CASE x \in Reported(c)
  <2>1. PICK n \in DOMAIN re[c].fp : re[c].fp[n] = x
    BY <1>1 DEF Reported, Elems
  <2>2. N = {n}
    BY <2>1 DEF OnePlace
  <2> HIDE DEF N
  <2>3. Cardinality(N) = 1
    BY <2>2, FS_Singleton
  <2> QED BY <1>1, <2>3 DEF N
<1>2. CASE x \notin Reported(c)
  <2>1. N = {}
    BY <1>2 DEF Reported, Elems
  <2> HIDE DEF N
  <2>2. Cardinality(N) = 0
    BY <2>1, FS_EmptySet
  <2> QED BY <1>2, <2>2 DEF N
<1> QED BY <1>1, <1>2

LEMMA SendReplyInv ==
  ASSUME IInv, NEW c \in Conns, SendReply(c)
  PROVE  IInv'
<1> USE DEF IInv
<1>1. /\ i[c] = SUB_NUM /\ pc[c] = "size" /\ pc' = [pc EXCEPT ![c] = "idle"]
      /\ storage' = [storage EXCEPT ![c] = re[c].storage]
      /\ segment' = [segment EXCEPT ![c] = <<>>]
      /\ i' = [i EXCEPT ![c] = 0]
      /\ re' = [re EXCEPT ![c] = NoReply]
      /\ UNCHANGED <<fpTable, fpLock>>
  BY DEF SendReply, Goto
<1>2. /\ pc'[c] = "idle" /\ storage'[c] = re[c].storage /\ segment'[c] = <<>>
      /\ i'[c] = 0 /\ re'[c] = NoReply
      /\ \A d \in Conns \ {c} : /\ pc'[d] = pc[d] /\ storage'[d] = storage[d]
                               /\ segment'[d] = segment[d] /\ i'[d] = i[d] /\ re'[d] = re[d]
  BY <1>1 DEF TypeOK
<1>3. told' \in [Chunks -> Nat]
      /\ \A x \in Chunks : told'[x] = told[x] + IF x \in Reported(c) THEN 1 ELSE 0
  <2>1. told' = [x \in Chunks |->
                  told[x] + Cardinality({n \in DOMAIN re[c].fp : re[c].fp[n] = x})]
    BY DEF SendReply
  <2>2. told' = [x \in Chunks |-> told[x] + IF x \in Reported(c) THEN 1 ELSE 0]
    BY <2>1, TellOnce
  <2> QED BY <2>2 DEF TypeOK
<1>4. TypeOK'
  <2>1. NoReply \in [fp : Seq(Chunks), storage : Nat] /\ <<>> \in Seq(Chunks) /\ Len(<<>>) = 0
    BY DEF NoReply
  <2>2. /\ segment' \in [Conns -> Seq(Chunks)] /\ i' \in [Conns -> Nat]
        /\ re' \in [Conns -> [fp : Seq(Chunks), storage : Nat]]
    BY <1>1, <2>1 DEF TypeOK
  <2>3. pc' \in [Conns -> {"idle", "test", "insert", "size"}] /\ storage' \in [Conns -> Nat]
    BY <1>1 DEF TypeOK
  <2>4. \A d \in Conns : i'[d] <= IF pc'[d] = "size" THEN SUB_NUM ELSE Len(segment'[d])
    <3>1. i'[c] <= Len(segment'[c]) /\ pc'[c] # "size"
      BY <1>2, <2>1
    <3>2. \A d \in Conns \ {c} :
            i'[d] <= IF pc'[d] = "size" THEN SUB_NUM ELSE Len(segment'[d])
      BY <1>2 DEF TypeOK
    <3> QED BY <3>1, <3>2
  <2> QED BY <1>1, <1>3, <2>2, <2>3, <2>4 DEF TypeOK
<1>5. Excluded'
  <2>1. \A d \in Conns \ {c} : Chunk(d)' = Chunk(d)
    BY <1>2 DEF Chunk
  <2> QED BY <1>1, <1>2, <2>1 DEF Excluded
<1>6. Stored'
  <2>1. \A d \in Conns \ {c} : Elems(segment[d])' = Elems(segment[d])
    BY <1>2 DEF Elems
  <2> QED BY <1>1, <1>2, <2>1 DEF Stored
<1>7. OnePlace'
  <2>1. re'[c].fp = <<>> /\ DOMAIN re'[c].fp = {}
    BY <1>2 DEF NoReply
  <2>2. \A d \in Conns : pc'[d] = "idle" => re'[d].fp = <<>>
    BY <1>2, <2>1 DEF OnePlace
  <2>3. ASSUME NEW d \in Conns, NEW n \in DOMAIN re'[d].fp
        PROVE  /\ d # c /\ re'[d].fp = re[d].fp
               /\ re[d].fp[n] \in fpTable /\ told'[re[d].fp[n]] = 0
    <3>1. d # c /\ re'[d].fp = re[d].fp
      BY <1>2, <2>1
    <3>2. re[d].fp[n] \in fpTable /\ told[re[d].fp[n]] = 0 /\ re[d].fp[n] \in Chunks
      BY <3>1 DEF OnePlace, TypeOK
    <3>3. re[d].fp[n] \notin Reported(c)
      BY <3>1 DEF OnePlace, Reported, Elems
    <3>4. told'[re[d].fp[n]] = 0
      BY <1>3, <3>2, <3>3
    <3> QED BY <3>1, <3>2, <3>4
  <2>4. \A d \in Conns : \A n \in DOMAIN re'[d].fp :
          re'[d].fp[n] \in fpTable' /\ told'[re'[d].fp[n]] = 0
    BY <1>1, <2>3
  <2>5. \A d, e \in Conns : \A n \in DOMAIN re'[d].fp : \A m \in DOMAIN re'[e].fp :
          re'[d].fp[n] = re'[e].fp[m] => d = e /\ n = m
    BY <2>3 DEF OnePlace
  <2> QED BY <2>2, <2>4, <2>5 DEF OnePlace
<1>8. SentOrReported'
  <2>1. \A d \in Conns \ {c} : Reported(d)' = Reported(d)
    BY <1>2 DEF Reported, Elems
  <2>2. \A x \in Reported(c) : x \in fpTable /\ told[x] = 0
    BY DEF OnePlace, Reported, Elems
  <2>3. ASSUME NEW x \in Chunks, x \in fpTable
        PROVE  \/ told'[x] = 1
               \/ told'[x] = 0 /\ \E d \in Conns : x \in Reported(d)'
    <3>1. CASE x \in Reported(c)
      BY <3>1, <1>3, <2>2
    <3>2. CASE x \notin Reported(c)
      <4>1. told'[x] = told[x]
        BY <3>2, <1>3 DEF TypeOK
      <4>2. CASE told[x] = 1
        BY <4>1, <4>2
      <4>3. CASE told[x] # 1
        <5>1. told[x] = 0 /\ \E d \in Conns : x \in Reported(d)
          BY <2>3, <4>3 DEF SentOrReported
        <5> QED BY <5>1, <4>1, <3>2, <2>1
      <4> QED BY <4>2, <4>3
    <3> QED BY <3>1, <3>2
  <2>4. ASSUME NEW x \in Chunks, x \notin fpTable
        PROVE  told'[x] = 0
    BY <2>4, <1>3, <2>2 DEF SentOrReported
  <2> QED BY <1>1, <2>3, <2>4 DEF SentOrReported
<1>9. Summed'
  <2>1. \A d \in Conns \ {c} : Elems(segment[d])' = Elems(segment[d])
    BY <1>2 DEF Elems
  <2>2. re[c].storage <= Cardinality(fpTable)
    <3>1. Below(fpTable, i[c]) \subseteq fpTable /\ fpTable \subseteq Chunks
      BY DEF Below, TypeOK
    <3>2. /\ Cardinality(Below(fpTable, i[c])) <= Cardinality(fpTable)
          /\ Cardinality(Below(fpTable, i[c])) \in Nat /\ Cardinality(fpTable) \in Nat
      BY <3>1, ChunksFinite
    <3>3. re[c].storage <= Cardinality(Below(fpTable, i[c])) /\ re[c].storage \in Nat
      BY <1>1 DEF Summed, TypeOK
    <3> QED BY <3>2, <3>3
  <2>3. \A d \in Conns : storage'[d] <= Cardinality(fpTable')
    BY <1>1, <1>2, <2>2 DEF Summed
  <2>4. \A d \in Conns : pc'[d] # "size" => re'[d].storage = 0
    BY <1>1, <1>2 DEF Summed, NoReply
  <2>5. ASSUME NEW d \in Conns, pc'[d] = "size"
        PROVE  /\ re'[d].storage <= Cardinality(Below(fpTable', i'[d]))
               /\ re'[d].storage >= Cardinality(Below(Elems(segment[d])', i'[d]))
               /\ storage'[d] <= re'[d].storage + Cardinality(From(fpTable', i'[d]))
    <3>1. d # c /\ pc[d] = "size"
      BY <2>5, <1>2
    <3> QED BY <3>1, <1>1, <1>2, <2>1 DEF Summed
  <2> QED BY <2>3, <2>4, <2>5 DEF Summed
<1> QED BY <1>4, <1>5, <1>6, <1>7, <1>8, <1>9

-----------------------------------------------------------------------------
LEMMA NextInv ==
  ASSUME IInv, [Next]_vars
  PROVE  IInv'
<1>1. CASE UNCHANGED vars
  <2>1. /\ \A d \in Conns : Chunk(d)' = Chunk(d)
        /\ \A d \in Conns : Elems(segment[d])' = Elems(segment[d])
    BY <1>1 DEF vars, Chunk, Elems
  <2>2. OnePlace' /\ SentOrReported'
    BY <1>1, SameReplies DEF IInv, OnePlace, vars
  <2>3. TypeOK'
    BY <1>1 DEF IInv, vars, TypeOK
  <2>4. Excluded' /\ Stored'
    BY <1>1, <2>1 DEF IInv, vars, Excluded, Stored
  <2>5. Summed'
    BY <1>1, <2>1 DEF IInv, vars, Summed
  <2> QED BY <2>2, <2>3, <2>4, <2>5 DEF IInv
<1>2. CASE Next
  BY <1>2, ReceiveInv, TestInv, InsertInv, StartSizeInv, AddSubInv, SendReplyInv DEF Next
<1> QED BY <1>1, <1>2

(* What the theorems below rest on.                                        *)
THEOREM Invariance == Spec => []IInv
<1>1. Init => IInv
  BY InitInv
<1>2. IInv /\ [Next]_vars => IInv'
  BY NextInv
<1> QED BY <1>1, <1>2, PTL DEF Spec

(* Every number that handlers and clients keep is in its bounds: the table *)
(* is never smaller than the storage a client was told, and the storage    *)
(* that a handler is about to send covers the segment it has just stored,  *)
(* whatever others insert during c_hash_table_size (dedup.c:26-40,         *)
(* concurrent_hashtable.c:79).                                             *)
THEOREM NumbersBounded == Spec => []Inv
<1>1. ASSUME IInv PROVE Inv
  <2> USE <1>1 DEF IInv
  <2>1. ASSUME NEW c \in Conns, pc[c] = "size", i[c] = SUB_NUM
        PROVE  /\ re[c].storage <= Cardinality(fpTable)
               /\ re[c].storage >= Cardinality(Elems(segment[c]))
    <3>1. Elems(segment[c]) \subseteq fpTable /\ fpTable \subseteq Chunks
      BY <2>1 DEF Stored, TypeOK
    <3>2. \A x \in Chunks : SubOf[x] < SUB_NUM
      BY ConstantAssumption
    <3>3. /\ Below(fpTable, SUB_NUM) = fpTable
          /\ Below(Elems(segment[c]), SUB_NUM) = Elems(segment[c])
      BY <3>1, <3>2 DEF Below
    <3> QED BY <2>1, <3>3 DEF Summed
  <2>2. StorageBounds
    BY <2>1 DEF StorageBounds, Summed
  <2> QED BY <2>2 DEF Inv
<1> QED BY <1>1, Invariance, PTL

(* A pair of a connection and a place in its reply that holds a chunk is   *)
(* among those that NewOnce counts: a reply has no place behind the number *)
(* of chunks, because it names none twice.                                 *)
LEMMA PlaceBounded ==
  ASSUME TypeOK, OnePlace, NEW c \in Conns
  PROVE  DOMAIN re[c].fp \subseteq 1 .. Cardinality(Chunks)
<1> DEFINE f == re[c].fp
<1>1. f \in Seq(Chunks) /\ Len(f) \in Nat /\ DOMAIN f = 1 .. Len(f)
  BY DEF TypeOK
<1>2. f \in Injection(1 .. Len(f), Chunks)
  <2>1. f \in [1 .. Len(f) -> Chunks]
    BY <1>1
  <2>2. \A n, m \in 1 .. Len(f) : f[n] = f[m] => n = m
    BY <1>1 DEF OnePlace
  <2> HIDE DEF f
  <2> QED BY <2>1, <2>2 DEF Injection, IsInjective
<1> HIDE DEF f
<1>3. Cardinality(1 .. Len(f)) <= Cardinality(Chunks)
  BY <1>2, FS_Injection, ConstantAssumption
<1>4. Cardinality(1 .. Len(f)) = Len(f)
  <2>1. 1 \in Int /\ Len(f) \in Int
    BY <1>1
  <2>2. Cardinality(1 .. Len(f)) = IF 1 > Len(f) THEN 0 ELSE Len(f) - 1 + 1
    BY <2>1, FS_Interval
  <2> QED BY <2>2, <1>1
<1>5. Cardinality(Chunks) \in Nat
  BY FS_CardinalityType, ConstantAssumption
<1>6. 1 .. Len(f) \subseteq 1 .. Cardinality(Chunks)
  BY <1>1, <1>3, <1>4, <1>5
<1> QED BY <1>1, <1>6 DEF f

(* Every stored chunk is reported as new exactly once: in one reply to one *)
(* client, sent or being put together, even when several clients bring it  *)
(* at the same time or a segment holds it twice (dedup.c:26-37).           *)
THEOREM ReportedOnce == Spec => []NewOnce
<1>1. ASSUME IInv PROVE NewOnce
  <2> USE <1>1 DEF IInv
  <2> SUFFICES ASSUME NEW x \in Chunks
               PROVE  told[x] + Cardinality(Pending(x)) = IF x \in fpTable THEN 1 ELSE 0
    BY DEF NewOnce
  <2>1. ASSUME NEW d \in Conns, x \in Reported(d)
        PROVE  /\ x \in fpTable /\ told[x] = 0
               /\ Cardinality(Pending(x)) = 1
    <3>1. PICK n \in DOMAIN re[d].fp : re[d].fp[n] = x
      BY <2>1 DEF Reported, Elems
    <3>2. n \in 1 .. Cardinality(Chunks)
      BY PlaceBounded
    <3>3. Pending(x) = {<<d, n>>}
      <4>1. <<d, n>> \in Pending(x)
        BY <3>1, <3>2 DEF Pending
      <4>2. \A p \in Pending(x) : p = <<d, n>>
        BY <3>1 DEF Pending, OnePlace
      <4> QED BY <4>1, <4>2
    <3>4. Cardinality(Pending(x)) = 1
      BY <3>3, FS_Singleton
    <3> QED BY <3>1, <3>4 DEF OnePlace
  <2>2. ASSUME \A d \in Conns : x \notin Reported(d)
        PROVE  Cardinality(Pending(x)) = 0
    <3>1. Pending(x) = {}
      BY <2>2 DEF Pending, Reported, Elems
    <3> QED BY <3>1, FS_EmptySet
  <2>3. CASE \E d \in Conns : x \in Reported(d)
    BY <2>1, <2>3
  <2>4. CASE \A d \in Conns : x \notin Reported(d)
    <3>1. told[x] = IF x \in fpTable THEN 1 ELSE 0
      BY <2>4 DEF SentOrReported
    <3> QED BY <3>1, <2>2, <2>4
  <2> QED BY <2>3, <2>4
<1> QED BY <1>1, Invariance, PTL

(* The storage that a client is told of its connection never goes back:    *)
(* every sum that is sent was begun after the last one was, over a table   *)
(* that only grows.                                                        *)
THEOREM StorageNeverShrinks == Spec => StorageGrows
<1>1. ASSUME IInv, [Next]_vars
      PROVE  [\A c \in Conns : storage'[c] >= storage[c]]_vars
  <2> SUFFICES ASSUME NEW c \in Conns, NEW d \in Conns, Next
               PROVE  storage'[d] >= storage[d]
    BY <1>1
  <2>1. storage[d] \in Nat
    BY <1>1 DEF IInv, TypeOK
  <2>2. CASE storage' = storage
    BY <2>1, <2>2
  <2>3. CASE SendReply(d)
    <3>1. i[d] = SUB_NUM /\ pc[d] = "size" /\ storage'[d] = re[d].storage
      BY <1>1, <2>3 DEF SendReply, Goto, IInv, TypeOK
    <3>2. storage[d] <= re[d].storage + Cardinality(From(fpTable, SUB_NUM))
      BY <1>1, <3>1 DEF IInv, Summed
    <3>3. From(fpTable, SUB_NUM) = {}
      <4>1. \A x \in fpTable : SubOf[x] \in 0 .. SUB_NUM - 1
        BY <1>1, ConstantAssumption DEF IInv, TypeOK
      <4>2. \A x \in fpTable : ~(SubOf[x] >= SUB_NUM)
        BY <4>1, ConstantAssumption
      <4> QED BY <4>2 DEF From
    <3>4. Cardinality(From(fpTable, SUB_NUM)) = 0
      BY <3>3, FS_EmptySet
    <3>5. re[d].storage \in Nat
      BY <1>1 DEF IInv, TypeOK
    <3> QED BY <2>1, <3>1, <3>2, <3>4, <3>5
  <2>4. CASE \E e \in Conns \ {d} : SendReply(e)
    <3>1. storage'[d] = storage[d]
      BY <1>1, <2>4 DEF SendReply, IInv, TypeOK
    <3> QED BY <2>1, <3>1
  <2>5. storage' = storage \/ \E e \in Conns : SendReply(e)
    BY DEF Next, Receive, Test, Insert, StartSize, AddSub
  <2> QED BY <2>2, <2>3, <2>4, <2>5
<1> QED BY <1>1, Invariance, PTL DEF Spec, StorageGrows
=============================================================================
