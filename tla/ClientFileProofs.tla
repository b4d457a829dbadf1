-------------------------- MODULE ClientFileProofs --------------------------
(***************************************************************************)
(* Proofs about ClientFile: what the client reads of a trace, cuts into     *)
(* segments, selects of each of them, and keeps in a cache.                *)
(*                                                                         *)
(* Each layer has its own invariant, in the order of this module.          *)
(* CacheInv is what the run checks of the cache; that every step of it is   *)
(* one of LruSet needs in addition how Mapped, the contents of the list,   *)
(* changes.  SegmenterInv says at which cell of the trace the client is,    *)
(* from a Layout of the cells that gives each chunk its place.  What it     *)
(* cuts is FlattenSeq of its segments: that is a fold, so the module begins *)
(* that part with what FlattenSeq does to Append, proved by its recursive   *)
(* definition.  SelectionInv says what quick_min_k_fp has parted its buffer  *)
(* into: with the pivot put back the buffer is a rearrangement of what was  *)
(* to be searched, each step exchanges two pairs of it, and every element   *)
(* outside the frame is on the right side.  Its other parts say what the    *)
(* features selected so far stand for.                                     *)
(*                                                                         *)
(* ClientInv joins them; each action is a step of one layer and leaves the  *)
(* others, but for CutSegment, whose segment is what is selected of next,   *)
(* and RouteHere, whose features enter the cache.                          *)
(***************************************************************************)
EXTENDS ClientFile, NodeChoiceProofs

-----------------------------------------------------------------------------
(*                            The LRU cache                                *)

(* What the blocks of s contain.                                           *)
Mapped(m, s) == [k \in DOMAIN s |-> m[s[k]]]

(* The blocks of S have their contents in V; none of s but e has e's.      *)
Valued(m, S, V) == \A z \in S : m[z] \in V
Told(m, s, e) == \A k \in 1 .. Len(s) : m[s[k]] = m[e] => s[k] = e

LEMMA MappedType ==
  ASSUME NEW S, NEW V, NEW s \in Seq(S), NEW m, Valued(m, S, V)
  PROVE  Mapped(m, s) \in Seq(V) /\ Len(Mapped(m, s)) = Len(s)
<1> DEFINE n == Len(s)
<1>1. n \in Nat /\ DOMAIN s = 1 .. n /\ \A k \in 1 .. n : s[k] \in S
  OBVIOUS
<1>2. Mapped(m, s) = [k \in 1 .. n |-> m[s[k]]] /\ \A k \in 1 .. n : m[s[k]] \in V
  BY <1>1 DEF Mapped, Valued
<1> HIDE DEF n
<1> QED BY <1>1, <1>2 DEF n

LEMMA MappedAppend ==
  ASSUME NEW S, NEW s \in Seq(S), NEW x \in S, NEW m
  PROVE  Mapped(m, Append(s, x)) = Append(Mapped(m, s), m[x])
<1> DEFINE n == Len(s)
           a == Append(s, x)
           ms == Mapped(m, s)
<1>1. n \in Nat /\ DOMAIN s = 1 .. n /\ DOMAIN a = 1 .. n + 1 /\ a[n + 1] = x
      /\ \A k \in 1 .. n : a[k] = s[k] /\ s[k] \in S
  OBVIOUS
<1> DEFINE V == {m[z] : z \in S}
<1>2. ms = [k \in 1 .. n |-> m[s[k]]]
  BY <1>1 DEF Mapped
<1>3. ms \in Seq(V) /\ Len(ms) = n
  <2>1. Valued(m, S, V)
    BY DEF Valued
  <2> HIDE DEF V
  <2> QED BY <2>1, MappedType
<1>4. Mapped(m, a) = [k \in 1 .. n + 1 |-> m[a[k]]]
  BY <1>1 DEF Mapped
<1>5. Append(ms, m[x]) = [k \in 1 .. n + 1 |-> IF k <= n THEN ms[k] ELSE m[x]]
  <2> HIDE DEF ms, n
  <2> QED BY <1>1, <1>3
<1>6. \A k \in 1 .. n + 1 : m[a[k]] = IF k <= n THEN ms[k] ELSE m[x]
  <2> TAKE k \in 1 .. n + 1
  <2>1. CASE k <= n
    <3>1. k \in 1 .. n
      BY <1>1, <2>1
    <3>2. a[k] = s[k] /\ ms[k] = m[s[k]]
      <4> HIDE DEF ms, n, a
      <4> QED BY <1>1, <1>2, <3>1
    <3> HIDE DEF ms, n, a
    <3> QED BY <2>1, <3>2
  <2>2. CASE ~(k <= n)
    <3>1. k = n + 1
      BY <1>1, <2>2
    <3> HIDE DEF ms, n, a
    <3> QED BY <1>1, <2>2, <3>1
  <2> QED BY <2>1, <2>2
<1>7. Mapped(m, a) = Append(ms, m[x])
  <2> HIDE DEF ms, n, a
  <2> QED BY <1>4, <1>5, <1>6
<1> QED BY <1>7

(* Removing a block from a list removes its content from the contents, if   *)
(* no other block there has it.                                            *)
LEMMA WithoutMapped ==
  ASSUME NEW S, NEW V, NEW s \in Seq(S), NEW e \in S, NEW m, Valued(m, S, V), Told(m, s, e)
  PROVE  Without(Mapped(m, s), m[e]) = Mapped(m, Without(s, e))
<1> DEFINE n == Len(s)
           ms == Mapped(m, s)
<1>0. ASSUME NEW p \in Seq(S), NEW x \in S
      PROVE  Mapped(m, Append(p, x)) = Append(Mapped(m, p), m[x])
  BY MappedAppend
<1>1. n \in Nat /\ \A k \in 1 .. n : s[k] \in S
  OBVIOUS
<1>2. ms \in Seq(V) /\ Len(ms) = n
  BY MappedType
<1>3. \A k \in 1 .. n : ms[k] = m[s[k]]
  BY DEF Mapped
<1> HIDE DEF ms, n
<1>4. PICK r \in [0 .. n -> Seq(S \ {e})] : Copies(r, s, e)
  BY WithoutLoop DEF n
<1>5. PICK q \in [0 .. n -> Seq(V \ {m[e]})] : Copies(q, ms, m[e])
  BY <1>2, WithoutLoop
<1>6. /\ r[0] = <<>> /\ Without(s, e) = r[n]
      /\ \A k \in 1 .. n : r[k] = IF s[k] = e THEN r[k - 1] ELSE Append(r[k - 1], s[k])
  BY <1>4 DEF Copies, n
<1>7. /\ q[0] = <<>> /\ Without(ms, m[e]) = q[n]
      /\ \A k \in 1 .. n : q[k] = IF ms[k] = m[e] THEN q[k - 1] ELSE Append(q[k - 1], ms[k])
  BY <1>2, <1>5 DEF Copies
<1> DEFINE G == {k \in 0 .. n : q[k] = Mapped(m, r[k])}
<1>8. 0 \in G
  <2>1. Mapped(m, <<>>) = <<>>
    BY DEF Mapped
  <2> QED BY <1>1, <1>6, <1>7, <2>1
<1>9. ASSUME NEW k \in 1 .. n, k - 1 \in G PROVE k \in G
  <2>1. k \in 0 .. n /\ k - 1 \in 0 .. n /\ q[k - 1] = Mapped(m, r[k - 1])
    BY <1>1, <1>9
  <2>2. r[k - 1] \in Seq(S)
    <3>1. r[k - 1] \in Seq(S \ {e})
      BY <1>4, <2>1
    <3> QED BY <3>1
  <2>3. CASE s[k] = e
    BY <1>3, <1>6, <1>7, <2>1, <2>3
  <2>4. CASE s[k] # e
    <3>1. ms[k] # m[e] /\ ms[k] = m[s[k]] /\ s[k] \in S
      BY <1>1, <1>3, <2>4 DEF n, Told
    <3>2. q[k] = Append(q[k - 1], m[s[k]]) /\ r[k] = Append(r[k - 1], s[k])
      BY <1>6, <1>7, <2>4, <3>1
    <3>3. Mapped(m, Append(r[k - 1], s[k])) = Append(Mapped(m, r[k - 1]), m[s[k]])
      BY <1>0, <2>2, <3>1
    <3> QED BY <2>1, <3>2, <3>3
  <2> QED BY <2>3, <2>4
<1>10. \A k \in 0 .. n : k \in G
  <2> HIDE DEF G
  <2> QED BY <1>1, <1>8, <1>9, UpTo
<1>11. q[n] = Mapped(m, r[n])
  BY <1>1, <1>10
<1> QED BY <1>6, <1>7, <1>11 DEF ms

(* Nothing is removed that is not there.                                   *)
LEMMA WithoutAbsent ==
  ASSUME NEW S, NEW s \in Seq(S), NEW e, \A k \in 1 .. Len(s) : s[k] # e
  PROVE  Without(s, e) = s
<1> DEFINE n == Len(s)
           G(r) == {k \in 0 .. n : r[k] = SubSeq(s, 1, k)}
<1>1. n \in Nat
  OBVIOUS
<1>2. PICK r \in [0 .. n -> Seq(S \ {e})] : Copies(r, s, e)
  BY WithoutLoop
<1>3. /\ r[0] = <<>> /\ Without(s, e) = r[n]
      /\ \A k \in 1 .. n : r[k] = Append(r[k - 1], s[k])
  BY <1>2 DEF Copies
<1>4. 0 \in G(r)
  <2>1. SubSeq(s, 1, 0) = <<>> /\ 0 \in 0 .. n
    BY <1>1
  <2> HIDE DEF n
  <2> QED BY <1>3, <2>1
<1>5. ASSUME NEW k \in 1 .. n, k - 1 \in G(r) PROVE k \in G(r)
  <2>1. r[k] = Append(SubSeq(s, 1, k - 1), s[k])
    BY <1>3, <1>5
  <2>2. Append(SubSeq(s, 1, k - 1), s[k]) = SubSeq(s, 1, k)
    OBVIOUS
  <2> QED BY <1>1, <2>1, <2>2
<1>6. \A k \in 0 .. n : k \in G(r)
  <2> HIDE DEF G, n
  <2> QED BY <1>1, <1>4, <1>5, UpTo
<1>7. r[n] = SubSeq(s, 1, n)
  BY <1>1, <1>6
<1>8. SubSeq(s, 1, n) = s
  OBVIOUS
<1> QED BY <1>3, <1>7, <1>8

(* A list without repetitions that one of its elements is removed from.    *)
LEMMA WithoutInjective ==
  ASSUME NEW S, NEW s \in Seq(S), IsInjective(s), NEW e \in ToSet(s)
  PROVE  /\ Without(s, e) \in Seq(S) /\ IsInjective(Without(s, e))
         /\ Len(Without(s, e)) = Len(s) - 1
         /\ ToSet(Without(s, e)) = ToSet(s) \ {e}
<1> DEFINE w == Without(s, e)
<1>1. /\ w \in Seq(S \ {e}) /\ Len(w) + Cardinality(PlacesOf(s, e)) = Len(s)
      /\ ToSet(w) = ToSet(s) \ {e}
  BY WithoutSound
<1>2. Cardinality(PlacesOf(s, e)) = 1
  <2>1. PICK k \in DOMAIN s : s[k] = e
    BY DEF ToSet
  <2>2. PlacesOf(s, e) = {k}
    BY <2>1 DEF PlacesOf, IsInjective
  <2> QED BY <2>2, FS_Singleton
<1> HIDE DEF w
<1>3. w \in Seq(S)
  BY <1>1
<1>4. Len(w) = Len(s) - 1 /\ Len(w) \in Nat /\ DOMAIN w = 1 .. Len(w) /\ Len(s) \in Nat
  BY <1>1, <1>2, <1>3
<1>5. IsFiniteSet(ToSet(s)) /\ Cardinality(ToSet(s)) = Len(s)
  BY InjectiveSize
<1>6. Cardinality(ToSet(w)) = Len(w)
  BY <1>1, <1>4, <1>5, FS_RemoveElement
<1>7. w \in Surjection(1 .. Len(w), ToSet(w))
  BY <1>3, <1>4 DEF Surjection, ToSet
<1>8. IsFiniteSet(1 .. Len(w)) /\ Cardinality(1 .. Len(w)) = Len(w)
  BY <1>4, IndicesFinite
<1>9. w \in Injection(1 .. Len(w), ToSet(w))
  BY <1>6, <1>7, <1>8, FS_SurjSameCardinalityImpliesInj
<1>10. IsInjective(w)
  BY <1>4, <1>9 DEF Injection, IsInjective
<1> QED BY <1>1, <1>3, <1>4, <1>10 DEF w

(* ... that a new element is added to, ...                                 *)
LEMMA InjectiveAppend ==
  ASSUME NEW S, NEW s \in Seq(S), IsInjective(s), NEW x \in S, x \notin ToSet(s)
  PROVE  /\ Append(s, x) \in Seq(S) /\ IsInjective(Append(s, x))
         /\ Len(Append(s, x)) = Len(s) + 1 /\ ToSet(Append(s, x)) = ToSet(s) \cup {x}
<1> DEFINE a == Append(s, x)
           n == Len(s)
<1>1. Len(a) = n + 1 /\ ToSet(a) = ToSet(s) \cup {x}
  BY ToSetAppend
<1>2. n \in Nat /\ DOMAIN s = 1 .. n /\ DOMAIN a = 1 .. n + 1 /\ a[n + 1] = x /\ a \in Seq(S)
      /\ \A k \in 1 .. n : a[k] = s[k]
  OBVIOUS
<1>3. \A k \in 1 .. n : s[k] # x
  BY <1>2 DEF ToSet
<1>4. \A k \in 1 .. n + 1 : k \in 1 .. n \/ k = n + 1
  BY <1>2
<1> HIDE DEF a, n
<1>5. IsInjective(a)
  BY <1>2, <1>3, <1>4 DEF IsInjective
<1>6. /\ a \in Seq(S) /\ IsInjective(a)
      /\ Len(a) = n + 1 /\ ToSet(a) = ToSet(s) \cup {x}
  BY <1>1, <1>2, <1>5
<1> QED BY <1>6 DEF a, n

(* ... and that the first element is taken from.                           *)
LEMMA TailInjective ==
  ASSUME NEW S, NEW s \in Seq(S), IsInjective(s), s # <<>>
  PROVE  /\ Tail(s) \in Seq(S) /\ IsInjective(Tail(s)) /\ Len(Tail(s)) = Len(s) - 1
         /\ Head(s) \in ToSet(s) /\ ToSet(Tail(s)) = ToSet(s) \ {Head(s)}
<1> DEFINE n == Len(s)
           t == Tail(s)
<1>1. n \in Nat \ {0} /\ DOMAIN s = 1 .. n /\ DOMAIN t = 1 .. n - 1 /\ t \in Seq(S)
      /\ Len(t) = n - 1 /\ Head(s) = s[1] /\ \A k \in 1 .. n - 1 : t[k] = s[k + 1]
  OBVIOUS
<1> HIDE DEF n, t
<1>2. \A k \in 1 .. n - 1 : k + 1 \in 1 .. n /\ k + 1 # 1
  BY <1>1
<1>3. \A k \in 1 .. n : k = 1 \/ (k - 1 \in 1 .. n - 1 /\ (k - 1) + 1 = k)
  BY <1>1
<1>4. 1 \in 1 .. n /\ \A j, k \in 1 .. n - 1 : j + 1 = k + 1 => j = k
  BY <1>1
<1>5. IsInjective(t)
  BY <1>1, <1>2, <1>4 DEF IsInjective
<1>6. ToSet(t) = ToSet(s) \ {s[1]}
  <2>1. ASSUME NEW x \in ToSet(t) PROVE x \in ToSet(s) \ {s[1]}
    BY <1>1, <1>2, <1>4, <2>1 DEF ToSet, IsInjective
  <2>2. ASSUME NEW x \in ToSet(s) \ {s[1]} PROVE x \in ToSet(t)
    <3>1. PICK k \in 1 .. n : x = s[k]
      BY <1>1 DEF ToSet
    <3>2. k - 1 \in 1 .. n - 1 /\ x = t[k - 1]
      BY <1>1, <1>3, <3>1
    <3> QED BY <1>1, <3>2 DEF ToSet
  <2> QED BY <2>1, <2>2
<1> QED BY <1>1, <1>4, <1>5, <1>6 DEF ToSet, t, n

-----------------------------------------------------------------------------
(* The invariant of the cache is what the run checks of it, said of         *)
(* elements.                                                               *)
CacheInv == CacheTypeOK /\ ListIsTable /\ KeysDiffer

LEMMA CacheInvIs ==
  CacheInv <=>
    /\ CacheTypeOK /\ KeysDiffer
    /\ IsInjective(list) /\ ToSet(list) = table /\ Len(list) = size
    /\ \A b \in Blocks : b \in table <=> mem[b] # Free
BY DEF CacheInv, CacheTypeOK, ListIsTable, IsInjective, ToSet

LEMMA CacheStarts == CacheInit => CacheInv
<1> SUFFICES ASSUME CacheInit PROVE CacheInv
  OBVIOUS
<1>1. list = <<>> /\ table = {} /\ size = 0 /\ todo = <<>> /\ mem = [b \in Blocks |-> Free]
  BY DEF CacheInit
<1>2. CacheTypeOK
  BY <1>1, CacheAssumption DEF CacheTypeOK
<1>3. ListIsTable /\ KeysDiffer
  BY <1>1 DEF ListIsTable, KeysDiffer
<1> QED BY <1>2, <1>3 DEF CacheInv

LEMMA EnterKeeps ==
  ASSUME CacheInv, NEW q \in Seq(Features), Enter(q)
  PROVE  CacheInv'
BY DEF CacheInv, CacheTypeOK, ListIsTable, KeysDiffer, Enter

LEMMA FreeKeeps ==
  ASSUME CacheInv, FreeCache
  PROVE  CacheInv'
<1>1. /\ list' = <<>> /\ table' = {} /\ size' = 0 /\ todo' = todo
      /\ mem' = [b \in Blocks |-> IF b \in table THEN Free ELSE mem[b]]
  BY DEF FreeCache
<1>2. /\ mem \in [Blocks -> Features \cup {Free}] /\ todo \in Seq(Features)
      /\ \A b \in Blocks : b \in table <=> mem[b] # Free
  BY DEF CacheInv, CacheTypeOK, ListIsTable
<1>3. mem' \in [Blocks -> Features \cup {Free}] /\ \A b \in Blocks : mem'[b] = Free
  BY <1>1, <1>2
<1>4. CacheTypeOK'
  BY <1>1, <1>2, <1>3, CacheAssumption DEF CacheTypeOK
<1>5. ListIsTable' /\ KeysDiffer'
  BY <1>1, <1>3 DEF ListIsTable, KeysDiffer
<1> QED BY <1>4, <1>5 DEF CacheInv

(* What a hit makes of the list.                                           *)
LEMMA HitMoves ==
  ASSUME CacheInv, NEW b \in Blocks, Hit(b)
  PROVE  /\ list \in Seq(Blocks) /\ IsInjective(list) /\ b \in ToSet(list)
         /\ mem[b] = Head(todo) /\ todo # <<>> /\ todo' = Tail(todo)
         /\ list' = Append(Without(list, b), b)
         /\ table' = table /\ size' = size /\ mem' = mem
         /\ list' \in Seq(Blocks) /\ IsInjective(list')
         /\ ToSet(list') = table /\ Len(list') = size
<1>1. /\ list \in Seq(Blocks) /\ IsInjective(list) /\ ToSet(list) = table /\ Len(list) = size
  BY CacheInvIs DEF CacheTypeOK
<1>2. /\ todo # <<>> /\ b \in table /\ mem[b] = Head(todo) /\ todo' = Tail(todo)
      /\ list' = Append(Without(list, b), b)
      /\ table' = table /\ size' = size /\ mem' = mem
  BY DEF Hit, Found, ToEnd
<1> DEFINE w == Without(list, b)
<1>3. /\ w \in Seq(Blocks) /\ IsInjective(w) /\ Len(w) = Len(list) - 1
      /\ ToSet(w) = ToSet(list) \ {b}
  BY <1>1, <1>2, WithoutInjective
<1> HIDE DEF w
<1>4. /\ Append(w, b) \in Seq(Blocks) /\ IsInjective(Append(w, b))
      /\ Len(Append(w, b)) = Len(w) + 1 /\ ToSet(Append(w, b)) = ToSet(w) \cup {b}
  BY <1>3, InjectiveAppend
<1>5. list' = Append(w, b)
  BY <1>2 DEF w
<1>6. Len(list) \in Nat
  BY <1>1
<1>7. Len(list') = size
  BY <1>1, <1>3, <1>4, <1>5, <1>6
<1>8. ToSet(list') = table
  BY <1>1, <1>2, <1>3, <1>4, <1>5
<1> QED BY <1>1, <1>2, <1>4, <1>5, <1>7, <1>8

LEMMA HitKeeps ==
  ASSUME CacheInv, NEW b \in Blocks, Hit(b)
  PROVE  CacheInv'
<1>1. /\ todo # <<>> /\ todo' = Tail(todo) /\ table' = table /\ size' = size /\ mem' = mem
      /\ list' \in Seq(Blocks) /\ IsInjective(list')
      /\ ToSet(list') = table /\ Len(list') = size
  BY HitMoves
<1>2. /\ CacheTypeOK /\ KeysDiffer /\ \A c \in Blocks : c \in table <=> mem[c] # Free
  BY CacheInvIs
<1>3. todo' \in Seq(Features)
  BY <1>1, <1>2 DEF CacheTypeOK
<1>4. CacheTypeOK' /\ KeysDiffer'
  BY <1>1, <1>2, <1>3 DEF CacheTypeOK, KeysDiffer
<1>5. ListIsTable'
  <2>1. DOMAIN list' = 1 .. Len(list')
    BY <1>1
  <2> QED BY <1>1, <1>2, <2>1 DEF ListIsTable, IsInjective, ToSet
<1> QED BY <1>4, <1>5 DEF CacheInv

(* The block that a full cache frees is the one at the head of its list.   *)
LEMMA MissEnters ==
  ASSUME CacheInv, NEW b \in Blocks, Miss(b)
  PROVE  /\ list \in Seq(Blocks) /\ IsInjective(list) /\ ToSet(list) = table
         /\ Len(list) = size /\ b \notin table /\ todo # <<>> /\ todo' = Tail(todo)
         /\ \A c \in table : mem[c] # Head(todo)
         /\ Head(todo) \in Features
         /\ IF size = LCACHE_SIZE
              THEN /\ list # <<>> /\ Head(list) \in table
                   /\ table' = (table \cup {b}) \ {Head(list)}
                   /\ mem' = [mem EXCEPT ![b] = Head(todo), ![Head(list)] = Free]
                   /\ list' = Append(Tail(list), b)
                   /\ size' = size
              ELSE /\ table' = table \cup {b}
                   /\ mem' = [mem EXCEPT ![b] = Head(todo)]
                   /\ list' = Append(list, b)
                   /\ size' = size + 1
<1> DEFINE f == Head(todo)
           h == Head(list)
           entered == [mem EXCEPT ![b] = f]
<1>1. /\ list \in Seq(Blocks) /\ IsInjective(list) /\ ToSet(list) = table /\ Len(list) = size
      /\ table \subseteq Blocks /\ mem \in [Blocks -> Features \cup {Free}]
      /\ todo \in Seq(Features) /\ KeysDiffer
      /\ \A c \in Blocks : c \in table <=> mem[c] # Free
  BY CacheInvIs DEF CacheTypeOK
<1>2. /\ todo # <<>> /\ Found(f) = {} /\ mem[b] = Free /\ todo' = Tail(todo)
      /\ IF Full
           THEN \E victim \in {v \in table \cup {b} : entered[v] = entered[h]} :
                  /\ table' = (table \cup {b}) \ {victim}
                  /\ mem' = [entered EXCEPT ![victim] = Free]
                  /\ list' = Append(Tail(list), b)
                  /\ UNCHANGED size
           ELSE /\ table' = table \cup {b}
                /\ mem' = entered
                /\ list' = Append(list, b)
                /\ size' = size + 1
  BY DEF Miss, Freed
<1>3. b \notin table /\ f \in Features
  BY <1>1, <1>2
<1>4. \A c \in table : mem[c] # f
  BY <1>2 DEF Found
<1>5. CASE size = LCACHE_SIZE
  <2>1. list # <<>> /\ h \in table
    <3>1. Len(list) # 0
      BY <1>1, <1>5, CacheAssumption
    <3>2. list # <<>>
      BY <3>1
    <3> QED BY <1>1, <3>2, TailInjective
  <2>2. PICK victim \in table \cup {b} :
          /\ entered[victim] = entered[h]
          /\ table' = (table \cup {b}) \ {victim}
          /\ mem' = [entered EXCEPT ![victim] = Free]
          /\ list' = Append(Tail(list), b)
          /\ size' = size
    BY <1>2, <1>5 DEF Full
  <2>3. entered[h] = mem[h] /\ entered[b] = f /\ \A c \in table : entered[c] = mem[c]
    BY <1>1, <1>3, <2>1
  <2>4. victim # b
    BY <1>4, <2>1, <2>2, <2>3
  <2>5. victim = h
    BY <1>1, <2>1, <2>2, <2>3, <2>4 DEF KeysDiffer
  <2>6. mem' = [mem EXCEPT ![b] = f, ![h] = Free]
    BY <2>2, <2>5
  <2> QED BY <1>1, <1>2, <1>3, <1>4, <1>5, <2>1, <2>2, <2>5, <2>6
<1>6. CASE size # LCACHE_SIZE
  <2>1. /\ table' = table \cup {b} /\ mem' = entered
        /\ list' = Append(list, b) /\ size' = size + 1
    BY <1>2, <1>6 DEF Full
  <2> QED BY <1>1, <1>2, <1>3, <1>4, <1>6, <2>1
<1> QED BY <1>5, <1>6

(* What a miss makes of the list: the block that it allocates comes last.  *)
LEMMA MissList ==
  ASSUME CacheInv, NEW b \in Blocks, Miss(b)
  PROVE  /\ list' \in Seq(Blocks) /\ IsInjective(list') /\ ToSet(list') = table'
         /\ Len(list') = size' /\ table' \subseteq Blocks
<1>1. /\ list \in Seq(Blocks) /\ IsInjective(list) /\ ToSet(list) = table
      /\ Len(list) = size /\ b \notin table
      /\ IF size = LCACHE_SIZE
           THEN /\ list # <<>> /\ Head(list) \in table
                /\ table' = (table \cup {b}) \ {Head(list)}
                /\ list' = Append(Tail(list), b)
                /\ size' = size
           ELSE /\ table' = table \cup {b}
                /\ list' = Append(list, b)
                /\ size' = size + 1
  BY MissEnters
<1>2. table \subseteq Blocks
  BY DEF CacheInv, CacheTypeOK
<1>3. CASE size = LCACHE_SIZE
  <2> DEFINE t == Tail(list)
  <2>1. /\ list # <<>> /\ Head(list) \in table /\ table' = (table \cup {b}) \ {Head(list)}
        /\ list' = Append(t, b) /\ size' = size
    BY <1>1, <1>3
  <2>2. /\ t \in Seq(Blocks) /\ IsInjective(t) /\ Len(t) = Len(list) - 1
        /\ ToSet(t) = ToSet(list) \ {Head(list)}
    BY <1>1, <2>1, TailInjective
  <2> HIDE DEF t
  <2>3. b \notin ToSet(t)
    BY <1>1, <2>2
  <2>4. /\ Append(t, b) \in Seq(Blocks) /\ IsInjective(Append(t, b))
        /\ Len(Append(t, b)) = Len(t) + 1 /\ ToSet(Append(t, b)) = ToSet(t) \cup {b}
    BY <2>2, <2>3, InjectiveAppend
  <2>5. Len(list') = size'
    <3>1. Len(list) \in Nat
      BY <1>1
    <3> QED BY <1>1, <2>1, <2>2, <2>4, <3>1
  <2>6. ToSet(list') = table'
    <3>1. b # Head(list)
      BY <1>1, <2>1
    <3> QED BY <1>1, <2>1, <2>2, <2>4, <3>1
  <2> QED BY <1>2, <2>1, <2>4, <2>5, <2>6
<1>4. CASE size # LCACHE_SIZE
  <2>1. table' = table \cup {b} /\ list' = Append(list, b) /\ size' = size + 1
    BY <1>1, <1>4
  <2>2. /\ Append(list, b) \in Seq(Blocks) /\ IsInjective(Append(list, b))
        /\ Len(Append(list, b)) = Len(list) + 1
        /\ ToSet(Append(list, b)) = ToSet(list) \cup {b}
    BY <1>1, InjectiveAppend
  <2> QED BY <1>1, <1>2, <2>1, <2>2
<1> QED BY <1>3, <1>4

LEMMA MissKeeps ==
  ASSUME CacheInv, NEW b \in Blocks, Miss(b)
  PROVE  CacheInv'
<1> DEFINE f == Head(todo)
           h == Head(list)
<1>1. /\ list' \in Seq(Blocks) /\ IsInjective(list') /\ ToSet(list') = table'
      /\ Len(list') = size' /\ table' \subseteq Blocks
  BY MissList
<1>2. /\ b \notin table /\ todo # <<>> /\ todo' = Tail(todo) /\ Len(list) = size
      /\ \A c \in table : mem[c] # f
      /\ f \in Features
      /\ IF size = LCACHE_SIZE
           THEN /\ list # <<>> /\ h \in table
                /\ table' = (table \cup {b}) \ {h}
                /\ mem' = [mem EXCEPT ![b] = f, ![h] = Free]
                /\ size' = size
           ELSE /\ table' = table \cup {b}
                /\ mem' = [mem EXCEPT ![b] = f]
                /\ size' = size + 1
  BY MissEnters
<1>3. /\ table \subseteq Blocks /\ size \in 0 .. LCACHE_SIZE /\ KeysDiffer
      /\ mem \in [Blocks -> Features \cup {Free}]
      /\ todo \in Seq(Features)
      /\ \A c \in Blocks : c \in table <=> mem[c] # Free
  BY CacheInvIs DEF CacheTypeOK
<1> HIDE DEF f, h
<1>4. todo' \in Seq(Features)
  BY <1>2, <1>3
<1>5. size' \in 0 .. LCACHE_SIZE
  BY <1>2, <1>3, CacheAssumption
<1>6. f # Free
  BY <1>2, CacheAssumption
<1>7. /\ mem' \in [Blocks -> Features \cup {Free}]
      /\ \A c \in Blocks : c \in table' <=> mem'[c] # Free
      /\ \A c \in table' : mem'[c] = IF c = b THEN f ELSE mem[c]
  <2>1. CASE size = LCACHE_SIZE
    <3>1. /\ h \in table /\ table' = (table \cup {b}) \ {h}
          /\ mem' = [mem EXCEPT ![b] = f, ![h] = Free]
      BY <1>2, <2>1
    <3>2. h \in Blocks /\ h # b
      BY <1>2, <1>3, <3>1
    <3>3. /\ mem' \in [Blocks -> Features \cup {Free}] /\ mem'[b] = f /\ mem'[h] = Free
          /\ \A c \in Blocks : c # b /\ c # h => mem'[c] = mem[c]
      BY <1>2, <1>3, <3>1, <3>2
    <3> QED BY <1>1, <1>3, <1>6, <3>1, <3>2, <3>3
  <2>2. CASE size # LCACHE_SIZE
    <3>1. table' = table \cup {b} /\ mem' = [mem EXCEPT ![b] = f]
      BY <1>2, <2>2
    <3> QED BY <1>1, <1>2, <1>3, <1>6, <3>1
  <2> QED BY <2>1, <2>2
<1>8. \A c \in table' : c = b \/ c \in table
  BY <1>2
<1>9. KeysDiffer'
  BY <1>2, <1>3, <1>7, <1>8 DEF KeysDiffer, f
<1>10. CacheTypeOK'
  BY <1>1, <1>4, <1>5, <1>7 DEF CacheTypeOK
<1>11. ListIsTable'
  <2>1. DOMAIN list' = 1 .. Len(list')
    BY <1>1
  <2> QED BY <1>1, <1>7, <2>1 DEF ListIsTable, IsInjective, ToSet
<1> QED BY <1>9, <1>10, <1>11 DEF CacheInv

LEMMA CacheStutter ==
  ASSUME CacheInv, UNCHANGED cacheVars
  PROVE  CacheInv'
BY DEF CacheInv, CacheTypeOK, ListIsTable, KeysDiffer, cacheVars

-----------------------------------------------------------------------------
(* What the cache holds, and what LruSet is asked: the operators of the     *)
(* abstract cache are those of FeatureCache.                               *)
Recent == Mapped(mem, list)

LEMMA AbstractOperators ==
  ASSUME NEW r, NEW f, NEW n
  PROVE  Abstract!Entered(r, f, n) = Entered(r, f, n)
<1>1. Abstract!Without(r, f) = Without(r, f)
  BY DEF Abstract!Without, Without
<1> QED BY <1>1 DEF Abstract!Entered, Entered

LEMMA AbstractInit == CacheInit => Abstract!Init
BY DEF CacheInit, Abstract!Init

LEMMA MappedAgrees ==
  ASSUME NEW S, NEW s \in Seq(S), NEW a, NEW b, \A z \in ToSet(s) : a[z] = b[z]
  PROVE  Mapped(a, s) = Mapped(b, s)
BY DEF Mapped, ToSet

LEMMA TailIs ==
  ASSUME NEW S, NEW s \in Seq(S), s # <<>>
  PROVE  Tail(s) = [k \in 1 .. Len(s) - 1 |-> s[k + 1]]
<1> DEFINE t == Tail(s)
<1>1. t \in Seq(S) /\ Len(t) = Len(s) - 1 /\ Len(s) \in Nat
      /\ \A k \in 1 .. Len(t) : t[k] = s[k + 1]
  OBVIOUS
<1> HIDE DEF t
<1>2. t = [k \in 1 .. Len(t) |-> t[k]]
  BY <1>1
<1> QED BY <1>1, <1>2 DEF t

LEMMA MappedTail ==
  ASSUME NEW S, NEW s \in Seq(S), s # <<>>, NEW m
  PROVE  Mapped(m, Tail(s)) = Tail(Mapped(m, s))
<1> DEFINE n == Len(s)
           t == Tail(s)
           V == {m[z] : z \in S}
           ms == Mapped(m, s)
<1>1. n \in Nat \ {0} /\ DOMAIN s = 1 .. n /\ DOMAIN t = 1 .. n - 1
      /\ \A k \in 1 .. n - 1 : t[k] = s[k + 1]
  OBVIOUS
<1>2. ms \in Seq(V) /\ Len(ms) = n
  <2>1. Valued(m, S, V)
    BY DEF Valued
  <2> HIDE DEF V, n, t, ms
  <2>2. Mapped(m, s) \in Seq(V) /\ Len(Mapped(m, s)) = Len(s)
    BY <2>1, MappedType
  <2> QED BY <2>2 DEF ms, n
<1>3. \A k \in 1 .. n : ms[k] = m[s[k]]
  BY <1>1 DEF Mapped
<1> HIDE DEF n, t, ms, V
<1>4. Mapped(m, t) = [k \in 1 .. n - 1 |-> m[t[k]]]
  BY <1>1 DEF Mapped
<1>5. Tail(ms) = [k \in 1 .. n - 1 |-> ms[k + 1]]
  <2>1. ms # <<>>
    BY <1>1, <1>2
  <2> QED BY <1>1, <1>2, <2>1, TailIs
<1>6. \A k \in 1 .. n - 1 : k + 1 \in 1 .. n
  BY <1>1
<1>7. \A k \in 1 .. n - 1 : m[t[k]] = ms[k + 1]
  BY <1>1, <1>3, <1>6
<1>8. Mapped(m, t) = Tail(ms)
  BY <1>4, <1>5, <1>7
<1> QED BY <1>8 DEF t, ms

(* A hit uses a feature that the cache holds, ...                          *)
LEMMA HitUses ==
  ASSUME CacheInv, NEW b \in Blocks, Hit(b)
  PROVE  Mapped(mem', list') = Entered(Recent, Head(todo), LCACHE_SIZE)
<1> DEFINE w == Without(list, b)
           V == Features \cup {Free}
<1>1. /\ list \in Seq(Blocks) /\ IsInjective(list) /\ b \in ToSet(list)
      /\ mem[b] = Head(todo) /\ list' = Append(w, b) /\ mem' = mem
  BY HitMoves
<1>2. /\ KeysDiffer /\ ToSet(list) = table /\ Len(list) = size /\ size \in 0 .. LCACHE_SIZE
      /\ mem \in [Blocks -> V]
  BY CacheInvIs DEF CacheTypeOK
<1>3. w \in Seq(Blocks) /\ Len(w) = Len(list) - 1
  BY <1>1, WithoutInjective
<1>4. Told(mem, list, b)
  <2>1. DOMAIN list = 1 .. Len(list)
    BY <1>1
  <2> QED BY <1>1, <1>2, <2>1 DEF KeysDiffer, ToSet, Told
<1>5. Without(Recent, mem[b]) = Mapped(mem, w)
  <2> HIDE DEF V
  <2>1. list \in Seq(Blocks) /\ Valued(mem, Blocks, V)
    BY <1>1, <1>2 DEF Valued
  <2>2. Without(Mapped(mem, list), mem[b]) = Mapped(mem, Without(list, b))
    BY <1>4, <2>1, WithoutMapped
  <2> QED BY <2>2 DEF Recent
<1> HIDE DEF w
<1>6. Mapped(mem, w) \in Seq(V) /\ Len(Mapped(mem, w)) = Len(w)
  <2>1. Valued(mem, Blocks, V)
    BY <1>2 DEF Valued
  <2> HIDE DEF V
  <2> QED BY <1>3, <2>1, MappedType
<1>7. Len(w) # LCACHE_SIZE
  BY <1>2, <1>3, CacheAssumption
<1>8. Mapped(mem, Append(w, b)) = Append(Mapped(mem, w), mem[b])
  BY <1>3, MappedAppend
<1>9. Entered(Recent, mem[b], LCACHE_SIZE) = Append(Mapped(mem, w), mem[b])
  BY <1>5, <1>6, <1>7 DEF Entered
<1> QED BY <1>1, <1>8, <1>9

(* ... a miss one that it does not.                                        *)
LEMMA MissUses ==
  ASSUME CacheInv, NEW b \in Blocks, Miss(b)
  PROVE  Mapped(mem', list') = Entered(Recent, Head(todo), LCACHE_SIZE)
<1> DEFINE f == Head(todo)
           h == Head(list)
           V == Features \cup {Free}
<1>1. /\ list \in Seq(Blocks) /\ IsInjective(list) /\ ToSet(list) = table
      /\ Len(list) = size /\ b \notin table
      /\ \A c \in table : mem[c] # f
      /\ IF size = LCACHE_SIZE
           THEN /\ list # <<>> /\ h \in table
                /\ mem' = [mem EXCEPT ![b] = f, ![h] = Free]
                /\ list' = Append(Tail(list), b)
           ELSE /\ mem' = [mem EXCEPT ![b] = f]
                /\ list' = Append(list, b)
  BY MissEnters
<1>2. table \subseteq Blocks /\ mem \in [Blocks -> V]
  BY DEF CacheInv, CacheTypeOK
<1>3. Recent \in Seq(V) /\ Len(Recent) = size
  <2>1. Valued(mem, Blocks, V)
    BY <1>2 DEF Valued
  <2> HIDE DEF V
  <2> QED BY <1>1, <2>1, MappedType DEF Recent
<1>4. Without(Recent, f) = Recent
  <2>1. \A k \in 1 .. Len(Recent) : Recent[k] # f
    <3>1. DOMAIN list = 1 .. Len(list)
      BY <1>1
    <3> HIDE DEF f
    <3> QED BY <1>1, <1>3, <3>1 DEF Recent, Mapped, ToSet
  <2> HIDE DEF f, V
  <2> QED BY <1>3, <2>1, WithoutAbsent
<1> HIDE DEF f, h, V
<1>5. CASE size = LCACHE_SIZE
  <2> DEFINE t == Tail(list)
  <2>1. /\ list # <<>> /\ h \in table /\ list' = Append(t, b)
        /\ mem' = [mem EXCEPT ![b] = f, ![h] = Free]
    BY <1>1, <1>5
  <2>2. t \in Seq(Blocks) /\ ToSet(t) = ToSet(list) \ {h}
    BY <1>1, <2>1, TailInjective DEF h
  <2>3. Tail(Recent) = Mapped(mem, t)
    BY <1>1, <2>1, MappedTail DEF Recent
  <2> HIDE DEF t
  <2>4. mem'[b] = f /\ \A z \in ToSet(t) : mem'[z] = mem[z]
    BY <1>1, <1>2, <2>1, <2>2
  <2>5. Mapped(mem', t) = Mapped(mem, t)
    BY <2>2, <2>4, MappedAgrees
  <2>6. PICK m : m = mem'
    OBVIOUS
  <2>7. Mapped(m, Append(t, b)) = Append(Mapped(m, t), m[b])
    BY <2>2, MappedAppend
  <2>8. Entered(Recent, f, LCACHE_SIZE) = Append(Tail(Recent), f)
    BY <1>3, <1>4, <1>5 DEF Entered
  <2> QED BY <2>1, <2>3, <2>4, <2>5, <2>6, <2>7, <2>8 DEF f
<1>6. CASE size # LCACHE_SIZE
  <2>1. mem' = [mem EXCEPT ![b] = f] /\ list' = Append(list, b)
    BY <1>1, <1>6
  <2>2. mem'[b] = f /\ \A z \in ToSet(list) : mem'[z] = mem[z]
    BY <1>1, <1>2, <2>1
  <2>3. Mapped(mem', list) = Recent
    BY <1>1, <2>2, MappedAgrees DEF Recent
  <2>4. PICK m : m = mem'
    OBVIOUS
  <2>5. Mapped(m, Append(list, b)) = Append(Mapped(m, list), m[b])
    BY <1>1, MappedAppend
  <2>6. Entered(Recent, f, LCACHE_SIZE) = Append(Recent, f)
    BY <1>3, <1>4, <1>6 DEF Entered
  <2> QED BY <2>1, <2>2, <2>3, <2>4, <2>5, <2>6 DEF f
<1> QED BY <1>5, <1>6

(* What the cache's steps are to the abstract one.                         *)
LEMMA UpdateUses ==
  ASSUME CacheInv, UpdateLcache
  PROVE  CacheInv' /\ Abstract!Use
<1>1. PICK b \in Blocks : Hit(b) \/ Miss(b)
  BY DEF UpdateLcache
<1>2. CacheInv'
  BY <1>1, HitKeeps, MissKeeps
<1>3. /\ todo # <<>> /\ todo' = Tail(todo)
      /\ Mapped(mem', list') = Entered(Recent, Head(todo), LCACHE_SIZE)
  BY <1>1, HitMoves, HitUses, MissEnters, MissUses
<1>4. Abstract!Entered(Recent, Head(todo), LCACHE_SIZE)
        = Entered(Recent, Head(todo), LCACHE_SIZE)
  BY AbstractOperators
<1>5. Mapped(mem', list') = Abstract!Entered(Recent, Head(todo), LCACHE_SIZE)
  BY <1>3, <1>4
<1>6. /\ Mapped(mem', list') = [k \in DOMAIN list' |-> mem'[list'[k]]]
      /\ Recent = [k \in DOMAIN list |-> mem[list[k]]]
  BY DEF Mapped, Recent
<1>7. Abstract!Use
  BY <1>3, <1>5, <1>6 DEF Abstract!Use
<1> QED BY <1>2, <1>7

LEMMA EnterAsks ==
  ASSUME CacheInv, NEW q \in Seq(Features), Enter(q)
  PROVE  Abstract!Ask
BY DEF Enter, Abstract!Ask

LEMMA FreeForgets ==
  ASSUME FreeCache
  PROVE  Abstract!Forget
BY DEF FreeCache, Abstract!Forget

-----------------------------------------------------------------------------
(*                       Sequences of sequences                            *)

(* FlattenSeq goes through its sequences one by one.                       *)
Flattens(f, s) ==
  /\ f[0] = <<>>
  /\ \A j \in 1 .. Len(s) : f[j] = f[j - 1] \o s[j]
  /\ FlattenSeq(s) = f[Len(s)]

LEMMA FlattenLoop ==
  ASSUME NEW S, NEW s \in Seq(Seq(S))
  PROVE  \E f \in [0 .. Len(s) -> Seq(S)] : Flattens(f, s)
<1> DEFINE n == Len(s)
           R == Seq(S)
           Further(j, r) == r \o s[j]
           g == [j \in 1 .. n |-> [r \in R |-> Further(j, r)]]
           flatten == CHOOSE r : r = [j \in 1 .. n |->
                                        IF j = 1 THEN s[j] ELSE r[j - 1] \o s[j]]
<1>1. n \in Nat /\ DOMAIN s = 1 .. n /\ \A j \in 1 .. n : s[j] \in R
  OBVIOUS
<1>2. ASSUME NEW j \in 1 .. n, NEW r \in R PROVE Further(j, r) \in R
  <2>1. s[j] \in Seq(S) /\ r \in Seq(S)
    BY <1>1
  <2> QED BY <2>1
<1>3. PICK f : Loop(f, n, R, <<>>, g)
  <2>1. g \in [1 .. n -> [R -> R]] /\ <<>> \in R
    <3>1. <<>> \in R
      OBVIOUS
    <3> HIDE DEF R, n, Further
    <3> QED BY <1>2, <3>1
  <2> HIDE DEF g, n, R
  <2> QED BY <1>1, <2>1, RecursiveFunction
<1>4. f \in [0 .. n -> R] /\ f[0] = <<>>
  BY <1>3 DEF Loop
<1>5. ASSUME NEW j \in 1 .. n PROVE f[j] = f[j - 1] \o s[j]
  <2>1. f[j - 1] \in R /\ f[j] = g[j][f[j - 1]]
    <3>1. j - 1 \in 0 .. n
      BY <1>1
    <3> HIDE DEF g, R, n
    <3> QED BY <1>3, <1>4, <3>1 DEF Loop
  <2>2. g[j][f[j - 1]] = Further(j, f[j - 1])
    <3> HIDE DEF R, Further
    <3> QED BY <2>1
  <2> QED BY <2>1, <2>2
<1>6. CASE n = 0
  <2>1. FlattenSeq(s) = s /\ s = <<>>
    BY <1>6 DEF FlattenSeq
  <2> QED BY <1>1, <1>4, <1>5, <1>6, <2>1 DEF Flattens
<1>7. CASE n # 0
  <2>0. 1 \in 1 .. n
    BY <1>1, <1>7
  <2>1. f[1] = s[1]
    <3>1. f[1] = f[0] \o s[1] /\ s[1] \in R
      BY <1>1, <1>5, <2>0
    <3> QED BY <1>4, <3>1
  <2> DEFINE ff == [j \in 1 .. n |-> f[j]]
  <2>2. ff = [j \in 1 .. n |-> IF j = 1 THEN s[j] ELSE ff[j - 1] \o s[j]]
    <3>1. ASSUME NEW j \in 1 .. n
          PROVE  ff[j] = IF j = 1 THEN s[j] ELSE ff[j - 1] \o s[j]
      <4>1. CASE j = 1
        BY <2>1, <4>1
      <4>2. CASE j # 1
        <5>1. j - 1 \in 1 .. n
          BY <1>1, <4>2
        <5>2. ff[j] = f[j] /\ ff[j - 1] = f[j - 1] /\ f[j] = f[j - 1] \o s[j]
          <6> HIDE DEF n
          <6> QED BY <1>5, <5>1
        <5> HIDE DEF ff
        <5> QED BY <4>2, <5>2
      <4> QED BY <4>1, <4>2
    <3>2. ff = [j \in 1 .. n |-> ff[j]]
      OBVIOUS
    <3> HIDE DEF ff, n
    <3> QED BY <3>1, <3>2
  <2>3. flatten = [j \in 1 .. n |-> IF j = 1 THEN s[j] ELSE flatten[j - 1] \o s[j]]
    <3> HIDE DEF ff
    <3> QED BY <2>2
  <2>4. FlattenSeq(s) = flatten[n]
    BY <1>7 DEF FlattenSeq
  <2> HIDE DEF flatten
  <2> DEFINE G == {j \in 0 .. n : j = 0 \/ flatten[j] = f[j]}
  <2>5. 0 \in G
    BY <1>1
  <2>6. ASSUME NEW j \in 1 .. n, j - 1 \in G PROVE j \in G
    <3>1. j \in 0 .. n
      BY <1>1
    <3>2. flatten[j] = IF j = 1 THEN s[j] ELSE flatten[j - 1] \o s[j]
      <4> HIDE DEF n
      <4> QED BY <2>3
    <3>3. CASE j = 1
      BY <2>1, <3>1, <3>2, <3>3
    <3>4. CASE j # 1
      <4>1. flatten[j - 1] = f[j - 1]
        BY <1>1, <2>6, <3>4
      <4>2. f[j] = f[j - 1] \o s[j]
        BY <1>5
      <4> QED BY <3>1, <3>2, <3>4, <4>1, <4>2
    <3> QED BY <3>3, <3>4
  <2>7. \A j \in 0 .. n : j \in G
    <3> HIDE DEF G, n
    <3> QED BY <1>1, <2>5, <2>6, UpTo
  <2>8. flatten[n] = f[n]
    BY <1>1, <1>7, <2>7
  <2> HIDE DEF flatten, ff, g
  <2> QED BY <1>4, <1>5, <2>4, <2>8 DEF Flattens
<1> QED BY <1>6, <1>7

LEMMA FlattenEmpty == FlattenSeq(<<>>) = <<>>
BY DEF FlattenSeq

LEMMA FlattenType ==
  ASSUME NEW S, NEW s \in Seq(Seq(S))
  PROVE  FlattenSeq(s) \in Seq(S)
<1>1. PICK f \in [0 .. Len(s) -> Seq(S)] : Flattens(f, s)
  BY FlattenLoop
<1>2. Len(s) \in 0 .. Len(s) /\ FlattenSeq(s) = f[Len(s)]
  BY <1>1 DEF Flattens
<1> QED BY <1>1, <1>2

LEMMA FlattenAppend ==
  ASSUME NEW S, NEW s \in Seq(Seq(S)), NEW x \in Seq(S)
  PROVE  FlattenSeq(Append(s, x)) = FlattenSeq(s) \o x
<1> DEFINE n == Len(s)
           a == Append(s, x)
<1>1. /\ n \in Nat /\ Len(a) = n + 1 /\ a \in Seq(Seq(S)) /\ a[n + 1] = x
      /\ \A j \in 1 .. n : a[j] = s[j]
  OBVIOUS
<1> HIDE DEF a
<1>2. PICK f \in [0 .. Len(s) -> Seq(S)] : Flattens(f, s)
  BY FlattenLoop
<1>3. PICK h \in [0 .. Len(a) -> Seq(S)] : Flattens(h, a)
  BY <1>1, FlattenLoop
<1> HIDE DEF n
<1>4. /\ f[0] = <<>> /\ \A j \in 1 .. n : f[j] = f[j - 1] \o s[j]
      /\ FlattenSeq(s) = f[n]
  BY <1>2 DEF Flattens, n
<1>5. /\ h[0] = <<>> /\ \A j \in 1 .. n + 1 : h[j] = h[j - 1] \o a[j]
      /\ FlattenSeq(a) = h[n + 1]
  BY <1>1, <1>3 DEF Flattens
<1> DEFINE G == {j \in 0 .. n : f[j] = h[j]}
<1>6. 0 \in G
  BY <1>1, <1>4, <1>5
<1>7. ASSUME NEW j \in 1 .. n, j - 1 \in G PROVE j \in G
  <2>1. j \in 0 .. n /\ j \in 1 .. n + 1 /\ f[j - 1] = h[j - 1]
    BY <1>1, <1>7
  <2> QED BY <1>1, <1>4, <1>5, <2>1
<1>8. \A j \in 0 .. n : j \in G
  <2> HIDE DEF G
  <2> QED BY <1>1, <1>6, <1>7, UpTo
<1>9. f[n] = h[n] /\ n + 1 \in 1 .. n + 1 /\ (n + 1) - 1 = n
  BY <1>1, <1>8
<1>10. h[n + 1] = h[n] \o x
  BY <1>1, <1>5, <1>9
<1> QED BY <1>4, <1>5, <1>9, <1>10 DEF a

Joins(c, s, t) ==
  /\ Len(c) = Len(s) + Len(t)
  /\ \A k \in 1 .. Len(s) : c[k] = s[k]
  /\ \A k \in 1 .. Len(t) : c[Len(s) + k] = t[k]

LEMMA ConcatParts ==
  ASSUME NEW S, NEW s \in Seq(S), NEW t \in Seq(S)
  PROVE  s \o t \in Seq(S) /\ Joins(s \o t, s, t)
BY DEF Joins

(* What has been flattened stays where it is.                              *)
Begins(s, t) == Len(s) <= Len(t) /\ \A k \in 1 .. Len(s) : t[k] = s[k]

LEMMA FlattenBegins ==
  ASSUME NEW S, NEW s \in Seq(Seq(S)), NEW f \in [0 .. Len(s) -> Seq(S)], Flattens(f, s),
         NEW n \in 0 .. Len(s)
  PROVE  Begins(f[n], FlattenSeq(s))
<1> DEFINE N == Len(s)
           G == {m \in 0 .. N : n <= m => Begins(f[n], f[m])}
<1>1. N \in Nat /\ n \in 0 .. N /\ \A m \in 1 .. N : s[m] \in Seq(S)
  OBVIOUS
<1>2. ASSUME NEW m \in 0 .. N PROVE f[m] \in Seq(S) /\ Len(f[m]) \in Nat
  <2>1. f[m] \in Seq(S)
    OBVIOUS
  <2> QED BY <2>1
<1>3. \A m \in 1 .. N : f[m] = f[m - 1] \o s[m]
  BY DEF Flattens
<1> HIDE DEF N
<1>4. Begins(f[n], f[n])
  BY <1>1, <1>2 DEF Begins
<1>5. 0 \in G
  BY <1>1, <1>4
<1>6. ASSUME NEW m \in 1 .. N, m - 1 \in G PROVE m \in G
  <2>1. m \in 0 .. N /\ m - 1 \in 0 .. N
    BY <1>1
  <2>2. SUFFICES ASSUME n <= m PROVE Begins(f[n], f[m])
    BY <2>1
  <2>3. CASE n = m
    BY <1>4, <2>3
  <2>4. CASE n # m
    <3>1. n <= m - 1
      BY <1>1, <2>1, <2>2, <2>4
    <3>2. Begins(f[n], f[m - 1])
      BY <1>6, <3>1
    <3>3. /\ f[m] = f[m - 1] \o s[m] /\ f[m - 1] \in Seq(S) /\ s[m] \in Seq(S)
          /\ f[n] \in Seq(S)
      BY <1>1, <1>2, <1>3, <2>1
    <3>4. Joins(f[m], f[m - 1], s[m])
      BY <3>3, ConcatParts
    <3>5. Len(f[n]) \in Nat /\ Len(f[m - 1]) \in Nat /\ Len(s[m]) \in Nat
      BY <3>3
    <3>6. Len(f[n]) <= Len(f[m]) /\ Len(f[n]) <= Len(f[m - 1])
      <4>1. Len(f[n]) <= Len(f[m - 1])
        BY <3>2 DEF Begins
      <4>2. Len(f[m]) = Len(f[m - 1]) + Len(s[m])
        BY <3>4 DEF Joins
      <4>3. \A x, y, z \in Nat : x <= y => x <= y + z
        OBVIOUS
      <4> QED BY <3>5, <4>1, <4>2, <4>3
    <3>7. ASSUME NEW k \in 1 .. Len(f[n]) PROVE f[m][k] = f[n][k]
      <4>1. k \in 1 .. Len(f[m - 1])
        BY <3>5, <3>6
      <4>2. f[m][k] = f[m - 1][k] /\ f[m - 1][k] = f[n][k]
        BY <3>2, <3>4, <4>1 DEF Begins, Joins
      <4> QED BY <4>2
    <3> QED BY <3>6, <3>7 DEF Begins
  <2> QED BY <2>3, <2>4
<1>7. \A m \in 0 .. N : m \in G
  <2> HIDE DEF G
  <2> QED BY <1>1, <1>5, <1>6, UpTo
<1>8. Begins(f[n], f[N])
  BY <1>1, <1>7
<1> QED BY <1>8 DEF Flattens, N

-----------------------------------------------------------------------------
(*                             The trace                                   *)
CellKinds == [kind : {"header", "file", "path", "chunk"}, chunks : Nat,
              fp : Chunks \cup {Null}]

(* Where the cells of the files are: those of file n lie behind st[n - 1],  *)
(* and before st[n].                                                       *)
FileAt(c, at, file) ==
  /\ c[at + 1] = Cell("file", Len(file), Null)
  /\ c[at + 2] = Cell("path", 0, Null)
  /\ \A j \in 1 .. Len(file) : c[at + 2 + j] = Cell("chunk", 0, file[j])

Layout(b, c, st) ==
  /\ c \in Seq(CellKinds) /\ c[1] = Cell("header", 0, Null)
  /\ st \in [0 .. Len(b) -> Nat] /\ st[0] = 1 /\ st[Len(b)] = Len(c)
  /\ \A n \in 1 .. Len(b) : /\ st[n] = st[n - 1] + 2 + Len(b[n])
                            /\ st[n] <= Len(c)
                            /\ FileAt(c, st[n - 1], b[n])

LEMMA CellsOfFileAre ==
  ASSUME NEW file \in Seq(Chunks)
  PROVE  /\ CellsOfFile(file) \in Seq(CellKinds) /\ Len(CellsOfFile(file)) = Len(file) + 2
         /\ FileAt(CellsOfFile(file), 0, file)
<1> DEFINE h == <<Cell("file", Len(file), Null), Cell("path", 0, Null)>>
           t == [k \in DOMAIN file |-> Cell("chunk", 0, file[k])]
           n == Len(file)
           c == CellsOfFile(file)
<1>1. n \in Nat /\ DOMAIN file = 1 .. n /\ \A k \in 1 .. n : file[k] \in Chunks
  OBVIOUS
<1>2. Cell("file", n, Null) \in CellKinds /\ Cell("path", 0, Null) \in CellKinds
  BY <1>1 DEF Cell, CellKinds
<1>3. \A k \in 1 .. n : Cell("chunk", 0, file[k]) \in CellKinds
  BY <1>1 DEF Cell, CellKinds
<1>4. h \in Seq(CellKinds) /\ Len(h) = 2 /\ h[1] = Cell("file", n, Null)
      /\ h[2] = Cell("path", 0, Null)
  BY <1>2
<1>5. t \in Seq(CellKinds) /\ Len(t) = n /\ \A k \in 1 .. n : t[k] = Cell("chunk", 0, file[k])
  <2> HIDE DEF n
  <2> QED BY <1>1, <1>3
<1>6. c = h \o t
  BY DEF CellsOfFile
<1> HIDE DEF h, t, n, c
<1>7. /\ c \in Seq(CellKinds) /\ Len(c) = 2 + n
      /\ \A k \in 1 .. 2 : c[k] = h[k]
      /\ \A k \in 1 .. n : c[2 + k] = t[k]
  <2>1. c \in Seq(CellKinds) /\ Joins(c, h, t)
    BY <1>4, <1>5, <1>6, ConcatParts
  <2> QED BY <1>4, <1>5, <2>1 DEF Joins
<1>8. Len(c) = n + 2
  BY <1>1, <1>7
<1>9. c[0 + 1] = h[1] /\ c[0 + 2] = h[2]
  BY <1>7
<1>10. \A k \in 1 .. n : c[0 + 2 + k] = Cell("chunk", 0, file[k])
  BY <1>5, <1>7
<1> QED BY <1>4, <1>7, <1>8, <1>9, <1>10 DEF FileAt, c, n

FileCells(b) == [n \in DOMAIN b |-> CellsOfFile(b[n])]

LEMMA LayoutExists ==
  ASSUME NEW b \in Seq(Seq(Chunks))
  PROVE  \E st : Layout(b, Cells(b), st)
<1> DEFINE N == Len(b)
           s == FileCells(b)
           F == FlattenSeq(s)
           h == <<Cell("header", 0, Null)>>
           c == Cells(b)
<1>1. N \in Nat /\ DOMAIN b = 1 .. N /\ \A n \in 1 .. N : b[n] \in Seq(Chunks)
  OBVIOUS
<1>2. /\ s \in Seq(Seq(CellKinds)) /\ Len(s) = N
      /\ \A n \in 1 .. N : s[n] = CellsOfFile(b[n])
  <2>1. \A n \in 1 .. N : CellsOfFile(b[n]) \in Seq(CellKinds)
    BY <1>1, CellsOfFileAre
  <2> HIDE DEF N
  <2> QED BY <1>1, <2>1 DEF FileCells
<1> HIDE DEF s
<1>3. PICK f \in [0 .. Len(s) -> Seq(CellKinds)] : Flattens(f, s)
  BY <1>2, FlattenLoop
<1>4. \A n \in 0 .. N : f[n] \in Seq(CellKinds) /\ Len(f[n]) \in Nat /\ Begins(f[n], F)
  <2> HIDE DEF F, N
  <2> TAKE n \in 0 .. N
  <2>1. n \in 0 .. Len(s)
    BY <1>2
  <2>2. f[n] \in Seq(CellKinds)
    BY <1>3, <2>1
  <2>3. Begins(f[n], FlattenSeq(s))
    BY <1>2, <1>3, <2>1, FlattenBegins
  <2> QED BY <2>2, <2>3 DEF F
<1>5. F = f[N] /\ f[0] = <<>> /\ \A n \in 1 .. N : f[n] = f[n - 1] \o CellsOfFile(b[n])
  BY <1>2, <1>3 DEF Flattens
<1> HIDE DEF N, F
<1>6. F \in Seq(CellKinds) /\ N \in 0 .. N
  BY <1>1, <1>4, <1>5
<1>7. h \in Seq(CellKinds) /\ Len(h) = 1 /\ h[1] = Cell("header", 0, Null)
  <2>1. Cell("header", 0, Null) \in CellKinds
    BY DEF Cell, CellKinds
  <2> QED BY <2>1
<1>8. c = h \o F
  BY DEF Cells, FileCells, F, s
<1> HIDE DEF h, c
<1>9. /\ c \in Seq(CellKinds) /\ Len(c) = 1 + Len(F) /\ c[1] = Cell("header", 0, Null)
      /\ \A k \in 1 .. Len(F) : c[1 + k] = F[k]
  <2>1. c \in Seq(CellKinds) /\ Joins(c, h, F)
    BY <1>6, <1>7, <1>8, ConcatParts
  <2>2. 1 \in 1 .. 1
    OBVIOUS
  <2> QED BY <1>7, <2>1, <2>2 DEF Joins
<1> DEFINE st == [n \in 0 .. N |-> 1 + Len(f[n])]
<1>10. st \in [0 .. N -> Nat] /\ st[0] = 1 /\ st[N] = Len(c)
  <2>1. 0 \in 0 .. N /\ Len(f[0]) = 0
    BY <1>1, <1>5
  <2> QED BY <1>4, <1>5, <1>6, <1>9, <2>1
<1>11. ASSUME NEW n \in 1 .. N
       PROVE  /\ st[n] = st[n - 1] + 2 + Len(b[n]) /\ st[n] <= Len(c)
              /\ FileAt(c, st[n - 1], b[n])
  <2> DEFINE l == Len(f[n - 1])
             e == CellsOfFile(b[n])
             m == Len(b[n])
  <2>1. n \in 0 .. N /\ n - 1 \in 0 .. N /\ b[n] \in Seq(Chunks)
    BY <1>1
  <2>2. /\ e \in Seq(CellKinds) /\ Len(e) = m + 2 /\ FileAt(e, 0, b[n]) /\ m \in Nat
    BY <2>1, CellsOfFileAre
  <2>3. st[n] = 1 + Len(f[n]) /\ st[n - 1] = 1 + l /\ l \in Nat /\ f[n - 1] \in Seq(CellKinds)
    BY <1>4, <2>1
  <2> HIDE DEF st, e
  <2>4. f[n] = f[n - 1] \o e
    BY <1>5 DEF e
  <2>5. /\ Len(f[n]) = l + Len(e)
        /\ \A k \in 1 .. Len(e) : f[n][l + k] = e[k]
    <3>1. Joins(f[n], f[n - 1], e)
      BY <2>2, <2>3, <2>4, ConcatParts
    <3> QED BY <3>1 DEF Joins
  <2>6. Len(f[n]) <= Len(F) /\ \A k \in 1 .. Len(f[n]) : F[k] = f[n][k]
    BY <1>4, <2>1 DEF Begins
  <2>7. Len(F) \in Nat /\ Len(f[n]) = l + (m + 2)
    BY <1>6, <2>2, <2>5
  <2> HIDE DEF l, m
  <2>8. ASSUME NEW k \in 1 .. m + 2 PROVE c[(1 + l) + k] = e[k]
    <3>1. l + k \in 1 .. Len(f[n]) /\ l + k \in 1 .. Len(F)
      BY <2>2, <2>3, <2>6, <2>7
    <3>2. c[1 + (l + k)] = e[k]
      BY <1>9, <2>2, <2>5, <2>6, <3>1
    <3>3. (1 + l) + k = 1 + (l + k)
      BY <2>3
    <3> QED BY <3>2, <3>3
  <2>9. st[n] = st[n - 1] + 2 + m /\ st[n] <= Len(c)
    BY <1>9, <2>2, <2>3, <2>6, <2>7
  <2>10. FileAt(c, 1 + l, b[n])
    <3>1. 1 \in 1 .. m + 2 /\ 2 \in 1 .. m + 2
      BY <2>2
    <3>2. c[(1 + l) + 1] = e[1] /\ c[(1 + l) + 2] = e[2]
      BY <2>8, <3>1
    <3>3. e[1] = Cell("file", m, Null) /\ e[2] = Cell("path", 0, Null)
          /\ \A j \in 1 .. m : e[2 + j] = Cell("chunk", 0, b[n][j])
      BY <2>2 DEF FileAt, m
    <3>4. ASSUME NEW j \in 1 .. m PROVE c[(1 + l) + 2 + j] = Cell("chunk", 0, b[n][j])
      <4>1. 2 + j \in 1 .. m + 2 /\ (1 + l) + 2 + j = (1 + l) + (2 + j)
        BY <2>2, <2>3
      <4>2. c[(1 + l) + (2 + j)] = e[2 + j]
        BY <2>8, <4>1
      <4> QED BY <3>3, <4>1, <4>2
    <3> QED BY <3>2, <3>3, <3>4 DEF FileAt, m
  <2> QED BY <2>3, <2>9, <2>10 DEF m
<1>12. Layout(b, c, st)
  <2> HIDE DEF st
  <2> QED BY <1>9, <1>10, <1>11 DEF Layout, N
<1> QED BY <1>12 DEF c

(* Where the cells of the file behind the first n lie.                     *)
Place(b) == CHOOSE st : Layout(b, Cells(b), st)

LEMMA PlaceIs ==
  ASSUME NEW b \in Seq(Seq(Chunks))
  PROVE  Layout(b, Cells(b), Place(b))
BY LayoutExists DEF Place

-----------------------------------------------------------------------------
(* Fingerprints are read from a sequence of cells one by one.              *)
PrintOf(cell) == IF cell.kind = "chunk" THEN <<cell.fp>> ELSE <<>>

LEMMA FingerprintsAppend ==
  ASSUME NEW c \in Seq(CellKinds), NEW n \in 0 .. Len(c) - 1
  PROVE  Fingerprints(SubSeq(c, 1, n + 1)) = Fingerprints(SubSeq(c, 1, n)) \o PrintOf(c[n + 1])
<1> DEFINE s == SubSeq(c, 1, n)
           t == SubSeq(c, 1, n + 1)
           V == Chunks \cup {Null}
           P(x) == [k \in DOMAIN x |-> PrintOf(x[k])]
<1>1. /\ Len(c) \in Nat /\ n \in Nat /\ n + 1 \in 1 .. Len(c)
      /\ \A k \in 1 .. Len(c) : c[k] \in CellKinds
  OBVIOUS
<1>2. /\ DOMAIN s = 1 .. n /\ DOMAIN t = 1 .. n + 1
      /\ \A k \in 1 .. n : s[k] = c[k]
      /\ \A k \in 1 .. n + 1 : t[k] = c[k]
  BY <1>1
<1> HIDE DEF s, t
<1>3. \A k \in 1 .. Len(c) : PrintOf(c[k]) \in Seq(V)
  <2> TAKE k \in 1 .. Len(c)
  <2>1. c[k].fp \in V
    BY <1>1 DEF CellKinds
  <2> HIDE DEF V
  <2> QED BY <2>1 DEF PrintOf
<1>4. P(s) = [k \in 1 .. n |-> PrintOf(c[k])] /\ P(t) = [k \in 1 .. n + 1 |-> PrintOf(c[k])]
  BY <1>2
<1>5. /\ P(s) \in Seq(Seq(V)) /\ PrintOf(c[n + 1]) \in Seq(V)
      /\ P(t) = Append(P(s), PrintOf(c[n + 1]))
  <2>1. \A k \in 1 .. n : k \in 1 .. Len(c)
    BY <1>1
  <2>2. P(s) \in Seq(Seq(V)) /\ Len(P(s)) = n /\ PrintOf(c[n + 1]) \in Seq(V)
    <3>1. \A k \in 1 .. n : PrintOf(c[k]) \in Seq(V)
      BY <1>3, <2>1
    <3>2. PrintOf(c[n + 1]) \in Seq(V)
      BY <1>1, <1>3
    <3> HIDE DEF V, P
    <3> QED BY <1>1, <1>4, <3>1, <3>2
  <2>3. \A k \in 1 .. n + 1 : k \in 1 .. n \/ k = n + 1
    BY <1>1
  <2>4. Append(P(s), PrintOf(c[n + 1]))
          = [k \in 1 .. n + 1 |-> IF k \in 1 .. n THEN P(s)[k] ELSE PrintOf(c[n + 1])]
    <3> HIDE DEF P, V
    <3> QED BY <1>1, <2>2
  <2>5. \A k \in 1 .. n + 1 :
          PrintOf(c[k]) = IF k \in 1 .. n THEN P(s)[k] ELSE PrintOf(c[n + 1])
    <3>1. \A k \in 1 .. n : P(s)[k] = PrintOf(c[k])
      BY <1>4
    <3> HIDE DEF P
    <3> QED BY <2>3, <3>1
  <2>6. P(t) = Append(P(s), PrintOf(c[n + 1]))
    <3> HIDE DEF V
    <3>1. PICK ps : ps = P(s)
      OBVIOUS
    <3> QED BY <1>4, <2>4, <2>5
  <2> QED BY <2>2, <2>6
<1>6. /\ Fingerprints(s) = FlattenSeq(P(s)) /\ Fingerprints(t) = FlattenSeq(P(t))
  BY DEF Fingerprints, PrintOf
<1>7. FlattenSeq(Append(P(s), PrintOf(c[n + 1]))) = FlattenSeq(P(s)) \o PrintOf(c[n + 1])
  <2> HIDE DEF P, V
  <2> QED BY <1>5, FlattenAppend
<1>8. Fingerprints(t) = Fingerprints(s) \o PrintOf(c[n + 1])
  BY <1>5, <1>6, <1>7
<1> QED BY <1>8 DEF s, t

LEMMA FingerprintsEmpty ==
  ASSUME NEW c
  PROVE  Fingerprints(SubSeq(c, 1, 0)) = <<>>
<1>1. SubSeq(c, 1, 0) = <<>>
  OBVIOUS
<1>2. Fingerprints(<<>>) = FlattenSeq(<<>>)
  <2>1. [k \in DOMAIN <<>> |-> IF <<>>[k].kind = "chunk" THEN <<<<>>[k].fp>> ELSE <<>>] = <<>>
    OBVIOUS
  <2> QED BY <2>1 DEF Fingerprints
<1> QED BY <1>1, <1>2, FlattenEmpty

-----------------------------------------------------------------------------
(*                           Reading a trace                               *)

(* The counters and the offset say the same of where the client reads: the  *)
(* records of the current file that it has not read lie before the header   *)
(* of the next one.  A chunk that it was given is one of them.              *)
Reads ==
  /\ off <= trace.whole /\ hashes <= chunks
  /\ off + (chunks - hashes) = Place(trace.backup)[files]
  /\ chunks = IF files = 0 THEN 0 ELSE Len(trace.backup[files])
  /\ ci = Null => hashes = chunks

(* They do not once it stopped at the end of a trace that was cut off; from  *)
(* there no call finds a chunk.                                            *)
Stopped == off = End /\ ci = Null

(* But where it stopped inside a path, the counters may take it back among   *)
(* the records already read; off is left where it stopped.                  *)
ReadSoFar ==
  /\ trace \in Traces /\ TraceTypeOK /\ ci \in Chunks \cup {Null}
  /\ IF adrift THEN off = End ELSE Reads \/ Stopped
  /\ Backwards => CutInPath

Pending == IF ci = Null THEN <<>> ELSE <<ci>>
Taken(t, n) == Fingerprints(SubSeq(Cells(t.backup), 1, n))

LEMMA TraceIs ==
  ASSUME NEW t \in Traces
  PROVE  /\ t.backup \in Seq(Seq(Chunks)) /\ t.whole \in Nat /\ t.torn \in BOOLEAN
         /\ Cells(t.backup) \in Seq(CellKinds) /\ Len(Cells(t.backup)) \in Nat
         /\ t.whole <= Len(Cells(t.backup))
         /\ t.torn => t.whole < Len(Cells(t.backup))
<1>1. t.backup \in Seq(Seq(Chunks)) /\ t.whole \in Nat /\ t.torn \in BOOLEAN
      /\ IF t.torn THEN t.whole < Len(Cells(t.backup)) ELSE t.whole <= Len(Cells(t.backup))
  BY DEF Traces
<1>2. Cells(t.backup) \in Seq(CellKinds)
  BY <1>1, PlaceIs DEF Layout
<1>3. Len(Cells(t.backup)) \in Nat
  BY <1>2
<1> QED BY <1>1, <1>2, <1>3

LEMMA TakenNext ==
  ASSUME NEW t \in Traces, NEW n \in Nat, n < t.whole
  PROVE  Taken(t, n + 1) = Taken(t, n) \o PrintOf(Cells(t.backup)[n + 1])
<1>1. Cells(t.backup) \in Seq(CellKinds) /\ n \in 0 .. Len(Cells(t.backup)) - 1
  BY TraceIs
<1> QED BY <1>1, FingerprintsAppend DEF Taken

LEMMA TakenType ==
  ASSUME NEW t \in Traces, NEW n \in 0 .. t.whole
  PROVE  Taken(t, n) \in Seq(Chunks \cup {Null})
<1> DEFINE c == SubSeq(Cells(t.backup), 1, n)
           V == Chunks \cup {Null}
           P == [k \in DOMAIN c |-> PrintOf(c[k])]
<1>1. c \in Seq(CellKinds)
  BY TraceIs
<1>2. Len(c) \in Nat /\ DOMAIN c = 1 .. Len(c) /\ \A k \in 1 .. Len(c) : c[k] \in CellKinds
  BY <1>1
<1> HIDE DEF c
<1>3. \A k \in 1 .. Len(c) : PrintOf(c[k]) \in Seq(V)
  <2> TAKE k \in 1 .. Len(c)
  <2>1. c[k].fp \in V
    BY <1>2 DEF CellKinds
  <2> HIDE DEF V
  <2> QED BY <2>1 DEF PrintOf
<1>4. P \in Seq(Seq(V))
  <2>1. P = [k \in 1 .. Len(c) |-> PrintOf(c[k])]
    BY <1>2
  <2> HIDE DEF P, V
  <2> QED BY <1>2, <1>3, <2>1
<1>5. Fingerprints(c) = FlattenSeq(P)
  BY DEF Fingerprints, PrintOf
<1> HIDE DEF P
<1> QED BY <1>4, <1>5, FlattenType DEF Taken, c

(* What there is where.                                                    *)
LEMMA PlacesOfFile ==
  ASSUME NEW t \in Traces, NEW n \in 0 .. Len(t.backup)
  PROVE  LET st == Place(t.backup)
             c == Cells(t.backup)
         IN  /\ st[n] \in Nat /\ st[0] = 1 /\ st[Len(t.backup)] = Len(c)
             /\ n < Len(t.backup) =>
                  /\ t.backup[n + 1] \in Seq(Chunks)
                  /\ st[n + 1] = st[n] + 2 + Len(t.backup[n + 1])
                  /\ FileAt(c, st[n], t.backup[n + 1])
<1> DEFINE b == t.backup
           st == Place(b)
           c == Cells(b)
           N == Len(b)
<1>1. Layout(b, c, st) /\ b \in Seq(Seq(Chunks))
  BY TraceIs, PlaceIs
<1> HIDE DEF b, st, c
<1>2. N \in Nat /\ \A k \in 1 .. N : b[k] \in Seq(Chunks)
  BY <1>1
<1>3. st \in [0 .. N -> Nat] /\ st[0] = 1 /\ st[N] = Len(c)
  BY <1>1 DEF Layout
<1>4. n \in 0 .. N
  BY DEF b
<1>5. ASSUME n < N
      PROVE  b[n + 1] \in Seq(Chunks) /\ st[n + 1] = st[n] + 2 + Len(b[n + 1])
             /\ FileAt(c, st[n], b[n + 1])
  <2>1. n + 1 \in 1 .. N /\ (n + 1) - 1 = n
    BY <1>2, <1>4, <1>5
  <2> QED BY <1>1, <1>2, <2>1 DEF Layout
<1> QED BY <1>3, <1>4, <1>5 DEF b, st, c

Before(t, n) == IF n < t.whole THEN n ELSE t.whole

LEMMA TakenSoFarIs ==
  /\ TakenSoFar = Taken(trace, Before(trace, off))
  /\ Intact = Taken(trace, trace.whole)
BY DEF TakenSoFar, Intact, FirstCells, Taken, Before, Whole

LEMMA EndIs ==
  ASSUME trace \in Traces
  PROVE  End \in Nat /\ trace.whole \in Nat /\ trace.whole <= End
BY TraceIs DEF End

(* hashfile_next_chunk, from a place where the next record is, if there is  *)
(* one.                                                                    *)
LEMMA NextChunkMoves ==
  ASSUME trace \in Traces, trace' = trace, NEW from \in Nat, from <= trace.whole,
         NEW n \in Nat, NEW done \in 0 .. n, NextChunk(from, n, done),
         done < n /\ Whole(from) => \E x \in Chunks : CellAt(from) = Cell("chunk", 0, x)
  PROVE  /\ ci' \in Chunks \cup {Null} /\ off' \in 0 .. End /\ hashes' \in 0 .. n
         /\ \/ off' = End /\ ci' = Null
            \/ /\ off' <= trace.whole /\ off' + (n - hashes') = from + (n - done)
               /\ ci' = Null => hashes' = n
         /\ TakenSoFar' = Taken(trace, from) \o Pending'
<1>1. End \in Nat /\ trace.whole \in Nat /\ trace.whole <= End
  BY EndIs
<1>2. TakenSoFar' = Taken(trace, Before(trace, off'))
  BY DEF TakenSoFar, FirstCells, Taken, Before, Whole
<1>3. Taken(trace, from) \in Seq(Chunks \cup {Null})
  <2>1. from \in 0 .. trace.whole
    BY <1>1
  <2> QED BY <2>1, TakenType
<1>4. Taken(trace, from) \o <<>> = Taken(trace, from)
  <2> DEFINE s == Taken(trace, from)
             V == Chunks \cup {Null}
  <2>1. s \in Seq(V)
    BY <1>3
  <2> HIDE DEF s, V
  <2>2. s \o <<>> = s
    BY <2>1
  <2> QED BY <2>2 DEF s
<1>5. CASE n = done
  <2>1. ci' = Null /\ off' = from /\ hashes' = done
    BY <1>5 DEF NextChunk
  <2>2. Before(trace, off') = from /\ Pending' = <<>>
    BY <1>1, <2>1 DEF Before, Pending
  <2>3. TakenSoFar' = Taken(trace, from) \o Pending'
    BY <1>2, <1>4, <2>2
  <2>4. off' \in 0 .. End /\ hashes' \in 0 .. n /\ off' <= trace.whole
        /\ off' + (n - hashes') = from + (n - done)
    BY <1>1, <1>5, <2>1
  <2> QED BY <1>5, <2>1, <2>3, <2>4
<1>6. CASE n # done /\ Whole(from)
  <2>1. ci' = CellAt(from).fp /\ off' = from + 1 /\ hashes' = done + 1
    BY <1>6 DEF NextChunk
  <2>2. PICK x \in Chunks : CellAt(from) = Cell("chunk", 0, x)
    BY <1>6
  <2>3. ci' = x /\ PrintOf(CellAt(from)) = <<x>> /\ x # Null
    BY <2>1, <2>2, SegmenterAssumption DEF Cell, PrintOf
  <2>4. from < trace.whole
    BY <1>6 DEF Whole
  <2>5. Before(trace, off') = from + 1 /\ Pending' = <<x>>
    BY <1>1, <2>1, <2>3, <2>4 DEF Before, Pending
  <2>6. Taken(trace, from + 1) = Taken(trace, from) \o <<x>>
    BY <2>3, <2>4, TakenNext DEF CellAt
  <2>7. TakenSoFar' = Taken(trace, from) \o Pending'
    BY <1>2, <2>5, <2>6
  <2>8. off' \in 0 .. End /\ hashes' \in 0 .. n /\ off' <= trace.whole
        /\ off' + (n - hashes') = from + (n - done)
    BY <1>1, <1>6, <2>1, <2>4
  <2> QED BY <2>3, <2>7, <2>8
<1>7. CASE n # done /\ ~Whole(from)
  <2>1. ci' = Null /\ off' = End /\ hashes' = done
    BY <1>7 DEF NextChunk, ShortRead
  <2>2. from = trace.whole
    BY <1>1, <1>7 DEF Whole
  <2>3. Before(trace, off') = from /\ Pending' = <<>>
    BY <1>1, <2>1, <2>2 DEF Before, Pending
  <2>4. TakenSoFar' = Taken(trace, from) \o Pending'
    BY <1>2, <1>4, <2>3
  <2> QED BY <1>1, <2>1, <2>4
<1> QED BY <1>5, <1>6, <1>7

(* A place between two files, where a file is opened.                      *)
LEMMA FileOpens ==
  ASSUME trace \in Traces, TraceTypeOK, files < Len(trace.backup),
         NEW at \in Nat, at = Place(trace.backup)[files],
         Whole(at), Whole(at + 1)
  PROVE  /\ CellAt(at).chunks = Len(trace.backup[files + 1])
         /\ Len(trace.backup[files + 1]) \in Nat
         /\ Place(trace.backup)[files + 1] = at + 2 + Len(trace.backup[files + 1])
         /\ at + 2 <= trace.whole
         /\ \A j \in 0 .. Len(trace.backup[files + 1]) - 1 :
              \E x \in Chunks : CellAt(at + 2 + j) = Cell("chunk", 0, x)
         /\ Taken(trace, at + 2) = Taken(trace, at)
<1> DEFINE b == trace.backup
           c == Cells(b)
           file == b[files + 1]
           n == Len(file)
<1>1. files \in 0 .. Len(b) /\ files < Len(b)
  BY DEF TraceTypeOK
<1>2. /\ file \in Seq(Chunks) /\ Place(b)[files + 1] = at + 2 + n
      /\ FileAt(c, at, file)
  BY <1>1, PlacesOfFile
<1>3. n \in Nat /\ \A j \in 1 .. n : file[j] \in Chunks
  BY <1>2
<1>4. at < trace.whole /\ at + 1 < trace.whole /\ trace.whole \in Nat
  BY EndIs DEF Whole
<1>5. /\ CellAt(at) = Cell("file", n, Null) /\ CellAt(at + 1) = Cell("path", 0, Null)
  <2>1. at + 1 + 1 = at + 2
    BY <1>4
  <2> QED BY <1>2, <2>1 DEF FileAt, CellAt
<1>6. ASSUME NEW j \in 0 .. n - 1
      PROVE  \E x \in Chunks : CellAt(at + 2 + j) = Cell("chunk", 0, x)
  <2>1. j + 1 \in 1 .. n /\ (at + 2 + j) + 1 = at + 2 + (j + 1)
    <3>1. j \in Nat /\ at \in Nat
      OBVIOUS
    <3>2. j <= n - 1 /\ n \in Nat
      BY <1>3
    <3> HIDE DEF n
    <3> QED BY <3>1, <3>2
  <2>2. CellAt(at + 2 + j) = Cell("chunk", 0, file[j + 1])
    BY <1>2, <2>1 DEF FileAt, CellAt
  <2> QED BY <1>3, <2>1, <2>2
<1>7. Taken(trace, at + 2) = Taken(trace, at)
  <2> DEFINE V == Chunks \cup {Null}
  <2>1. /\ PrintOf(CellAt(at)) = <<>> /\ PrintOf(CellAt(at + 1)) = <<>>
    BY <1>5 DEF PrintOf, Cell
  <2>2. Taken(trace, at + 1) = Taken(trace, at) \o <<>>
    BY <1>4, <2>1, TakenNext DEF CellAt
  <2>3. at + 1 \in Nat /\ (at + 1) + 1 = at + 2
    OBVIOUS
  <2>4. Taken(trace, at + 2) = Taken(trace, at + 1) \o <<>>
    BY <1>4, <2>1, <2>3, TakenNext DEF CellAt
  <2>5. Taken(trace, at) \in Seq(V)
    <3>1. at \in 0 .. trace.whole
      BY <1>4
    <3> QED BY <3>1, TakenType
  <2> HIDE DEF V
  <2>6. Taken(trace, at) \o <<>> = Taken(trace, at)
    BY <2>5
  <2> QED BY <2>2, <2>4, <2>6
<1>8. CellAt(at).chunks = n /\ at + 2 <= trace.whole
  BY <1>4, <1>5 DEF Cell
<1> QED BY <1>2, <1>3, <1>6, <1>7, <1>8

LEMMA ConcatEmpty ==
  ASSUME NEW S, NEW s \in Seq(S)
  PROVE  s \o <<>> = s /\ <<>> \o s = s
OBVIOUS

LEMMA OpenPlaces ==
  ASSUME NEW t \in Traces, CanOpen(t), OpenTrace(t)
  PROVE  ReadSoFar' /\ TakenSoFar' = <<>> /\ Pending' = <<>> /\ ~adrift'
<1>1. /\ trace' = t /\ off' = 1 /\ files' = 0 /\ chunks' = 0 /\ hashes' = 0 /\ ci' = Null
      /\ adrift' = FALSE /\ t.whole > 0 /\ t.whole \in Nat
  BY TraceIs DEF OpenTrace, CanOpen
<1>2. Len(t.backup) \in Nat
  BY TraceIs
<1>3. 0 \in 0 .. Len(t.backup)
  BY <1>2
<1>4. Place(t.backup)[0] = 1
  BY <1>3, PlacesOfFile
<1>5. Reads'
  BY <1>1, <1>4 DEF Reads
<1>6. TraceTypeOK'
  <2>1. 1 \in 0 .. t.whole + (IF t.torn THEN 1 ELSE 0)
    BY <1>1
  <2> QED BY <1>1, <1>3, <2>1 DEF TraceTypeOK, End
<1>7. Taken(t, 1) = <<>>
  <2>1. Taken(t, 0) = <<>>
    BY FingerprintsEmpty DEF Taken
  <2>2. Taken(t, 0 + 1) = Taken(t, 0) \o PrintOf(Cells(t.backup)[0 + 1])
    BY <1>1, TakenNext
  <2>3. PrintOf(Cells(t.backup)[1]) = <<>>
    <3>1. Cells(t.backup)[1] = Cell("header", 0, Null)
      BY TraceIs, PlaceIs DEF Layout
    <3> QED BY <3>1 DEF PrintOf, Cell
  <2> QED BY <2>1, <2>2, <2>3
<1>8. TakenSoFar' = Taken(t, 1)
  <2>1. TakenSoFar' = Taken(t, Before(t, 1))
    BY <1>1 DEF TakenSoFar, FirstCells, Taken, Before, Whole
  <2>2. Before(t, 1) = 1
    BY <1>1 DEF Before
  <2> QED BY <2>1, <2>2
<1>9. ~Backwards'
  BY <1>1 DEF Backwards
<1> QED BY <1>1, <1>5, <1>6, <1>7, <1>8, <1>9 DEF ReadSoFar, Pending

(* Once it is past what is there, no counter takes a client back.          *)
LEMMA PositionFacts ==
  ASSUME ReadSoFar
  PROVE  /\ trace \in Traces /\ TraceTypeOK
         /\ off \in Nat /\ off <= End /\ chunks \in Nat /\ hashes \in Nat
         /\ End \in Nat /\ trace.whole \in Nat /\ trace.whole <= End
         /\ files \in 0 .. Len(trace.backup) /\ files \in Nat
         /\ Len(trace.backup) \in Nat
<1>1. trace \in Traces /\ TraceTypeOK
  BY DEF ReadSoFar
<1>2. End \in Nat /\ trace.whole \in Nat /\ trace.whole <= End
  BY <1>1, EndIs
<1>3. Len(trace.backup) \in Nat
  BY <1>1, TraceIs
<1> QED BY <1>1, <1>2, <1>3 DEF TraceTypeOK

LEMMA NextFileMoves ==
  ASSUME ReadSoFar, ci = Null, NextFile
  PROVE  /\ ReadSoFar' /\ TakenSoFar' = TakenSoFar \o Pending'
         /\ trace' = trace /\ ~adrift /\ ~adrift'
<1>1. /\ trace \in Traces /\ TraceTypeOK
      /\ off \in Nat /\ off <= End /\ chunks \in Nat /\ hashes \in Nat
      /\ End \in Nat /\ trace.whole \in Nat /\ trace.whole <= End
      /\ files \in 0 .. Len(trace.backup) /\ files \in Nat
      /\ Len(trace.backup) \in Nat
  BY PositionFacts
<1>2. /\ files < Len(trace.backup) /\ hashes <= chunks
      /\ Whole(off + (chunks - hashes)) /\ Whole(off + (chunks - hashes) + 1)
      /\ files' = files + 1 /\ trace' = trace /\ ~adrift /\ adrift' = adrift
      /\ chunks' = CellAt(off + (chunks - hashes)).chunks
      /\ NextChunk(off + (chunks - hashes) + 2, chunks', 0)
  BY DEF NextFile, MoreFiles, Forwards, Skipped, ToSkip, FromStart
<1>3. Reads
  <2>1. ASSUME off = End PROVE FALSE
    BY <1>1, <1>2, <2>1 DEF Whole
  <2> QED BY <1>2, <2>1 DEF ReadSoFar, Stopped
<1>4. hashes = chunks /\ off = Place(trace.backup)[files]
  BY <1>1, <1>3 DEF Reads
<1>5. off + (chunks - hashes) = off
  BY <1>1, <1>4
<1>6. Whole(off) /\ Whole(off + 1) /\ chunks' = CellAt(off).chunks
      /\ NextChunk(off + 2, chunks', 0)
  BY <1>2, <1>5
<1> DEFINE n == Len(trace.backup[files + 1])
<1>7. /\ CellAt(off).chunks = n /\ n \in Nat
      /\ Place(trace.backup)[files + 1] = off + 2 + n
      /\ off + 2 <= trace.whole
      /\ \A j \in 0 .. n - 1 : \E x \in Chunks : CellAt(off + 2 + j) = Cell("chunk", 0, x)
      /\ Taken(trace, off + 2) = Taken(trace, off)
  BY <1>1, <1>2, <1>4, <1>6, FileOpens
<1> HIDE DEF n
<1>8. chunks' = n /\ NextChunk(off + 2, n, 0)
  BY <1>6, <1>7
<1>9. 0 < n => \E x \in Chunks : CellAt(off + 2) = Cell("chunk", 0, x)
  <2>1. 0 < n => 0 \in 0 .. n - 1
    BY <1>7
  <2>2. off + 2 + 0 = off + 2
    BY <1>1
  <2> QED BY <1>7, <2>1, <2>2
<1>10. /\ ci' \in Chunks \cup {Null} /\ off' \in 0 .. End /\ hashes' \in 0 .. n
       /\ \/ off' = End /\ ci' = Null
          \/ /\ off' <= trace.whole /\ off' + (n - hashes') = off + 2 + (n - 0)
             /\ ci' = Null => hashes' = n
       /\ TakenSoFar' = Taken(trace, off + 2) \o Pending'
  <2>1. off + 2 \in Nat /\ 0 \in 0 .. n
    BY <1>1, <1>7
  <2> QED BY <1>1, <1>2, <1>7, <1>8, <1>9, <2>1, NextChunkMoves
<1>11. TraceTypeOK'
  <2>1. End' = End
    BY <1>2 DEF End
  <2>2. files' \in 0 .. Len(trace.backup)
    BY <1>1, <1>2
  <2>3. chunks' \in Nat /\ hashes' \in Nat
    BY <1>7, <1>8, <1>10
  <2>4. adrift' \in BOOLEAN
    BY <1>1, <1>2 DEF TraceTypeOK
  <2> QED BY <1>2, <1>10, <2>1, <2>2, <2>3, <2>4 DEF TraceTypeOK
<1>12. Reads' \/ Stopped'
  <2>1. CASE off' = End /\ ci' = Null
    BY <1>2, <2>1 DEF Stopped, End
  <2>2. CASE /\ off' <= trace.whole /\ off' + (n - hashes') = off + 2 + (n - 0)
             /\ ci' = Null => hashes' = n
    <3>1. files' # 0 /\ hashes' <= n
      BY <1>1, <1>2, <1>10
    <3>2. off' + (n - hashes') = Place(trace.backup)[files + 1]
      BY <1>7, <2>2
    <3>3. chunks' = Len(trace.backup[files'])
      BY <1>2, <1>8 DEF n
    <3> QED BY <1>2, <1>8, <2>2, <3>1, <3>2, <3>3 DEF Reads
  <2> QED BY <1>10, <2>1, <2>2
<1>13. TakenSoFar = Taken(trace, off)
  <2>1. Before(trace, off) = off
    BY <1>6 DEF Before, Whole
  <2> QED BY <2>1, TakenSoFarIs
<1>14. ~Backwards'
  BY <1>2, <1>7, <1>8, <1>10 DEF Backwards
<1> QED BY <1>1, <1>2, <1>7, <1>10, <1>11, <1>12, <1>13, <1>14 DEF ReadSoFar

LEMMA ChunkMoves ==
  ASSUME ReadSoFar, ci # Null, ~adrift, NextChunk(off, chunks, hashes),
         UNCHANGED <<trace, files, chunks, adrift>>
  PROVE  ReadSoFar' /\ TakenSoFar' = TakenSoFar \o Pending'
<1>1. /\ trace \in Traces /\ TraceTypeOK
      /\ off \in Nat /\ off <= End /\ chunks \in Nat /\ hashes \in Nat
      /\ End \in Nat /\ trace.whole \in Nat /\ trace.whole <= End
      /\ files \in 0 .. Len(trace.backup) /\ files \in Nat
      /\ Len(trace.backup) \in Nat
  BY PositionFacts
<1>2. /\ off <= trace.whole /\ hashes <= chunks
      /\ off + (chunks - hashes) = Place(trace.backup)[files]
      /\ chunks = IF files = 0 THEN 0 ELSE Len(trace.backup[files])
  BY DEF ReadSoFar, Stopped, Reads
<1>3. trace' = trace /\ files' = files /\ chunks' = chunks /\ ~adrift /\ adrift' = adrift
  OBVIOUS
<1>4. ASSUME hashes < chunks, Whole(off)
      PROVE  \E x \in Chunks : CellAt(off) = Cell("chunk", 0, x)
  <2> DEFINE b == trace.backup
             st == Place(b)
             p == files - 1
             file == b[p + 1]
             n == Len(file)
  <2>1. files # 0
    BY <1>1, <1>2, <1>4
  <2>2. p \in 0 .. Len(b) /\ p < Len(b) /\ p + 1 = files
    BY <1>1, <2>1
  <2>3. file \in Seq(Chunks) /\ st[p] \in Nat /\ st[p + 1] = st[p] + 2 + n
        /\ FileAt(Cells(b), st[p], file)
    BY <1>1, <2>2, PlacesOfFile
  <2>4. n \in Nat /\ n = chunks /\ \A j \in 1 .. n : file[j] \in Chunks
    BY <1>2, <2>1, <2>2, <2>3
  <2> HIDE DEF n, st, file
  <2>5. off + (n - hashes) = st[p] + 2 + n
    BY <1>2, <2>2, <2>3, <2>4 DEF st
  <2>6. hashes + 1 \in 1 .. n /\ st[p] + 2 + (hashes + 1) = off + 1
    <3>1. \A x, y, z, h \in Nat : x + (z - h) = y + 2 + z => y + 2 + (h + 1) = x + 1
      OBVIOUS
    <3>2. st[p] + 2 + (hashes + 1) = off + 1
      <4>1. st[p] \in Nat /\ n \in Nat /\ off \in Nat /\ hashes \in Nat
        BY <1>1, <2>3, <2>4
      <4> HIDE DEF p
      <4> QED BY <2>5, <3>1, <4>1
    <3> QED BY <1>1, <1>4, <2>4, <3>2
  <2>7. Cells(b)[st[p] + 2 + (hashes + 1)] = Cell("chunk", 0, file[hashes + 1])
    BY <2>3, <2>6 DEF FileAt, n
  <2>8. CellAt(off) = Cell("chunk", 0, file[hashes + 1])
    BY <2>6, <2>7 DEF CellAt
  <2> QED BY <2>4, <2>6, <2>8
<1>5. /\ ci' \in Chunks \cup {Null} /\ off' \in 0 .. End /\ hashes' \in 0 .. chunks
      /\ \/ off' = End /\ ci' = Null
         \/ /\ off' <= trace.whole /\ off' + (chunks - hashes') = off + (chunks - hashes)
            /\ ci' = Null => hashes' = chunks
      /\ TakenSoFar' = Taken(trace, off) \o Pending'
  <2>1. hashes \in 0 .. chunks
    BY <1>1, <1>2
  <2> QED BY <1>1, <1>2, <1>3, <1>4, <2>1, NextChunkMoves
<1>6. TraceTypeOK'
  <2>1. End' = End
    BY <1>3 DEF End
  <2>2. hashes' \in Nat
    BY <1>5
  <2> QED BY <1>1, <1>3, <1>5, <2>1, <2>2 DEF TraceTypeOK
<1>7. Reads' \/ Stopped'
  <2>1. CASE off' = End /\ ci' = Null
    BY <1>3, <2>1 DEF Stopped, End
  <2>2. CASE /\ off' <= trace.whole /\ off' + (chunks - hashes') = off + (chunks - hashes)
             /\ ci' = Null => hashes' = chunks
    <3>1. hashes' <= chunks
      BY <1>1, <1>5
    <3>2. off' + (chunks - hashes') = Place(trace.backup)[files]
      BY <1>2, <2>2
    <3> QED BY <1>2, <1>3, <2>2, <3>1, <3>2 DEF Reads
  <2> QED BY <1>5, <2>1, <2>2
<1>8. TakenSoFar = Taken(trace, off)
  <2>1. Before(trace, off) = off
    BY <1>1, <1>2 DEF Before
  <2> QED BY <2>1, TakenSoFarIs
<1>9. ~Backwards'
  BY <1>1, <1>3, <1>5 DEF Backwards
<1> QED BY <1>1, <1>3, <1>5, <1>6, <1>7, <1>8, <1>9 DEF ReadSoFar

(* A file's path is among the cells.                                        *)
LEMMA PathInside ==
  ASSUME trace \in Traces, files < Len(trace.backup), files \in 0 .. Len(trace.backup),
         off \in Nat, off = Place(trace.backup)[files]
  PROVE  off + 1 < Len(Cells(trace.backup))
<1> DEFINE b == trace.backup
           st == Place(b)
           N == Len(b)
           G == {k \in 0 .. N : k <= files \/ off + 2 <= st[k]}
<1>1. N \in Nat /\ files \in Nat /\ st[N] = Len(Cells(b))
  BY TraceIs, PlacesOfFile
<1>2. ASSUME NEW k \in 0 .. N, k < N
      PROVE  st[k] \in Nat /\ \E m \in Nat : st[k + 1] = st[k] + 2 + m
  <2>1. b[k + 1] \in Seq(Chunks) /\ st[k] \in Nat /\ st[k + 1] = st[k] + 2 + Len(b[k + 1])
    BY <1>2, PlacesOfFile
  <2>2. Len(b[k + 1]) \in Nat
    BY <2>1
  <2> HIDE DEF st, b
  <2> QED BY <2>1, <2>2
<1> HIDE DEF st, N
<1>3. 0 \in G
  BY <1>1
<1>4. ASSUME NEW k \in 1 .. N, k - 1 \in G PROVE k \in G
  <2>1. k - 1 \in 0 .. N /\ k - 1 < N /\ (k - 1) + 1 = k /\ k \in 0 .. N
    BY <1>1
  <2>2. st[k - 1] \in Nat /\ \E m \in Nat : st[k] = st[k - 1] + 2 + m
    BY <1>2, <2>1
  <2>3. CASE k <= files
    BY <2>1, <2>3
  <2>4. CASE k - 1 = files
    BY <2>1, <2>2, <2>4 DEF st
  <2>5. CASE k - 1 > files
    BY <1>1, <1>4, <2>1, <2>2, <2>5
  <2> QED BY <1>1, <2>1, <2>3, <2>4, <2>5
<1>5. N \in G
  <2> HIDE DEF G
  <2>1. N \in 0 .. N
    BY <1>1
  <2> QED BY <1>1, <1>3, <1>4, <2>1, UpTo
<1>6. files < N
  BY DEF N
<1> QED BY <1>1, <1>5, <1>6

(* No file is found only when every chunk that is there has been taken.    *)
LEMMA NoNextFileMoves ==
  ASSUME ReadSoFar, ci = Null, NoNextFile
  PROVE  /\ ReadSoFar' /\ ci' = Null /\ trace' = trace /\ ~Whole(off')
         /\ TakenSoFar' = TakenSoFar /\ TakenSoFar = Intact /\ adrift' = adrift
<1>1. /\ trace \in Traces /\ TraceTypeOK
      /\ off \in Nat /\ off <= End /\ chunks \in Nat /\ hashes \in Nat
      /\ End \in Nat /\ trace.whole \in Nat /\ trace.whole <= End
      /\ files \in 0 .. Len(trace.backup) /\ files \in Nat
      /\ Len(trace.backup) \in Nat
  BY PositionFacts
<1>2. /\ trace' = trace /\ files' = files /\ ci' = ci /\ ci' = Null /\ adrift' = adrift
      /\ \/ off' = off /\ hashes' = hashes /\ chunks' = chunks
         \/ off' = End
  BY DEF NoNextFile, ShortRead, traceVars
<1>3. End' = End /\ \A p : Whole(p)' <=> Whole(p)
  BY <1>2 DEF End, Whole
<1>4. CASE Reads /\ ~adrift
  <2>1. /\ hashes = chunks /\ off = Place(trace.backup)[files] /\ off <= trace.whole
        /\ off + (chunks - hashes) = off
    BY <1>1, <1>4 DEF Reads
  <2>2. CASE files = Len(trace.backup)
    <3>1. off' = off /\ hashes' = hashes /\ chunks' = chunks
      BY <2>2, <1>1 DEF NoNextFile, MoreFiles, traceVars
    <3>2. off = Len(Cells(trace.backup))
      BY <1>1, <2>1, <2>2, PlacesOfFile
    <3>3. off = trace.whole
      BY <1>1, <2>1, <3>2, TraceIs
    <3>4. Before(trace, off) = trace.whole
      BY <3>3 DEF Before
    <3>5. TakenSoFar = Intact
      BY <3>4, TakenSoFarIs
    <3>6. TakenSoFar' = TakenSoFar
      BY <1>2, <3>1 DEF TakenSoFar, FirstCells, Whole
    <3>7. ReadSoFar'
      BY <1>2, <3>1 DEF ReadSoFar, TraceTypeOK, Reads, Stopped, End, Backwards, CutInPath,
                          CellAt
    <3>8. ~Whole(off')
      BY <1>1, <3>1, <3>3 DEF Whole
    <3> QED BY <1>2, <3>5, <3>6, <3>7, <3>8
  <2>3. CASE files # Len(trace.backup)
    <3>1. /\ off' = End /\ chunks' \in Nat /\ hashes' = chunks
          /\ \/ ~Whole(off) /\ chunks' = chunks
             \/ Whole(off) /\ ~Whole(off + 1)
      <4>1. files < Len(trace.backup)
        BY <1>1, <2>3
      <4>2. ~(Skipped > End)
        BY <1>1, <2>1 DEF Skipped, ToSkip
      <4>3. CASE ~Whole(Skipped) /\ off' = ShortRead /\ hashes' = chunks
                 /\ UNCHANGED <<trace, files, chunks, ci, adrift>>
        BY <1>1, <2>1, <4>3 DEF Skipped, ToSkip, ShortRead
      <4>4. CASE /\ Whole(Skipped) /\ ~Whole(Skipped + 1)
                 /\ off' = ShortRead /\ hashes' = chunks /\ chunks' = CellAt(Skipped).chunks
        <5>1. Whole(off) /\ ~Whole(off + 1) /\ off' = End /\ chunks' = CellAt(off).chunks
          BY <2>1, <4>4 DEF Skipped, ToSkip, ShortRead
        <5>2. FileAt(Cells(trace.backup), off, trace.backup[files + 1])
              /\ trace.backup[files + 1] \in Seq(Chunks)
          BY <1>1, <2>1, <4>1, PlacesOfFile
        <5>3. CellAt(off).chunks = Len(trace.backup[files + 1])
          BY <5>2 DEF FileAt, CellAt, Cell
        <5>4. Len(trace.backup[files + 1]) \in Nat
          BY <5>2
        <5> QED BY <4>4, <5>1, <5>3, <5>4
      <4> QED BY <2>3, <4>1, <4>2, <4>3, <4>4 DEF NoNextFile, MoreFiles
    <3>2. ReadSoFar'
      <4>1. TraceTypeOK'
        BY <1>1, <1>2, <3>1 DEF TraceTypeOK, End
      <4>2. Backwards' => CutInPath'
        <5>1. CASE ~Whole(off) /\ chunks' = chunks
          BY <1>1, <1>2, <1>4, <3>1, <5>1 DEF Backwards
        <5>2. CASE Whole(off) /\ ~Whole(off + 1)
          <6>1. trace.whole = off + 1 /\ files < Len(trace.backup) /\ (off + 1) + 1 = off + 2
            BY <1>1, <2>3, <5>2 DEF Whole
          <6>2. /\ FileAt(Cells(trace.backup), off, trace.backup[files + 1])
                /\ trace.backup[files + 1] \in Seq(Chunks)
                /\ Place(trace.backup)[files + 1] = off + 2 + Len(trace.backup[files + 1])
            BY <1>1, <2>1, <6>1, PlacesOfFile
          <6>3. CellAt(trace.whole).kind = "path"
            BY <6>1, <6>2 DEF FileAt, CellAt, Cell
          <6>4. trace.whole < Len(Cells(trace.backup))
            BY <1>1, <2>1, <6>1, PathInside
          <6> QED BY <1>2, <6>3, <6>4 DEF CutInPath, CellAt
        <5> QED BY <3>1, <5>1, <5>2
      <4> QED BY <1>1, <1>2, <1>3, <1>4, <3>1, <4>1, <4>2 DEF ReadSoFar, Stopped
    <3>3. TakenSoFar' = Intact
      <4>1. TakenSoFar' = Taken(trace, Before(trace, End))
        BY <1>2, <3>1 DEF TakenSoFar, FirstCells, Taken, Before, Whole
      <4>2. Before(trace, End) = trace.whole
        BY <1>1 DEF Before
      <4> QED BY <4>1, <4>2, TakenSoFarIs
    <3>4. TakenSoFar = Intact
      <4>1. CASE ~Whole(off)
        <5>1. Before(trace, off) = trace.whole
          BY <4>1 DEF Before, Whole
        <5> QED BY <5>1, TakenSoFarIs
      <4>2. CASE Whole(off) /\ ~Whole(off + 1)
        <5> DEFINE V == Chunks \cup {Null}
        <5>1. trace.whole = off + 1 /\ Before(trace, off) = off /\ off < trace.whole
          BY <1>1, <4>2 DEF Before, Whole
        <5>2. files < Len(trace.backup)
          BY <1>1, <2>3
        <5>3. FileAt(Cells(trace.backup), off, trace.backup[files + 1])
          BY <1>1, <2>1, <5>2, PlacesOfFile
        <5>4. PrintOf(Cells(trace.backup)[off + 1]) = <<>>
          BY <5>3 DEF FileAt, Cell, PrintOf
        <5>5. Taken(trace, off + 1) = Taken(trace, off) \o <<>>
          BY <1>1, <5>1, <5>4, TakenNext
        <5>6. Taken(trace, off) \in Seq(V)
          <6>1. off \in 0 .. trace.whole
            BY <1>1, <5>1
          <6> QED BY <1>1, <6>1, TakenType
        <5> HIDE DEF V
        <5>7. Taken(trace, off) \o <<>> = Taken(trace, off)
          BY <5>6, ConcatEmpty
        <5> QED BY <5>1, <5>5, <5>7, TakenSoFarIs
      <4> QED BY <3>1, <4>1, <4>2
    <3>5. ~Whole(off')
      BY <1>1, <3>1 DEF Whole
    <3> QED BY <1>2, <3>2, <3>3, <3>4, <3>5
  <2> QED BY <2>2, <2>3
<1>5. CASE off = End
  <2>1. off' = End
    BY <1>2, <1>5
  <2>2. Before(trace, off) = trace.whole /\ ~Whole(off')
    BY <1>1, <1>5, <2>1 DEF Before, Whole
  <2>3. TakenSoFar = Intact
    BY <2>2, TakenSoFarIs
  <2>4. TakenSoFar' = TakenSoFar
    BY <1>2, <1>5, <2>1 DEF TakenSoFar, FirstCells, Whole
  <2>5. chunks' \in Nat /\ hashes' \in Nat
    <3>1. CASE UNCHANGED traceVars
      BY <1>1, <3>1 DEF traceVars
    <3>2. CASE hashes' = chunks /\ chunks' = chunks
      BY <1>1, <3>2
    <3>3. hashes <= chunks => ~Whole(Skipped)
      BY <1>1, <1>5 DEF Skipped, ToSkip, Whole
    <3> QED BY <3>1, <3>2, <3>3 DEF NoNextFile, Forwards
  <2>6. ReadSoFar'
    <3>1. TraceTypeOK'
      BY <1>1, <1>2, <2>1, <2>5 DEF TraceTypeOK, End
    <3>2. Backwards' => CutInPath'
      <4>1. Backwards => CutInPath
        BY DEF ReadSoFar
      <4>2. CutInPath' = CutInPath
        BY <1>2 DEF CutInPath, CellAt
      <4>3. Backwards' => Backwards
        <5>1. CASE UNCHANGED traceVars
          BY <5>1 DEF traceVars, Backwards
        <5>2. CASE ~adrift /\ hashes' = chunks /\ chunks' = chunks
          BY <1>1, <1>2, <5>2 DEF Backwards
        <5>3. hashes <= chunks => ~Whole(Skipped)
          BY <1>1, <1>5 DEF Skipped, ToSkip, Whole
        <5> QED BY <5>1, <5>2, <5>3 DEF NoNextFile, Forwards
      <4> QED BY <4>1, <4>2, <4>3
    <3> QED BY <1>1, <1>2, <1>3, <2>1, <3>1, <3>2 DEF ReadSoFar, Stopped
  <2> QED BY <1>2, <2>2, <2>3, <2>4, <2>6
<1> QED BY <1>4, <1>5 DEF ReadSoFar, Stopped

(* Where a client goes back, it has stopped inside a path, and all that is   *)
(* there has been taken.                                                   *)
LEMMA BackwardsIs ==
  ASSUME ReadSoFar, Backwards
  PROVE  off = End /\ CutInPath /\ ~Whole(off) /\ TakenSoFar = Intact
<1>1. /\ off \in Nat /\ chunks \in Nat /\ hashes \in Nat
      /\ trace.whole \in Nat /\ End \in Nat /\ trace.whole <= End
  BY PositionFacts
<1>2. off = End
  BY <1>1 DEF ReadSoFar, Backwards, Reads, Stopped
<1>3. CutInPath
  BY DEF ReadSoFar
<1>4. ~Whole(off) /\ Before(trace, off) = trace.whole
  BY <1>1, <1>2 DEF Whole, Before
<1> QED BY <1>2, <1>3, <1>4, TakenSoFarIs

LEMMA NoStrayFileMoves ==
  ASSUME ReadSoFar, ci = Null, NoStrayFile
  PROVE  /\ ReadSoFar' /\ ci' = Null /\ trace' = trace /\ ~Whole(off')
         /\ TakenSoFar' = TakenSoFar /\ TakenSoFar = Intact /\ adrift' = adrift
<1>1. /\ trace' = trace /\ off' = off /\ files' = files /\ ci' = ci /\ adrift' = adrift
      /\ chunks' \in Nat /\ hashes' \in Nat
  BY PositionFacts, SegmenterAssumption DEF NoStrayFile
<1>2. off = End /\ CutInPath /\ ~Whole(off) /\ TakenSoFar = Intact
  BY BackwardsIs DEF NoStrayFile
<1>3. TraceTypeOK' /\ TakenSoFar' = TakenSoFar
  BY <1>1, PositionFacts DEF TraceTypeOK, End, TakenSoFar, FirstCells, Whole
<1>4. ReadSoFar'
  BY <1>1, <1>2, <1>3 DEF ReadSoFar, Stopped, End, CutInPath, CellAt
<1> QED BY <1>1, <1>2, <1>3, <1>4

LEMMA StrayChunkIs ==
  ASSUME NEW n, NEW done \in Nat, StrayChunk(n, done)
  PROVE  ci' \in Chunks \cup {Null} /\ hashes' \in Nat /\ off' = off
BY DEF StrayChunk

(* Whatever is read astray, it is read after all that is there.            *)
LEMMA StrayFileMoves ==
  ASSUME ReadSoFar, StrayFile
  PROVE  ReadSoFar' /\ adrift' /\ CutInPath /\ trace' = trace /\ TakenSoFar = Intact
<1>1. /\ trace' = trace /\ files < Len(trace.backup) /\ files' = files + 1 /\ adrift' = TRUE
      /\ chunks' \in Nat /\ StrayChunk(chunks', 0)
  BY SegmenterAssumption DEF StrayFile, MoreFiles, FromStart
<1>2. off = End /\ CutInPath /\ TakenSoFar = Intact
  BY BackwardsIs DEF StrayFile
<1>3. ci' \in Chunks \cup {Null} /\ hashes' \in Nat /\ off' = off
  BY <1>1, StrayChunkIs
<1>4. files' \in 0 .. Len(trace.backup)
  BY <1>1, PositionFacts
<1>5. TraceTypeOK'
  BY <1>1, <1>3, <1>4, PositionFacts DEF TraceTypeOK, End
<1> QED BY <1>1, <1>2, <1>3, <1>5 DEF ReadSoFar, End, CutInPath, CellAt

LEMMA StrayChunkMoves ==
  ASSUME ReadSoFar, adrift, StrayChunk(chunks, hashes),
         UNCHANGED <<trace, files, chunks, adrift>>
  PROVE  ReadSoFar' /\ CutInPath
<1>1. off = End /\ CutInPath
  BY BackwardsIs DEF Backwards
<1>2. ci' \in Chunks \cup {Null} /\ hashes' \in Nat /\ off' = off
  BY PositionFacts, StrayChunkIs
<1>3. TraceTypeOK'
  BY <1>2, PositionFacts DEF TraceTypeOK, End
<1> QED BY <1>1, <1>2, <1>3 DEF ReadSoFar, End, CutInPath, CellAt

-----------------------------------------------------------------------------
(*                               Segments                                  *)

(* A segment ends where its content says, and nowhere before; and no        *)
(* segment follows one that ended with the trace.                          *)
NoneIn(s, n) == \A p \in MIN_SEGMENT_SIZE .. n : s[p] \notin Boundaries
Closes(s) ==
  Len(s) >= MIN_SEGMENT_SIZE /\ (s[Len(s)] \in Boundaries \/ Len(s) = MAX_SEGMENT_SIZE)
IsSegment(s) == Len(s) \in 1 .. MAX_SEGMENT_SIZE /\ NoneIn(s, Len(s) - 1)
Finished == ci = Null /\ ~Whole(off) /\ fp = <<>> /\ pc # "test"

Cutting ==
  /\ Len(fp) <= MAX_SEGMENT_SIZE
  /\ pc = "read" => Len(fp) < MAX_SEGMENT_SIZE /\ NoneIn(fp, Len(fp))
  /\ pc = "test" => fp # <<>> /\ NoneIn(fp, Len(fp) - 1)

Cut ==
  \A n \in 1 .. Len(segments) :
    /\ IsSegment(segments[n])
    /\ \/ Closes(segments[n])
       \/ Complete(n) /\ ((n = Len(segments) /\ Finished) \/ adrift)

(* What is complete stays so.                                              *)
LEMMA CompleteStays ==
  ASSUME trace' = trace, segments' = segments, NEW n
  PROVE  Complete(n)' <=> Complete(n)
BY DEF Complete, Intact, FirstCells

LEMMA CutStays ==
  ASSUME Cut, trace' = trace, segments' = segments, adrift => adrift',
         Finished => Finished' \/ adrift'
  PROVE  Cut'
<1>1. ASSUME NEW n \in 1 .. Len(segments)
      PROVE  /\ IsSegment(segments[n])
             /\ \/ Closes(segments[n])
                \/ Complete(n)' /\ ((n = Len(segments) /\ Finished') \/ adrift')
  BY CompleteStays DEF Cut
<1> QED BY <1>1 DEF Cut

SegmenterInv ==
  /\ ReadSoFar
  /\ fp \in Seq(Chunks) /\ segments \in Seq(Seq(Chunks))
  /\ pc \in {"read", "test", "done", "exited"}
  /\ Cutting /\ Cut
  /\ NothingLost

LEMMA SegmenterInvIs ==
  ASSUME SegmenterInv
  PROVE  SegmenterTypeOK /\ SizesBounded /\ CutByContent /\ NothingLost
<1>1. SegmenterTypeOK
  BY DEF SegmenterInv, SegmenterTypeOK, ReadSoFar
<1>2. segments \in Seq(Seq(Chunks)) /\ fp \in Seq(Chunks)
  BY DEF SegmenterInv
<1>3. /\ DOMAIN segments = 1 .. Len(segments) /\ Len(segments) \in Nat
      /\ \A n \in 1 .. Len(segments) : Len(segments[n]) \in Nat
  BY <1>2
<1>4. /\ Len(fp) <= MAX_SEGMENT_SIZE
      /\ \A n \in 1 .. Len(segments) :
           /\ IsSegment(segments[n])
           /\ \/ Closes(segments[n])
              \/ Complete(n) /\ ((n = Len(segments) /\ Finished) \/ adrift)
  BY DEF SegmenterInv, Cutting, Cut
<1>5. SizesBounded
  <2>1. ASSUME NEW n \in DOMAIN segments
        PROVE  /\ Len(segments[n]) \in 1 .. MAX_SEGMENT_SIZE
               /\ n < Len(segments) /\ ~adrift => Len(segments[n]) >= MIN_SEGMENT_SIZE
    <3>1. n \in 1 .. Len(segments)
      BY <1>3
    <3>2. Len(segments[n]) \in 1 .. MAX_SEGMENT_SIZE
      BY <1>4, <3>1 DEF IsSegment
    <3>3. Len(segments[n]) >= MIN_SEGMENT_SIZE \/ n = Len(segments) \/ adrift
      BY <1>4, <3>1 DEF Closes
    <3>4. n < Len(segments) => n # Len(segments)
      BY <1>3, <3>1
    <3> QED BY <3>2, <3>3, <3>4
  <2> QED BY <1>4, <2>1 DEF SizesBounded
<1>6. CutByContent
  <2>1. ASSUME NEW n \in DOMAIN segments
        PROVE  LET s == segments[n]
               IN  /\ \A p \in MIN_SEGMENT_SIZE .. Len(s) - 1 : s[p] \notin Boundaries
                   /\ \/ Len(s) >= MIN_SEGMENT_SIZE /\ Last(s) \in Boundaries
                      \/ Len(s) = MAX_SEGMENT_SIZE
                      \/ Complete(n)
    <3>1. IsSegment(segments[n]) /\ (Closes(segments[n]) \/ Complete(n))
      BY <1>3, <1>4
    <3> QED BY <3>1 DEF IsSegment, NoneIn, Closes, Last
  <2> QED BY <2>1 DEF CutByContent
<1> QED BY <1>1, <1>5, <1>6 DEF SegmenterInv

LEMMA SequenceFacts ==
  ASSUME SegmenterInv
  PROVE  /\ FlattenSeq(segments) \in Seq(Chunks \cup {Null})
         /\ fp \in Seq(Chunks \cup {Null}) /\ Pending \in Seq(Chunks \cup {Null})
         /\ Given = FlattenSeq(segments) \o fp \o Pending
         /\ Given \in Seq(Chunks \cup {Null})
<1> DEFINE V == Chunks \cup {Null}
<1>1. fp \in Seq(Chunks) /\ FlattenSeq(segments) \in Seq(Chunks)
  BY FlattenType DEF SegmenterInv
<1>2. \A s \in Seq(Chunks) : s \in Seq(V)
  BY SeqMonotonic
<1>3. Pending \in Seq(V)
  <2>1. ci \in V
    BY DEF SegmenterInv, ReadSoFar
  <2> HIDE DEF V
  <2> QED BY <2>1 DEF Pending
<1>4. Given = FlattenSeq(segments) \o fp \o Pending
  BY DEF Given, Pending
<1>5. FlattenSeq(segments) \in Seq(V) /\ fp \in Seq(V)
  BY <1>1, <1>2
<1>6. Given \in Seq(V)
  <2> HIDE DEF V
  <2> QED BY <1>3, <1>4, <1>5
<1> QED BY <1>3, <1>4, <1>5, <1>6

(* What is added behind a sequence leaves its prefixes.                    *)
LEMMA PrefixGrows ==
  ASSUME NEW S, NEW s \in Seq(S), NEW t \in Seq(S), NEW u \in Seq(S), IsPrefix(s, t)
  PROVE  IsPrefix(s, t \o u)
<1>1. /\ Len(s) \in Nat /\ Len(t) \in Nat /\ Len(u) \in Nat /\ Len(s) <= Len(t)
      /\ SubSeq(s, 1, Len(s)) = SubSeq(t, 1, Len(s))
  BY DEF IsPrefix
<1>2. Len(t \o u) = Len(t) + Len(u)
  OBVIOUS
<1>3. SubSeq(t \o u, 1, Len(s)) = SubSeq(t, 1, Len(s))
  BY <1>1
<1>4. Len(s) <= Len(t \o u)
  BY <1>1, <1>2
<1> QED BY <1>1, <1>3, <1>4 DEF IsPrefix

LEMMA PrefixOfItself ==
  ASSUME NEW S, NEW s \in Seq(S)
  PROVE  IsPrefix(s, s)
BY DEF IsPrefix

(* A step that reads what the trace says, ...                              *)
LEMMA NothingLostIs ==
  ASSUME ~adrift', Given' = TakenSoFar', pc' = "done" => FlattenSeq(segments') = Intact'
  PROVE  NothingLost'
BY DEF NothingLost

(* ... one that may be astray, ...                                         *)
LEMMA NothingLostAstray ==
  ASSUME SegmenterInv, adrift', trace' = trace, CutInPath,
         adrift \/ TakenSoFar = Intact,
         NEW u \in Seq(Chunks \cup {Null}), Given' = Given \o u
  PROVE  NothingLost'
<1> DEFINE V == Chunks \cup {Null}
<1>1. /\ Given \in Seq(V) /\ Intact' = Intact /\ CutInPath' = CutInPath
  BY SequenceFacts DEF Intact, FirstCells, CutInPath, CellAt
<1>2. Intact \in Seq(V)
  <2>1. trace \in Traces
    BY DEF SegmenterInv, ReadSoFar
  <2>2. trace.whole \in 0 .. trace.whole
    BY <2>1, TraceIs
  <2> HIDE DEF V
  <2> QED BY <2>1, <2>2, TakenSoFarIs, TakenType DEF V
<1>3. IsPrefix(Intact, Given)
  <2>1. CASE adrift
    BY <2>1 DEF SegmenterInv, NothingLost
  <2>2. CASE ~adrift
    <3>1. Given = Intact
      BY <2>2 DEF SegmenterInv, NothingLost
    <3> HIDE DEF V
    <3> QED BY <1>2, <3>1, PrefixOfItself
  <2> QED BY <2>1, <2>2
<1> HIDE DEF V
<1>4. IsPrefix(Intact, Given \o u)
  BY <1>1, <1>2, <1>3, PrefixGrows DEF V
<1> QED BY <1>1, <1>4 DEF NothingLost

(* ... and one that reads nothing.                                         *)
LEMMA NothingLostStays ==
  ASSUME SegmenterInv, trace' = trace, adrift' = adrift,
         Given' = Given, TakenSoFar' = TakenSoFar,
         pc' = "done" => adrift \/ FlattenSeq(segments') = Intact
  PROVE  NothingLost'
<1>1. Intact' = Intact /\ CutInPath' = CutInPath
  BY DEF Intact, FirstCells, CutInPath, CellAt
<1> QED BY <1>1 DEF SegmenterInv, NothingLost

LEMMA Unmoved ==
  ASSUME SegmenterInv, UNCHANGED traceVars
  PROVE  /\ ReadSoFar' /\ TakenSoFar' = TakenSoFar /\ Pending' = Pending /\ Intact' = Intact
         /\ adrift' = adrift /\ trace' = trace /\ ci' = ci /\ off' = off
         /\ Whole(off)' = Whole(off)
BY DEF SegmenterInv, ReadSoFar, traceVars, TraceTypeOK, End, Reads, Stopped, Backwards,
       CutInPath, CellAt, TakenSoFar, Intact, FirstCells, Whole, Pending

(* Two traces are cut apart.                                               *)
LEMMA OpenKeeps ==
  ASSUME SegmenterInv, NEW t \in Traces, Open(t), pc = "done"
  PROVE  SegmenterInv'
<1>1. CASE CanOpen(t)
  <2>1. OpenTrace(t) /\ fp' = <<>> /\ segments' = <<>> /\ pc' = "read"
    BY <1>1 DEF Open
  <2>2. ReadSoFar' /\ TakenSoFar' = <<>> /\ Pending' = <<>> /\ ~adrift'
    BY <1>1, <2>1, OpenPlaces
  <2>3. Cutting'
    BY <2>1, SegmenterAssumption DEF Cutting, NoneIn
  <2>4. Cut'
    BY <2>1 DEF Cut
  <2>5. Given' = <<>>
    <3>1. Given' = FlattenSeq(<<>>) \o <<>> \o <<>>
      BY <2>1, <2>2 DEF Given, Pending
    <3> QED BY <3>1, FlattenEmpty
  <2>6. NothingLost'
    BY <2>1, <2>2, <2>5, NothingLostIs
  <2> QED BY <2>1, <2>2, <2>3, <2>4, <2>6 DEF SegmenterInv
<1>2. CASE ~CanOpen(t)
  <2>1. pc' = "exited" /\ UNCHANGED traceVars /\ fp' = fp /\ segments' = segments
    BY <1>2 DEF Open
  <2>2. /\ ReadSoFar' /\ TakenSoFar' = TakenSoFar /\ Pending' = Pending /\ adrift' = adrift
        /\ trace' = trace /\ ci' = ci /\ Whole(off)' = Whole(off)
    BY <2>1, Unmoved
  <2>3. Cutting' /\ Cut'
    BY <2>1, <2>2, CutStays DEF SegmenterInv, Cutting, Finished
  <2>4. Given' = Given
    BY <2>1, <2>2 DEF Given
  <2>5. NothingLost'
    BY <2>1, <2>2, <2>4, NothingLostStays
  <2> QED BY <2>1, <2>2, <2>3, <2>5 DEF SegmenterInv
<1> QED BY <1>1, <1>2

LEMMA TakeFileKeeps ==
  ASSUME SegmenterInv, TakeFile
  PROVE  SegmenterInv'
<1> DEFINE V == Chunks \cup {Null}
<1>1. /\ pc = "read" /\ ci = Null /\ (NextFile \/ StrayFile)
      /\ fp' = fp /\ segments' = segments /\ pc' = pc
  BY DEF TakeFile, NeedsFile
<1>2. /\ ReadSoFar' /\ trace' = trace
      /\ \/ NextFile /\ ~adrift /\ ~adrift' /\ TakenSoFar' = TakenSoFar \o Pending'
         \/ StrayFile /\ adrift' /\ CutInPath /\ TakenSoFar = Intact
  <2>1. ReadSoFar
    BY DEF SegmenterInv
  <2>2. CASE NextFile
    BY <1>1, <2>1, <2>2, NextFileMoves
  <2>3. CASE StrayFile
    BY <1>1, <2>1, <2>3, StrayFileMoves
  <2> QED BY <1>1, <2>2, <2>3
<1>3. Cutting'
  BY <1>1 DEF SegmenterInv, Cutting
<1>4. NextFile => ~Finished
  <2> SUFFICES ASSUME NextFile PROVE ~Finished
    OBVIOUS
  <2>1. ReadSoFar
    BY DEF SegmenterInv
  <2>2. off \in Nat /\ chunks \in Nat /\ hashes \in Nat /\ trace.whole \in Nat
    BY <2>1, PositionFacts
  <2>3. hashes <= chunks /\ Whole(off + (chunks - hashes))
    BY DEF NextFile, Forwards, Skipped, ToSkip
  <2> QED BY <2>2, <2>3 DEF Finished, Whole
<1>5. Cut'
  <2>1. Cut /\ (adrift => adrift')
    BY <1>2 DEF SegmenterInv
  <2> QED BY <1>1, <1>2, <1>4, <2>1, CutStays
<1>6. Pending' \in Seq(V) /\ Given' = Given \o Pending'
  <2>1. Pending' \in Seq(V)
    <3>1. ci' \in V
      BY <1>2 DEF ReadSoFar
    <3> HIDE DEF V
    <3> QED BY <3>1 DEF Pending
  <2>2. /\ FlattenSeq(segments) \o fp \in Seq(V) /\ Pending = <<>>
        /\ Given = FlattenSeq(segments) \o fp \o Pending
    <3>1. /\ FlattenSeq(segments) \in Seq(V) /\ fp \in Seq(V)
          /\ Given = FlattenSeq(segments) \o fp \o Pending
      BY SequenceFacts
    <3> HIDE DEF V
    <3> QED BY <1>1, <3>1 DEF Pending
  <2>3. Given = FlattenSeq(segments) \o fp
    <3> HIDE DEF V
    <3> QED BY <2>2, ConcatEmpty
  <2>4. Given' = FlattenSeq(segments) \o fp \o Pending'
    BY <1>1 DEF Given, Pending
  <2> HIDE DEF V
  <2> QED BY <2>1, <2>3, <2>4
<1>7. CASE ~adrift'
  <2>1. Given' = TakenSoFar'
    BY <1>2, <1>6, <1>7 DEF SegmenterInv, NothingLost
  <2>2. NothingLost'
    BY <1>1, <1>7, <2>1, NothingLostIs
  <2> QED BY <1>1, <1>2, <1>3, <1>5, <2>2 DEF SegmenterInv
<1>8. CASE adrift'
  <2>1. NothingLost'
    BY <1>2, <1>6, <1>8, NothingLostAstray
  <2> QED BY <1>1, <1>2, <1>3, <1>5, <2>1 DEF SegmenterInv
<1> QED BY <1>7, <1>8

LEMMA TakeChunkKeeps ==
  ASSUME SegmenterInv, TakeChunk
  PROVE  SegmenterInv'
<1> DEFINE V == Chunks \cup {Null}
<1>1. /\ pc = "read" /\ ci # Null
      /\ IF adrift THEN StrayChunk(chunks, hashes) ELSE NextChunk(off, chunks, hashes)
      /\ fp' = Append(fp, ci) /\ pc' = "test"
      /\ UNCHANGED <<trace, files, chunks, adrift>> /\ segments' = segments
  BY DEF TakeChunk
<1>2. /\ ReadSoFar' /\ trace' = trace /\ adrift' = adrift
      /\ IF adrift THEN CutInPath ELSE TakenSoFar' = TakenSoFar \o Pending'
  BY <1>1, ChunkMoves, StrayChunkMoves DEF SegmenterInv
<1>3. /\ fp \in Seq(Chunks) /\ ci \in Chunks /\ Len(fp) < MAX_SEGMENT_SIZE
      /\ NoneIn(fp, Len(fp)) /\ Len(fp) \in Nat
  BY <1>1 DEF SegmenterInv, ReadSoFar, Cutting
<1>4. /\ fp' \in Seq(Chunks) /\ Len(fp') = Len(fp) + 1 /\ fp' # <<>>
      /\ \A k \in 1 .. Len(fp) : fp'[k] = fp[k]
  BY <1>1, <1>3
<1>5. Cutting'
  <2>1. Len(fp') <= MAX_SEGMENT_SIZE
    BY <1>3, <1>4, SegmenterAssumption
  <2>2. ASSUME NEW p \in MIN_SEGMENT_SIZE .. Len(fp') - 1 PROVE fp'[p] \notin Boundaries
    <3>1. p \in MIN_SEGMENT_SIZE .. Len(fp) /\ p \in 1 .. Len(fp)
      BY <1>3, <1>4, SegmenterAssumption
    <3> QED BY <1>3, <1>4, <3>1 DEF NoneIn
  <2> QED BY <1>1, <1>4, <2>1, <2>2 DEF Cutting, NoneIn
<1>6. Cut'
  <2>1. ~Finished
    BY <1>1 DEF Finished
  <2> QED BY <1>1, <1>2, <2>1, CutStays DEF SegmenterInv
<1>7. Pending' \in Seq(V) /\ Given' = Given \o Pending'
  <2>1. Pending' \in Seq(V)
    <3>1. ci' \in V
      BY <1>2 DEF ReadSoFar
    <3> HIDE DEF V
    <3> QED BY <3>1 DEF Pending
  <2>2. /\ FlattenSeq(segments) \in Seq(V) /\ fp \in Seq(V) /\ Pending \in Seq(V)
        /\ Given = FlattenSeq(segments) \o fp \o Pending
    BY SequenceFacts
  <2>3. Pending = <<ci>> /\ fp' = fp \o <<ci>>
    BY <1>1, <1>3, AppendIsConcat DEF Pending
  <2>4. Given' = FlattenSeq(segments) \o fp' \o Pending'
    BY <1>1 DEF Given, Pending
  <2> HIDE DEF V
  <2>5. FlattenSeq(segments) \o fp' = (FlattenSeq(segments) \o fp) \o <<ci>>
    BY <2>2, <2>3, ConcatAssociative
  <2> QED BY <2>1, <2>2, <2>3, <2>4, <2>5
<1>8. NothingLost'
  <2>1. CASE adrift
    BY <1>2, <1>7, <2>1, NothingLostAstray
  <2>2. CASE ~adrift
    <3>1. Given' = TakenSoFar'
      BY <1>2, <1>7, <2>2 DEF SegmenterInv, NothingLost
    <3> QED BY <1>1, <1>2, <2>2, <3>1, NothingLostIs
  <2> QED BY <2>1, <2>2
<1> QED BY <1>1, <1>2, <1>4, <1>5, <1>6, <1>8 DEF SegmenterInv

(* What is appended leaves the beginning.                                  *)
LEMMA SubSeqOfAppend ==
  ASSUME NEW S, NEW s \in Seq(S), NEW x \in S, NEW n \in 1 .. Len(s)
  PROVE  SubSeq(Append(s, x), 1, n) = SubSeq(s, 1, n)
OBVIOUS

(* A segment is returned.                                                  *)
LEMMA ReturnCuts ==
  ASSUME SegmenterInv, Return, IsSegment(fp), pc # "done",
         Closes(fp) \/ (Finished' /\ IsPrefix(Intact, FlattenSeq(segments) \o fp)),
         adrift' = adrift, trace' = trace
  PROVE  /\ fp' = <<>> /\ fp' \in Seq(Chunks) /\ segments' \in Seq(Seq(Chunks)) /\ Cut'
         /\ FlattenSeq(segments') = FlattenSeq(segments) \o fp
<1>1. segments' = Append(segments, fp) /\ fp' = <<>>
  BY DEF Return
<1>2. fp \in Seq(Chunks) /\ segments \in Seq(Seq(Chunks)) /\ Len(fp) \in 1 .. MAX_SEGMENT_SIZE
  BY DEF SegmenterInv, IsSegment
<1>3. /\ Len(segments) \in Nat /\ Len(segments') = Len(segments) + 1
      /\ segments' \in Seq(Seq(Chunks)) /\ segments'[Len(segments) + 1] = fp
      /\ \A n \in 1 .. Len(segments) : segments'[n] = segments[n]
  BY <1>1, <1>2
<1>4. ~Finished
  BY <1>2 DEF Finished
<1>5. FlattenSeq(segments') = FlattenSeq(segments) \o fp
  BY <1>1, <1>2, FlattenAppend
<1>6. ASSUME NEW n \in 1 .. Len(segments')
      PROVE  /\ IsSegment(segments'[n])
             /\ \/ Closes(segments'[n])
                \/ Complete(n)' /\ ((n = Len(segments') /\ Finished') \/ adrift')
  <2>1. CASE n = Len(segments')
    <3>1. SubSeq(segments', 1, n) = segments'
      BY <1>3, <2>1
    <3>2. Intact' = Intact
      BY DEF Intact, FirstCells
    <3>3. Complete(n)' <=> IsPrefix(Intact, FlattenSeq(segments) \o fp)
      BY <1>5, <3>1, <3>2 DEF Complete
    <3> QED BY <1>3, <2>1, <3>3
  <2>2. CASE n # Len(segments')
    <3>1. n \in 1 .. Len(segments)
      BY <1>3, <2>2
    <3>2. SubSeq(segments', 1, n) = SubSeq(segments, 1, n)
      <4> DEFINE S == Seq(Chunks)
      <4>1. /\ segments \in Seq(S) /\ fp \in S /\ segments' = Append(segments, fp)
            /\ n \in 1 .. Len(segments)
        BY <1>1, <1>2, <3>1
      <4> HIDE DEF S
      <4> QED BY <4>1, SubSeqOfAppend
    <3>3. Complete(n)' <=> Complete(n)
      BY <3>2 DEF Complete, Intact, FirstCells
    <3> QED BY <1>3, <1>4, <3>1, <3>3 DEF SegmenterInv, Cut
  <2> QED BY <2>1, <2>2
<1>7. Cut'
  BY <1>6 DEF Cut
<1> QED BY <1>1, <1>3, <1>5, <1>7

LEMMA ReturnGives ==
  ASSUME SegmenterInv, ci' = ci, fp' = <<>>,
         FlattenSeq(segments') = FlattenSeq(segments) \o fp
  PROVE  Given' = Given
<1> DEFINE V == Chunks \cup {Null}
<1>1. /\ FlattenSeq(segments) \in Seq(V) /\ fp \in Seq(V)
      /\ Given = FlattenSeq(segments) \o fp \o Pending
  BY SequenceFacts
<1>2. Given' = (FlattenSeq(segments) \o fp) \o <<>> \o Pending
  BY DEF Given, Pending
<1> HIDE DEF V
<1>3. FlattenSeq(segments) \o fp \in Seq(V)
  BY <1>1
<1>4. (FlattenSeq(segments) \o fp) \o <<>> = FlattenSeq(segments) \o fp
  BY <1>3, ConcatEmpty
<1> QED BY <1>1, <1>2, <1>4

(* Where no file is found, everything that is there has been given.        *)
LEMMA EndsWithAll ==
  ASSUME SegmenterInv, ci = Null, TakenSoFar = Intact
  PROVE  IsPrefix(Intact, FlattenSeq(segments) \o fp)
<1> DEFINE V == Chunks \cup {Null}
<1>1. Given \in Seq(V) /\ Given = FlattenSeq(segments) \o fp
  <2>1. /\ FlattenSeq(segments) \in Seq(V) /\ fp \in Seq(V) /\ Given \in Seq(V)
        /\ Given = FlattenSeq(segments) \o fp \o Pending
    BY SequenceFacts
  <2>2. Pending = <<>>
    BY DEF Pending
  <2> HIDE DEF V
  <2>3. FlattenSeq(segments) \o fp \in Seq(V)
    BY <2>1
  <2> QED BY <2>1, <2>2, <2>3, ConcatEmpty
<1>2. CASE adrift
  BY <1>1, <1>2 DEF SegmenterInv, NothingLost
<1>3. CASE ~adrift
  <2>1. Given = Intact
    BY <1>3 DEF SegmenterInv, NothingLost
  <2> HIDE DEF V
  <2> QED BY <1>1, <2>1, PrefixOfItself
<1> QED BY <1>2, <1>3

LEMMA FinishKeeps ==
  ASSUME SegmenterInv, Finish
  PROVE  SegmenterInv'
<1> DEFINE V == Chunks \cup {Null}
<1>1. pc = "read" /\ ci = Null /\ (NoNextFile \/ NoStrayFile)
  BY DEF Finish, NeedsFile
<1>2. /\ ReadSoFar' /\ ci' = Null /\ trace' = trace /\ ~Whole(off') /\ adrift' = adrift
      /\ TakenSoFar' = TakenSoFar /\ TakenSoFar = Intact
  BY <1>1, NoNextFileMoves, NoStrayFileMoves DEF SegmenterInv
<1>3. ~Whole(off)'
  BY <1>2 DEF Whole
<1>4. fp \in Seq(Chunks) /\ Len(fp) < MAX_SEGMENT_SIZE /\ NoneIn(fp, Len(fp)) /\ Len(fp) \in Nat
  BY <1>1 DEF SegmenterInv, Cutting
<1>5. CASE fp # <<>>
  <2>1. Return /\ pc' = pc
    BY <1>5 DEF Finish, SomethingLeft
  <2>2. Finished'
    BY <1>1, <1>2, <1>3, <2>1 DEF Finished, Return
  <2>3. IsSegment(fp)
    <3>1. Len(fp) \in 1 .. MAX_SEGMENT_SIZE
      BY <1>4, <1>5, SegmenterAssumption
    <3>2. NoneIn(fp, Len(fp) - 1)
      BY <1>4, SegmenterAssumption DEF NoneIn
    <3> QED BY <3>1, <3>2 DEF IsSegment
  <2>4. /\ fp' = <<>> /\ fp' \in Seq(Chunks) /\ segments' \in Seq(Seq(Chunks)) /\ Cut'
        /\ FlattenSeq(segments') = FlattenSeq(segments) \o fp
    <3>1. IsPrefix(Intact, FlattenSeq(segments) \o fp)
      BY <1>1, <1>2, EndsWithAll
    <3> QED BY <1>1, <1>2, <2>1, <2>2, <2>3, <3>1, ReturnCuts
  <2>5. Cutting'
    BY <1>1, <2>1, <2>4, SegmenterAssumption DEF Cutting, NoneIn
  <2>6. NothingLost'
    <3>1. Given' = Given
      BY <1>1, <1>2, <2>4, ReturnGives
    <3> QED BY <1>1, <1>2, <2>1, <3>1, NothingLostStays
  <2> QED BY <1>1, <1>2, <2>1, <2>4, <2>5, <2>6 DEF SegmenterInv
<1>6. CASE fp = <<>>
  <2>1. pc' = "done" /\ fp' = fp /\ segments' = segments
    BY <1>6 DEF Finish, SomethingLeft
  <2>2. Finished'
    BY <1>2, <1>3, <1>6, <2>1 DEF Finished
  <2>3. Cutting'
    BY <1>4, <2>1, SegmenterAssumption DEF Cutting
  <2>4. Cut'
    BY <1>2, <2>1, <2>2, CutStays DEF SegmenterInv
  <2>5. ~adrift => FlattenSeq(segments) = Intact
    <3> SUFFICES ASSUME ~adrift PROVE FlattenSeq(segments) = Intact
      OBVIOUS
    <3>1. Given = Intact
      BY <1>2 DEF SegmenterInv, NothingLost
    <3>2. /\ FlattenSeq(segments) \in Seq(V) /\ Pending = <<>>
          /\ Given = FlattenSeq(segments) \o <<>> \o Pending
      BY <1>1, <1>6, SequenceFacts DEF Pending
    <3> HIDE DEF V
    <3> QED BY <3>1, <3>2, ConcatEmpty
  <2>6. NothingLost'
    <3>1. Given' = Given
      BY <1>1, <1>2, <2>1 DEF Given
    <3> QED BY <1>2, <2>1, <2>5, <3>1, NothingLostStays
  <2> QED BY <1>2, <2>1, <2>3, <2>4, <2>6, <1>4 DEF SegmenterInv
<1> QED BY <1>5, <1>6

LEMMA TestKeeps ==
  ASSUME SegmenterInv, Test
  PROVE  SegmenterInv'
<1>1. /\ pc = "test" /\ pc' = "read" /\ UNCHANGED traceVars
  BY DEF Test
<1>2. /\ ReadSoFar' /\ TakenSoFar' = TakenSoFar /\ ci' = ci /\ adrift' = adrift
      /\ trace' = trace
  BY <1>1, Unmoved
<1>3. /\ fp \in Seq(Chunks) /\ fp # <<>> /\ Len(fp) <= MAX_SEGMENT_SIZE
      /\ NoneIn(fp, Len(fp) - 1) /\ Len(fp) \in Nat /\ Len(fp) # 0
  BY <1>1 DEF SegmenterInv, Cutting
<1>4. ~Finished
  BY <1>1 DEF Finished
<1>5. CASE UNCHANGED <<fp, segments>> /\
           (Len(fp) < MIN_SEGMENT_SIZE
              \/ (~(Len(fp) >= MAX_SEGMENT_SIZE) /\ Last(fp) \notin Boundaries))
  <2>1. Len(fp) < MAX_SEGMENT_SIZE
    BY <1>3, <1>5, SegmenterAssumption
  <2>2. ASSUME NEW p \in MIN_SEGMENT_SIZE .. Len(fp) PROVE fp[p] \notin Boundaries
    <3>1. CASE p = Len(fp)
      BY <1>3, <1>5, <3>1, SegmenterAssumption DEF Last
    <3>2. CASE p # Len(fp)
      <4>1. p \in MIN_SEGMENT_SIZE .. Len(fp) - 1
        BY <1>3, <3>2, SegmenterAssumption
      <4> QED BY <1>3, <4>1 DEF NoneIn
    <3> QED BY <3>1, <3>2
  <2>3. Cutting'
    BY <1>1, <1>3, <1>5, <2>1, <2>2 DEF Cutting, NoneIn
  <2>4. Cut'
    BY <1>2, <1>4, <1>5, CutStays DEF SegmenterInv
  <2>5. NothingLost'
    <3>1. Given' = Given
      BY <1>2, <1>5 DEF Given
    <3> QED BY <1>1, <1>2, <3>1, NothingLostStays
  <2> QED BY <1>1, <1>2, <1>3, <1>5, <2>3, <2>4, <2>5 DEF SegmenterInv
<1>6. CASE Return /\ ~(Len(fp) < MIN_SEGMENT_SIZE)
           /\ ~(~(Len(fp) >= MAX_SEGMENT_SIZE) /\ Last(fp) \notin Boundaries)
  <2>1. IsSegment(fp) /\ Closes(fp)
    <3>1. Len(fp) \in 1 .. MAX_SEGMENT_SIZE /\ Len(fp) >= MIN_SEGMENT_SIZE
          /\ (Len(fp) = MAX_SEGMENT_SIZE \/ Last(fp) \in Boundaries)
      BY <1>3, <1>6, SegmenterAssumption
    <3> QED BY <1>3, <3>1 DEF IsSegment, Closes, Last
  <2>2. /\ fp' = <<>> /\ fp' \in Seq(Chunks) /\ segments' \in Seq(Seq(Chunks)) /\ Cut'
        /\ FlattenSeq(segments') = FlattenSeq(segments) \o fp
    BY <1>1, <1>2, <1>6, <2>1, ReturnCuts
  <2>3. Cutting'
    BY <1>1, <2>2, SegmenterAssumption DEF Cutting, NoneIn
  <2>4. NothingLost'
    <3>1. Given' = Given
      BY <1>2, <2>2, ReturnGives
    <3> QED BY <1>1, <1>2, <3>1, NothingLostStays
  <2> QED BY <1>1, <1>2, <2>2, <2>3, <2>4 DEF SegmenterInv
<1> QED BY <1>5, <1>6 DEF Test, TooShort, TooLong

LEMMA SegmenterKeeps ==
  ASSUME SegmenterInv, NewMessageSegment
  PROVE  /\ SegmenterInv'
         /\ \/ segments' = segments
            \/ segments' = Append(segments, fp)
<1>1. SegmenterInv'
  BY TakeFileKeeps, FinishKeeps, TakeChunkKeeps, TestKeeps DEF NewMessageSegment
<1>2. segments' = segments \/ segments' = Append(segments, fp)
  BY DEF NewMessageSegment, TakeFile, Finish, TakeChunk, Test, Return
<1> QED BY <1>1, <1>2

LEMMA SegmenterStutter ==
  ASSUME SegmenterInv, UNCHANGED segmenterVars
  PROVE  SegmenterInv'
<1>1. UNCHANGED traceVars /\ fp' = fp /\ segments' = segments /\ pc' = pc
  BY DEF segmenterVars
<1>2. /\ ReadSoFar' /\ TakenSoFar' = TakenSoFar /\ ci' = ci /\ adrift' = adrift
      /\ trace' = trace /\ Whole(off)' = Whole(off)
  BY <1>1, Unmoved
<1>3. Cutting' /\ Cut'
  BY <1>1, <1>2, CutStays DEF SegmenterInv, Cutting, Finished
<1>4. NothingLost'
  <2>1. Given' = Given
    BY <1>1, <1>2 DEF Given
  <2>2. pc' = "done" => adrift \/ FlattenSeq(segments') = Intact
    BY <1>1 DEF SegmenterInv, NothingLost
  <2> QED BY <1>2, <2>1, <2>2, NothingLostStays
<1> QED BY <1>1, <1>2, <1>3, <1>4 DEF SegmenterInv

LEMMA SegmenterStarts == Init => SegmenterInv
<1> SUFFICES ASSUME Init PROVE SegmenterInv
  OBVIOUS
<1> DEFINE t == TraceOf(<<>>, 0, FALSE)
<1>1. /\ trace = t /\ off = 0 /\ files = 0 /\ chunks = 0 /\ hashes = 0 /\ ci = Null
      /\ adrift = FALSE /\ fp = <<>> /\ segments = <<>> /\ pc = "done"
  BY DEF Init
<1>2. t.backup = <<>> /\ t.whole = 0 /\ t.torn = FALSE
  BY DEF TraceOf
<1>3. t \in Traces
  <2>1. <<>> \in Seq(Seq(Chunks))
    OBVIOUS
  <2>2. Layout(<<>>, Cells(<<>>), Place(<<>>))
    BY <2>1, PlaceIs
  <2>3. Len(Cells(<<>>)) \in Nat
    BY <2>2 DEF Layout
  <2>4. t \in [backup : Seq(Seq(Chunks)), whole : Nat, torn : BOOLEAN]
    BY <2>1 DEF TraceOf
  <2> HIDE DEF t
  <2>5. t.whole <= Len(Cells(t.backup)) /\ ~t.torn
    <3>1. Cells(t.backup) = Cells(<<>>)
      BY <1>2
    <3>2. t.whole = 0
      BY <1>2
    <3> QED BY <1>2, <2>3, <3>1, <3>2
  <2> QED BY <2>4, <2>5 DEF Traces
<1> HIDE DEF t
<1>4. ReadSoFar
  <2>1. trace.backup = <<>> /\ trace.whole = 0 /\ trace.torn = FALSE /\ End = 0
    BY <1>1, <1>2 DEF End
  <2>2. TraceTypeOK
    <3>1. off \in 0 .. End /\ files \in 0 .. Len(trace.backup)
      BY <1>1, <2>1
    <3> QED BY <1>1, <3>1 DEF TraceTypeOK
  <2>3. Stopped /\ ~Backwards
    BY <1>1, <2>1 DEF Stopped, Backwards
  <2> QED BY <1>1, <1>3, <2>2, <2>3 DEF ReadSoFar
<1>5. Cutting /\ Cut
  BY <1>1, SegmenterAssumption DEF Cutting, Cut, NoneIn
<1>6. NothingLost
  <2>1. Taken(t, 0) = <<>>
    BY FingerprintsEmpty DEF Taken
  <2>2. TakenSoFar = <<>> /\ Intact = <<>>
    BY <1>1, <1>2, <2>1, TakenSoFarIs DEF Before
  <2>3. Given = <<>>
    <3>1. Given = FlattenSeq(<<>>) \o <<>> \o <<>>
      BY <1>1 DEF Given
    <3> QED BY <3>1, FlattenEmpty
  <2> QED BY <1>1, <2>2, <2>3, FlattenEmpty DEF NothingLost
<1> QED BY <1>1, <1>4, <1>5, <1>6 DEF SegmenterInv

-----------------------------------------------------------------------------
(*                        The features of a segment                        *)

(* One sequence has the elements of another one, each as often.            *)
Rearranges(a, s) == Len(a) = Len(s) /\ \A v : Count(a, v) = Count(s, v)
Exchange(s, p, q) == [s EXCEPT ![p] = s[q], ![q] = s[p]]
Exchanged(e, s, p, q) ==
  /\ Len(e) = Len(s)
  /\ \A r \in 1 .. Len(s) : e[r] = IF r = q THEN s[p] ELSE IF r = p THEN s[q] ELSE s[r]

LEMMA CountIs ==
  ASSUME NEW S, NEW s \in Seq(S), NEW v
  PROVE  /\ IsFiniteSet({j \in 1 .. Len(s) : s[j] = v})
         /\ Count(s, v) = Cardinality({j \in 1 .. Len(s) : s[j] = v})
         /\ Count(s, v) \in Nat
         /\ Count(s, v) = 0 <=> v \notin ToSet(s)
<1> DEFINE T == {j \in 1 .. Len(s) : s[j] = v}
<1>1. DOMAIN s = 1 .. Len(s) /\ Len(s) \in Nat
  OBVIOUS
<1>2. IsFiniteSet(T)
  <2>1. T \subseteq 1 .. Len(s) /\ IsFiniteSet(1 .. Len(s))
    BY <1>1, IndicesFinite
  <2> HIDE DEF T
  <2> QED BY <2>1, FS_Subset
<1>3. Count(s, v) = Cardinality(T)
  BY <1>1 DEF Count
<1>4. v \notin ToSet(s) <=> T = {}
  BY <1>1 DEF ToSet
<1> HIDE DEF T
<1>5. Cardinality(T) \in Nat /\ (Cardinality(T) = 0 <=> T = {})
  BY <1>2, FS_CardinalityType, FS_EmptySet
<1> QED BY <1>2, <1>3, <1>4, <1>5 DEF T

LEMMA ExchangeIs ==
  ASSUME NEW S, NEW s \in Seq(S), NEW p \in 1 .. Len(s), NEW q \in 1 .. Len(s)
  PROVE  Exchange(s, p, q) \in Seq(S) /\ Exchanged(Exchange(s, p, q), s, p, q)
<1>1. Len(s) \in Nat /\ s \in [1 .. Len(s) -> S]
  OBVIOUS
<1> DEFINE e == Exchange(s, p, q)
           n == Len(s)
<1> HIDE DEF n
<1>2. /\ e \in [1 .. n -> S]
      /\ \A r \in 1 .. n : e[r] = IF r = q THEN s[p] ELSE IF r = p THEN s[q] ELSE s[r]
  BY <1>1 DEF Exchange, n
<1> HIDE DEF e
<1>3. e \in Seq(S) /\ Len(e) = n
  BY <1>1, <1>2 DEF n
<1> QED BY <1>2, <1>3 DEF Exchanged, e, n

LEMMA ExchangeRearranges ==
  ASSUME NEW S, NEW s \in Seq(S), NEW p \in 1 .. Len(s), NEW q \in 1 .. Len(s)
  PROVE  Rearranges(Exchange(s, p, q), s)
<1> DEFINE e == Exchange(s, p, q)
           n == Len(s)
           turn == [r \in 1 .. n |-> IF r = q THEN p ELSE IF r = p THEN q ELSE r]
<1>1. /\ e \in Seq(S) /\ Len(e) = n
      /\ \A r \in 1 .. n : e[r] = IF r = q THEN s[p] ELSE IF r = p THEN s[q] ELSE s[r]
  <2>1. e \in Seq(S) /\ Exchanged(e, s, p, q)
    BY ExchangeIs
  <2> HIDE DEF e
  <2> QED BY <2>1 DEF Exchanged
<1> HIDE DEF e
<1>2. /\ turn \in [1 .. n -> 1 .. n]
      /\ \A r \in 1 .. n : e[r] = s[turn[r]] /\ turn[turn[r]] = r
  <2> HIDE DEF n
  <2>1. p \in 1 .. n /\ q \in 1 .. n
    BY DEF n
  <2> QED BY <1>1, <2>1
<1> HIDE DEF turn, n
<1>3. ASSUME NEW v PROVE Count(e, v) = Count(s, v)
  <2> DEFINE A == {j \in 1 .. n : s[j] = v}
             B == {j \in 1 .. n : e[j] = v}
             f == [j \in A |-> turn[j]]
  <2>1. f \in [A -> B]
    BY <1>2
  <2>2. \A a, b \in A : f[a] = f[b] => a = b
    BY <1>2
  <2>3. \A b \in B : \E a \in A : f[a] = b
    <3> TAKE b \in B
    <3>1. turn[b] \in A /\ turn[turn[b]] = b
      BY <1>2
    <3> QED BY <3>1
  <2>4. ExistsBijection(A, B)
    <3> HIDE DEF A, B, f
    <3>1. DOMAIN f = A
      BY <2>1
    <3>2. f \in Bijection(A, B)
      BY <2>1, <2>2, <2>3, <3>1 DEF Bijection, Injection, Surjection, IsInjective
    <3> QED BY <3>2 DEF ExistsBijection
  <2>5. IsFiniteSet(A) /\ Count(s, v) = Cardinality(A) /\ Count(e, v) = Cardinality(B)
    <3>1. /\ IsFiniteSet({j \in 1 .. Len(s) : s[j] = v})
          /\ Count(s, v) = Cardinality({j \in 1 .. Len(s) : s[j] = v})
      BY CountIs
    <3>2. Count(e, v) = Cardinality({j \in 1 .. Len(e) : e[j] = v})
      BY <1>1, CountIs
    <3> QED BY <1>1, <3>1, <3>2 DEF n
  <2> HIDE DEF A, B
  <2>6. Cardinality(B) = Cardinality(A)
    BY <2>4, <2>5, FS_Bijection
  <2> QED BY <2>5, <2>6
<1> QED BY <1>1, <1>3 DEF Rearranges, e, n

LEMMA RearrangesTransitive ==
  ASSUME NEW a, NEW b, NEW s, Rearranges(a, b), Rearranges(b, s)
  PROVE  Rearranges(a, s)
BY DEF Rearranges

LEMMA RearrangesToSet ==
  ASSUME NEW S, NEW a \in Seq(S), NEW s \in Seq(S), Rearranges(a, s)
  PROVE  ToSet(a) = ToSet(s)
<1>1. ASSUME NEW v PROVE v \in ToSet(a) <=> v \in ToSet(s)
  <2>1. Count(a, v) = Count(s, v)
    BY DEF Rearranges
  <2>2. (Count(a, v) = 0 <=> v \notin ToSet(a)) /\ (Count(s, v) = 0 <=> v \notin ToSet(s))
    BY CountIs
  <2> QED BY <2>1, <2>2
<1> QED BY <1>1

-----------------------------------------------------------------------------
(* How far the search for the smallest elements of w has come: the frame    *)
(* lies behind the first o places and has n.                               *)
Framed(w, o, n) ==
  /\ \A p \in 1 .. o, q \in o + 1 .. o + n : w[p] <= w[q]
  /\ \A p \in o + n + 1 .. Len(w), q \in o + 1 .. o + n : w[q] <= w[p]

(* It has passed the first j places of the frame, and s are before the one  *)
(* of the pivot t.                                                         *)
Passed(w, o, s, j, t) ==
  /\ w[o + s + 1] = t
  /\ \A p \in o + 1 .. o + s : w[p] < t
  /\ \A p \in o + s + 2 .. o + j : w[p] >= t

FirstSmallest(w, k) == \A p \in 1 .. k, q \in k + 1 .. Len(w) : w[p] <= w[q]

(* A smaller element is moved before the pivot, which moves on.            *)
Moved(w, p, q) == Exchange(Exchange(w, p, q), q, p + 1)
Moves(m, w, p, q) ==
  /\ Len(m) = Len(w)
  /\ \A r \in 1 .. Len(w) : m[r] = IF r = p THEN w[q] ELSE IF r = p + 1 THEN w[p]
                                    ELSE IF r = q THEN w[p + 1] ELSE w[r]

LEMMA MovedIs ==
  ASSUME NEW S, NEW w \in Seq(S), NEW p \in 1 .. Len(w), NEW q \in 1 .. Len(w), p < q
  PROVE  /\ Moved(w, p, q) \in Seq(S) /\ Rearranges(Moved(w, p, q), w)
         /\ Moves(Moved(w, p, q), w, p, q)
<1> DEFINE e == Exchange(w, p, q)
           m == Exchange(e, q, p + 1)
           n == Len(w)
<1>1. /\ e \in Seq(S) /\ Len(e) = n
      /\ \A r \in 1 .. n : e[r] = IF r = q THEN w[p] ELSE IF r = p THEN w[q] ELSE w[r]
  <2>1. e \in Seq(S) /\ Exchanged(e, w, p, q)
    BY ExchangeIs
  <2> HIDE DEF e
  <2> QED BY <2>1 DEF Exchanged
<1>2. Rearranges(e, w)
  BY ExchangeRearranges
<1>3. p \in 1 .. n /\ q \in 1 .. n /\ p + 1 \in 1 .. n /\ n \in Nat
  OBVIOUS
<1> HIDE DEF e, n
<1>4. /\ m \in Seq(S) /\ Len(m) = n
      /\ \A r \in 1 .. n : m[r] = IF r = p + 1 THEN e[q] ELSE IF r = q THEN e[p + 1] ELSE e[r]
  <2>1. m \in Seq(S) /\ Exchanged(m, e, q, p + 1)
    BY <1>1, <1>3, ExchangeIs
  <2> HIDE DEF m
  <2> QED BY <1>1, <2>1 DEF Exchanged
<1>5. Rearranges(m, e)
  BY <1>1, <1>3, ExchangeRearranges
<1>6. Rearranges(m, w)
  <2> HIDE DEF m
  <2> QED BY <1>2, <1>5, RearrangesTransitive
<1> HIDE DEF m
<1>7. ASSUME NEW r \in 1 .. n
      PROVE  m[r] = IF r = p THEN w[q] ELSE IF r = p + 1 THEN w[p]
                    ELSE IF r = q THEN w[p + 1] ELSE w[r]
  <2>1. e[q] = w[p] /\ e[p] = w[q] /\ (p + 1 # q => e[p + 1] = w[p + 1])
    BY <1>1, <1>3
  <2>2. CASE r = p
    BY <1>3, <1>4, <2>1, <2>2
  <2>3. CASE r = p + 1
    BY <1>3, <1>4, <2>1, <2>3
  <2>4. CASE r # p /\ r # p + 1
    BY <1>1, <1>3, <1>4, <2>1, <2>4
  <2> QED BY <2>2, <2>3, <2>4
<1> QED BY <1>4, <1>6, <1>7 DEF Moves, Moved, m, e, n

LEMMA MovedPasses ==
  ASSUME NEW w \in Seq(Nat), NEW o \in Nat, NEW n \in Nat, o + n <= Len(w),
         NEW s \in Nat, NEW j \in Nat, s < j, j < n, NEW t \in Nat,
         Passed(w, o, s, j, t), Framed(w, o, n), w[o + j + 1] < t,
         NEW m, m = Moved(w, o + s + 1, o + j + 1)
  PROVE  Passed(m, o, s + 1, j + 1, t) /\ Framed(m, o, n)
<1> DEFINE p == o + s + 1
           q == o + j + 1
           l == Len(w)
<1>1. l \in Nat /\ p \in 1 .. l /\ q \in 1 .. l /\ p < q
      /\ \A r \in 1 .. l : w[r] \in Nat
  OBVIOUS
<1>2. /\ Len(m) = l
      /\ \A r \in 1 .. l : m[r] = IF r = p THEN w[q] ELSE IF r = p + 1 THEN w[p]
                                  ELSE IF r = q THEN w[p + 1] ELSE w[r]
  <2>1. Moves(m, w, p, q)
    BY <1>1, MovedIs
  <2> QED BY <2>1 DEF Moves
<1> HIDE DEF l
<1>3. Passed(m, o, s + 1, j + 1, t)
  <2>1. m[o + (s + 1) + 1] = t
    <3>1. p + 1 \in 1 .. l /\ p + 1 = o + (s + 1) + 1 /\ p + 1 # p
      BY <1>1
    <3>2. w[p] = t
      BY DEF Passed
    <3> QED BY <1>2, <3>1, <3>2
  <2>2. ASSUME NEW r \in o + 1 .. o + (s + 1) PROVE m[r] < t
    <3>1. r \in 1 .. l /\ ((r # p + 1 /\ r # q) \/ r = p)
      BY <1>1
    <3>2. CASE r = p
      BY <1>1, <1>2, <3>2
    <3>3. CASE r # p
      <4>1. r \in o + 1 .. o + s /\ r \in 1 .. l /\ r # p + 1 /\ r # q
        BY <1>1, <3>3
      <4> QED BY <1>2, <3>3, <4>1 DEF Passed
    <3> QED BY <3>2, <3>3
  <2>3. ASSUME NEW r \in o + (s + 1) + 2 .. o + (j + 1) PROVE m[r] >= t
    <3>1. r \in 1 .. l /\ r # p /\ r # p + 1
      BY <1>1
    <3>2. CASE r = q
      <4>1. p + 1 \in o + s + 2 .. o + j
        BY <3>2
      <4>2. m[r] = w[p + 1]
        BY <1>2, <3>1, <3>2
      <4> QED BY <4>1, <4>2 DEF Passed
    <3>3. CASE r # q
      <4>1. r \in o + s + 2 .. o + j
        BY <3>3
      <4>2. m[r] = w[r]
        BY <1>2, <3>1, <3>3
      <4> QED BY <4>1, <4>2 DEF Passed
    <3> QED BY <3>2, <3>3
  <2> QED BY <2>1, <2>2, <2>3 DEF Passed
<1>4. ASSUME NEW r \in o + 1 .. o + n PROVE \E x \in o + 1 .. o + n : m[r] = w[x]
  <2>1. r \in 1 .. l /\ p \in o + 1 .. o + n /\ p + 1 \in o + 1 .. o + n /\ q \in o + 1 .. o + n
    BY <1>1 DEF l
  <2> QED BY <1>2, <2>1
<1>5. ASSUME NEW r \in 1 .. l, r \notin o + 1 .. o + n PROVE m[r] = w[r]
  <2>1. p \in o + 1 .. o + n /\ p + 1 \in o + 1 .. o + n /\ q \in o + 1 .. o + n
    BY <1>1
  <2> QED BY <1>2, <1>5, <2>1
<1>6. Framed(m, o, n)
  <2>1. ASSUME NEW r \in 1 .. o, NEW x \in o + 1 .. o + n PROVE m[r] <= m[x]
    <3>1. PICK y \in o + 1 .. o + n : m[x] = w[y]
      BY <1>4
    <3>2. r \in 1 .. l /\ r \notin o + 1 .. o + n
      BY <1>1 DEF l
    <3> QED BY <1>5, <3>1, <3>2 DEF Framed
  <2>2. ASSUME NEW r \in o + n + 1 .. Len(m), NEW x \in o + 1 .. o + n PROVE m[x] <= m[r]
    <3>1. PICK y \in o + 1 .. o + n : m[x] = w[y]
      BY <1>4
    <3>2. r \in 1 .. l /\ r \notin o + 1 .. o + n /\ r \in o + n + 1 .. Len(w)
      BY <1>1, <1>2 DEF l
    <3> QED BY <1>5, <3>1, <3>2 DEF Framed
  <2> QED BY <2>1, <2>2 DEF Framed
<1> QED BY <1>3, <1>6

(* When it has passed all of the frame, the pivot parts it.                *)
LEMMA PartedByPivot ==
  ASSUME NEW w \in Seq(Nat), NEW o \in Nat, NEW n \in Nat, o + n <= Len(w),
         NEW s \in Nat, s < n, NEW t \in Nat, Passed(w, o, s, n, t), Framed(w, o, n)
  PROVE  /\ FirstSmallest(w, o + s) /\ FirstSmallest(w, o + s + 1)
         /\ Framed(w, o, s) /\ Framed(w, o + s + 1, n - (s + 1))
<1> DEFINE l == Len(w)
<1>1. l \in Nat /\ \A r \in 1 .. l : w[r] \in Nat
  OBVIOUS
<1>2. /\ w[o + s + 1] = t
      /\ \A p \in o + 1 .. o + s : w[p] < t
      /\ \A p \in o + s + 2 .. o + n : w[p] >= t
  BY DEF Passed
<1>3. /\ \A p \in 1 .. o, q \in o + 1 .. o + n : w[p] <= w[q]
      /\ \A p \in o + n + 1 .. l, q \in o + 1 .. o + n : w[q] <= w[p]
  BY DEF Framed
<1> DEFINE Low(p) == p \in 1 .. o + s
           High(p) == p \in o + s + 2 .. l
           c == o + s + 1
<1>4. o + n <= l
  OBVIOUS
<1> HIDE DEF l
<1>5. c \in o + 1 .. o + n /\ c \in 1 .. l /\ w[c] = t
  BY <1>1, <1>2, <1>4
<1>6. ASSUME NEW p \in 1 .. l, Low(p) PROVE w[p] <= t
  <2>1. p \in 1 .. o \/ p \in o + 1 .. o + s
    BY <1>1, <1>6
  <2>2. CASE p \in 1 .. o
    BY <1>2, <1>3, <1>5, <2>2
  <2>3. CASE p \in o + 1 .. o + s
    <3>1. w[p] < t /\ w[p] \in Nat
      BY <1>1, <1>2, <2>3
    <3> QED BY <3>1
  <2> QED BY <2>1, <2>2, <2>3
<1>7. ASSUME NEW p \in 1 .. l, High(p) PROVE t <= w[p]
  <2>1. p \in o + s + 2 .. o + n \/ p \in o + n + 1 .. l
    BY <1>1, <1>7
  <2>2. CASE p \in o + s + 2 .. o + n
    <3>1. w[p] >= t /\ w[p] \in Nat
      BY <1>1, <1>2, <2>2
    <3> QED BY <3>1
  <2>3. CASE p \in o + n + 1 .. l
    BY <1>3, <1>5, <2>3
  <2> QED BY <2>1, <2>2, <2>3
<1>8. ASSUME NEW p \in 1 .. l, NEW q \in 1 .. l, Low(p) \/ p = c, High(q) \/ q = c
      PROVE  w[p] <= w[q]
  <2>1. w[p] <= t /\ t <= w[q] /\ w[p] \in Nat /\ w[q] \in Nat
    BY <1>1, <1>5, <1>6, <1>7, <1>8
  <2> QED BY <2>1
<1>9. FirstSmallest(w, o + s)
  <2>1. ASSUME NEW p \in 1 .. o + s, NEW q \in o + s + 1 .. l PROVE w[p] <= w[q]
    <3>1. p \in 1 .. l /\ q \in 1 .. l /\ Low(p) /\ (High(q) \/ q = c)
      BY <1>1, <1>5
    <3> HIDE DEF Low, High, c
    <3> QED BY <1>8, <3>1
  <2> QED BY <2>1 DEF FirstSmallest, l
<1>10. FirstSmallest(w, o + s + 1)
  <2>1. ASSUME NEW p \in 1 .. o + s + 1, NEW q \in o + s + 1 + 1 .. l PROVE w[p] <= w[q]
    <3>1. p \in 1 .. l /\ q \in 1 .. l /\ (Low(p) \/ p = c) /\ High(q)
      BY <1>1, <1>5
    <3> HIDE DEF Low, High, c
    <3> QED BY <1>8, <3>1
  <2> QED BY <2>1 DEF FirstSmallest, l
<1>11. Framed(w, o, s)
  <2>1. ASSUME NEW p \in 1 .. o, NEW q \in o + 1 .. o + s PROVE w[p] <= w[q]
    <3>1. q \in o + 1 .. o + n
      OBVIOUS
    <3> QED BY <1>3, <3>1
  <2>2. ASSUME NEW p \in o + s + 1 .. l, NEW q \in o + 1 .. o + s PROVE w[q] <= w[p]
    <3>1. q \in 1 .. l /\ p \in 1 .. l /\ Low(q) /\ (High(p) \/ p = c)
      BY <1>1, <1>5
    <3> HIDE DEF Low, High, c
    <3> QED BY <1>8, <3>1
  <2> QED BY <2>1, <2>2 DEF Framed, l
<1>12. Framed(w, o + s + 1, n - (s + 1))
  <2>0. o + s + 1 + (n - (s + 1)) = o + n
    OBVIOUS
  <2>1. ASSUME NEW p \in 1 .. o + s + 1, NEW q \in o + s + 1 + 1 .. o + n PROVE w[p] <= w[q]
    <3>1. p \in 1 .. l /\ q \in 1 .. l /\ (Low(p) \/ p = c) /\ High(q)
      BY <1>1, <1>4, <1>5
    <3> HIDE DEF Low, High, c
    <3> QED BY <1>8, <3>1
  <2>2. ASSUME NEW p \in o + n + 1 .. l, NEW q \in o + s + 1 + 1 .. o + n PROVE w[q] <= w[p]
    <3>1. q \in o + 1 .. o + n
      OBVIOUS
    <3> QED BY <1>3, <3>1
  <2> QED BY <2>0, <2>1, <2>2 DEF Framed, l
<1> QED BY <1>9, <1>10, <1>11, <1>12

LEMMA MinimumIs ==
  ASSUME NEW s \in Seq(Nat), s # <<>>
  PROVE  Minimum(s) \in ToSet(s) /\ \A v \in ToSet(s) : Minimum(s) <= v
<1>1. ToSet(s) \subseteq Nat /\ ToSet(s) # {}
  <2>1. DOMAIN s = 1 .. Len(s) /\ Len(s) # 0 /\ Len(s) \in Nat /\ \A k \in 1 .. Len(s) : s[k] \in Nat
    OBVIOUS
  <2>2. 1 \in DOMAIN s
    BY <2>1
  <2> QED BY <2>1, <2>2 DEF ToSet
<1>2. \E v \in ToSet(s) : \A w \in ToSet(s) : v <= w
  BY <1>1, Smallest
<1> QED BY <1>2 DEF Minimum

LEMMA MinimumUnique ==
  ASSUME NEW s \in Seq(Nat), NEW m \in ToSet(s), \A v \in ToSet(s) : m <= v
  PROVE  Minimum(s) = m
<1>1. s # <<>>
  BY DEF ToSet
<1>2. Minimum(s) \in ToSet(s) /\ \A v \in ToSet(s) : Minimum(s) <= v
  BY <1>1, MinimumIs
<1>3. ToSet(s) \subseteq Nat
  <2>1. DOMAIN s = 1 .. Len(s) /\ \A k \in 1 .. Len(s) : s[k] \in Nat
    OBVIOUS
  <2> QED BY <2>1 DEF ToSet
<1>4. m <= Minimum(s) /\ Minimum(s) <= m /\ m \in Nat /\ Minimum(s) \in Nat
  BY <1>2, <1>3
<1> QED BY <1>4

(* What the first k hold then: the smallest one, ...                       *)
LEMMA FirstIsMinimum ==
  ASSUME NEW w \in Seq(Nat), NEW s \in Seq(Nat), Rearranges(w, s),
         FirstSmallest(w, 1), w # <<>>
  PROVE  w[1] = Minimum(s)
<1>1. Len(w) \in Nat \ {0} /\ DOMAIN w = 1 .. Len(w) /\ \A r \in 1 .. Len(w) : w[r] \in Nat
  OBVIOUS
<1>2. ToSet(w) = ToSet(s)
  BY RearrangesToSet
<1>3. w[1] \in ToSet(w)
  BY <1>1 DEF ToSet
<1>4. ASSUME NEW v \in ToSet(w) PROVE w[1] <= v
  <2>1. PICK r \in 1 .. Len(w) : v = w[r]
    BY <1>1 DEF ToSet
  <2>2. CASE r = 1
    BY <1>1, <2>1, <2>2
  <2>3. CASE r # 1
    <3>1. r \in 1 + 1 .. Len(w) /\ 1 \in 1 .. 1
      BY <1>1, <2>3
    <3> QED BY <2>1, <3>1 DEF FirstSmallest
  <2> QED BY <2>2, <2>3
<1> QED BY <1>2, <1>3, <1>4, MinimumUnique

(* ... each of the smaller ones as often as it occurs, ...                 *)
SmallestOf(f, s, k) ==
  /\ f \in Seq(Nat) /\ Len(f) = k /\ ToSet(f) \subseteq ToSet(s)
  /\ \A v \in ToSet(s), x \in ToSet(f) : v < x => Count(f, v) = Count(s, v)
  /\ \A v \in ToSet(s) : \E n \in 1 .. k : f[n] <= v

LEMMA FirstAreSmallest ==
  ASSUME NEW w \in Seq(Nat), NEW s \in Seq(Nat), Rearranges(w, s),
         NEW k \in 1 .. Len(w), FirstSmallest(w, k), NEW f, f = SubSeq(w, 1, k)
  PROVE  SmallestOf(f, s, k)
<1>1. /\ Len(w) \in Nat /\ DOMAIN w = 1 .. Len(w) /\ k \in Nat /\ k <= Len(w) /\ 1 <= k
      /\ \A r \in 1 .. Len(w) : w[r] \in Nat
  OBVIOUS
<1>2. f \in Seq(Nat) /\ Len(f) = k /\ DOMAIN f = 1 .. k /\ \A r \in 1 .. k : f[r] = w[r]
  OBVIOUS
<1>3. ToSet(w) = ToSet(s)
  BY RearrangesToSet
<1>4. ToSet(f) \subseteq ToSet(s)
  <2>1. ASSUME NEW x \in ToSet(f) PROVE x \in ToSet(w)
    <3>1. PICK r \in 1 .. k : x = f[r]
      BY <1>2 DEF ToSet
    <3>2. r \in 1 .. Len(w) /\ x = w[r]
      BY <1>1, <1>2, <3>1
    <3> QED BY <1>1, <3>2 DEF ToSet
  <2> QED BY <1>3, <2>1
<1>5. ASSUME NEW v \in ToSet(s), NEW x \in ToSet(f), v < x PROVE Count(f, v) = Count(s, v)
  <2>1. PICK p \in 1 .. k : x = w[p]
    BY <1>2 DEF ToSet
  <2>2. v \in Nat /\ x \in Nat
    BY <1>1, <1>3, <2>1 DEF ToSet
  <2>3. ASSUME NEW r \in 1 .. Len(w), w[r] = v PROVE r \in 1 .. k
    <3>1. CASE r \in k + 1 .. Len(w)
      <4>1. x <= v
        BY <2>1, <2>3, <3>1 DEF FirstSmallest
      <4> QED BY <1>5, <2>2, <4>1
    <3>2. r \in 1 .. k \/ r \in k + 1 .. Len(w)
      BY <1>1
    <3> QED BY <3>1, <3>2
  <2>4. \A r \in 1 .. k : r \in 1 .. Len(w)
    BY <1>1
  <2>5. {r \in 1 .. k : f[r] = v} = {r \in 1 .. Len(w) : w[r] = v}
    BY <1>2, <2>3, <2>4
  <2>6. Count(f, v) = Count(w, v)
    BY <1>1, <1>2, <2>5 DEF Count
  <2> QED BY <2>6 DEF Rearranges
<1>6. ASSUME NEW v \in ToSet(s) PROVE \E n \in 1 .. k : f[n] <= v
  <2>1. PICK r \in 1 .. Len(w) : v = w[r]
    BY <1>1, <1>3 DEF ToSet
  <2>2. CASE r \in 1 .. k
    BY <1>1, <1>2, <2>1, <2>2
  <2>3. CASE r \notin 1 .. k
    <3>1. r \in k + 1 .. Len(w) /\ 1 \in 1 .. k
      BY <1>1, <2>3
    <3>2. w[1] <= w[r]
      BY <3>1 DEF FirstSmallest
    <3> QED BY <1>2, <2>1, <3>1, <3>2
  <2> QED BY <2>2, <2>3
<1> QED BY <1>2, <1>4, <1>5, <1>6 DEF SmallestOf

(* ... and the smallest one of all.                                        *)
LEMMA MinimumCovered ==
  ASSUME NEW s \in Seq(Nat), s # <<>>, NEW f \in Seq(Nat), ToSet(f) \subseteq ToSet(s),
         \A v \in ToSet(s) : \E n \in 1 .. Len(f) : f[n] <= v
  PROVE  Minimum(s) \in ToSet(f)
<1>1. Minimum(s) \in ToSet(s) /\ \A v \in ToSet(s) : Minimum(s) <= v
  BY MinimumIs
<1>2. PICK n \in 1 .. Len(f) : f[n] <= Minimum(s)
  BY <1>1
<1>3. DOMAIN f = 1 .. Len(f) /\ f[n] \in Nat
  OBVIOUS
<1>4. f[n] \in ToSet(f)
  BY <1>3 DEF ToSet
<1>5. Minimum(s) <= f[n]
  BY <1>1, <1>4
<1>6. Minimum(s) \in Nat
  <2>1. DOMAIN s = 1 .. Len(s) /\ \A k \in 1 .. Len(s) : s[k] \in Nat
    OBVIOUS
  <2> QED BY <1>1, <2>1 DEF ToSet
<1>7. f[n] = Minimum(s)
  BY <1>2, <1>3, <1>5, <1>6
<1> QED BY <1>4, <1>7

-----------------------------------------------------------------------------
(*                 The invariant of a selection                            *)

(* How many of the smallest are wanted, and the buffer with the pivot put   *)
(* back in its place.                                                      *)
Wanted == IF dst = "candidates" \/ method = "finesse" THEN 1 ELSE FEATURE_NUM
Restored == [buf EXCEPT ![At(position)] = tmp]

PartSize == Len(segment) \div FEATURE_NUM
EndOfParts(n) == IF n = FEATURE_NUM THEN Len(segment) ELSE n * PartSize

(* Every chunk among the first n has been represented.                     *)
Covered(s, n) == \A p \in 1 .. n : \E q \in 1 .. Len(s) : s[q] <= segment[p]

SelectionTypes ==
  /\ method \in {"finesse", "mink", "cdmink", "ntrans"}
  /\ step \in {"idle", "start", "loop", "copy", "done"}
  /\ dst \in {"feature", "candidates"}
  /\ segment \in Seq(Chunks) /\ feature \in Seq(Chunks) /\ candidates \in Seq(Chunks)
  /\ src \in Seq(Chunks) /\ buf \in Seq(Chunks)
  /\ frame \in [off : Nat, num : Nat, k : Nat]
  /\ startPos \in Nat /\ tmp \in Nat /\ position \in Nat /\ i \in Nat
  /\ Len(candidates) <= CANDIDATES /\ Len(feature) <= FEATURE_NUM
  /\ frame.off + frame.num <= Len(buf)
  /\ step # "idle" => Len(segment) \in 1 .. SEGMENT_MAX

(* What has been selected of the segment so far.                           *)
Partly ==
  step \in {"start", "loop", "copy"} =>
    /\ Len(feature) < FEATURE_NUM
    /\ method # "finesse" => feature = <<>>
    /\ method = "finesse" =>
         /\ \A n \in 1 .. Len(feature) : feature[n] = Minimum(Part(n - 1))
         /\ Covered(feature, EndOfParts(Len(feature)))
    /\ method = "cdmink" =>
         /\ startPos \in Ends
         /\ \A n \in 1 .. Len(candidates) : \E p \in PartsByContent : candidates[n] = Minimum(p)

Looking ==
  step = "start" /\ method = "cdmink" =>
    /\ startPos < Len(segment) => Len(candidates) < CANDIDATES
    /\ Len(segment) < SEGMENT_MAX => Covered(candidates, startPos)

(* What is being searched.                                                 *)
Searched ==
  step \in {"loop", "copy"} =>
    /\ Len(segment) > FEATURE_NUM
    /\ Len(src) >= Wanted
    /\ dst = "candidates" =>
         /\ method = "cdmink" /\ Len(candidates) < CANDIDATES
         /\ startPos < Len(segment) => Len(candidates) + 1 < CANDIDATES
         /\ src \in PartsByContent
         /\ Len(segment) < SEGMENT_MAX =>
              \E a \in 0 .. startPos : /\ src = SubSeq(segment, a + 1, startPos)
                                       /\ Covered(candidates, a)
    /\ dst = "feature" =>
         \/ method = "finesse" /\ src = Part(Len(feature))
         \/ method = "mink" /\ src = segment
         \/ /\ method = "cdmink" /\ src = candidates
            /\ Len(segment) < SEGMENT_MAX => Covered(candidates, Len(segment))

(* How far the search is.                                                  *)
Searching ==
  step = "loop" =>
    /\ position < i /\ i <= frame.num /\ frame.k \in 1 .. frame.num /\ tmp \in Chunks
    /\ frame.off + frame.k = Wanted
    /\ Rearranges(Restored, src)
    /\ Passed(Restored, frame.off, position, i, tmp)
    /\ Framed(Restored, frame.off, frame.num)

Parted ==
  step = "copy" => Rearranges(buf, src) /\ FirstSmallest(buf, Wanted)

SelectionInv ==
  /\ SelectionTypes
  /\ Partly /\ Looking /\ Searched /\ Searching /\ Parted
  /\ FeaturesAreSmallest

-----------------------------------------------------------------------------
LEMMA ChunksAreNumbers == Chunks \subseteq Nat /\ \A s \in Seq(Chunks) : s \in Seq(Nat)
<1>1. Chunks \subseteq Nat
  BY ClientAssumption
<1> QED BY <1>1, SeqMonotonic

LEMMA RestoredIs ==
  ASSUME SelectionInv, step = "loop"
  PROVE  /\ frame.off \in Nat /\ frame.num \in Nat /\ frame.k \in Nat
         /\ position \in Nat /\ i \in Nat /\ tmp \in Chunks
         /\ position < i /\ i <= frame.num /\ frame.k \in 1 .. frame.num
         /\ frame.off + frame.num <= Len(buf) /\ Len(buf) \in Nat
         /\ Restored \in Seq(Chunks) /\ Len(Restored) = Len(buf)
         /\ \A r \in 1 .. Len(buf) :
              Restored[r] = IF r = frame.off + position + 1 THEN tmp ELSE buf[r]
<1>1. /\ frame.off \in Nat /\ frame.num \in Nat /\ frame.k \in Nat
      /\ position \in Nat /\ i \in Nat /\ buf \in Seq(Chunks)
      /\ frame.off + frame.num <= Len(buf)
  BY DEF SelectionInv, SelectionTypes
<1>2. /\ position < i /\ i <= frame.num /\ frame.k \in 1 .. frame.num /\ tmp \in Chunks
  BY DEF SelectionInv, Searching
<1> DEFINE l == Len(buf)
<1>3. l \in Nat /\ buf \in [1 .. l -> Chunks]
  BY <1>1
<1> HIDE DEF l
<1>4. /\ Restored \in [1 .. l -> Chunks]
      /\ \A r \in 1 .. l : Restored[r] = IF r = frame.off + position + 1 THEN tmp ELSE buf[r]
  BY <1>1, <1>2, <1>3 DEF Restored, At
<1>5. Restored \in Seq(Chunks) /\ Len(Restored) = l
  <2> HIDE DEF Restored
  <2> QED BY <1>3, <1>4
<1> QED BY <1>1, <1>2, <1>3, <1>4, <1>5 DEF l

(* What the run checks follows.                                            *)
LEMMA SelectionInvIs ==
  ASSUME SelectionInv
  PROVE  SelectionTypeOK /\ SelectionSound /\ FeaturesAreSmallest
<1>1. SelectionTypeOK
  <2>1. \A s \in {segment, feature, candidates, src, buf} : s \in Seq(Nat)
    BY ChunksAreNumbers DEF SelectionInv, SelectionTypes
  <2>2. step = "loop" => position < i /\ i <= frame.num /\ frame.k \in 1 .. frame.num
    BY DEF SelectionInv, Searching
  <2> QED BY <2>1, <2>2 DEF SelectionInv, SelectionTypes, SelectionTypeOK
<1>2. SelectionSound
  <2> SUFFICES ASSUME step = "loop"
               PROVE  LET inside == {At(j) : j \in 0 .. frame.num - 1}
                      IN  /\ \A v \in ToSet(src) : Count(Restored, v) = Count(src, v)
                          /\ \A j \in 0 .. position - 1 : buf[At(j)] < tmp
                          /\ \A j \in position + 1 .. i - 1 : buf[At(j)] >= tmp
                          /\ \A p \in 1 .. frame.off, q \in inside : Restored[p] <= Restored[q]
                          /\ \A p \in frame.off + frame.num + 1 .. Len(buf), q \in inside :
                               Restored[q] <= Restored[p]
    BY DEF SelectionSound, Restored
  <2> DEFINE o == frame.off
  <2>1. /\ o \in Nat /\ frame.num \in Nat
        /\ position \in Nat /\ i \in Nat
        /\ position < i /\ i <= frame.num
        /\ o + frame.num <= Len(buf) /\ Len(buf) \in Nat
        /\ Len(Restored) = Len(buf)
        /\ \A r \in 1 .. Len(buf) :
             Restored[r] = IF r = o + position + 1 THEN tmp ELSE buf[r]
    BY RestoredIs
  <2>2. /\ Rearranges(Restored, src)
        /\ Passed(Restored, o, position, i, tmp)
        /\ Framed(Restored, o, frame.num)
    BY DEF SelectionInv, Searching
  <2>3. \A j \in Nat : At(j) = o + j + 1
    BY DEF At
  <2> HIDE DEF o
  <2>4. \A v \in ToSet(src) : Count(Restored, v) = Count(src, v)
    BY <2>2 DEF Rearranges
  <2>5. ASSUME NEW j \in 0 .. position - 1 PROVE buf[At(j)] < tmp
    <3>1. j \in Nat /\ o + j + 1 \in o + 1 .. o + position /\ o + j + 1 \in 1 .. Len(buf)
          /\ o + j + 1 # o + position + 1
      BY <2>1
    <3>2. Restored[o + j + 1] < tmp
      BY <2>2, <3>1 DEF Passed
    <3>3. Restored[o + j + 1] = buf[o + j + 1]
      BY <2>1, <3>1
    <3>4. At(j) = o + j + 1
      BY <2>3, <3>1
    <3> QED BY <3>2, <3>3, <3>4
  <2>6. ASSUME NEW j \in position + 1 .. i - 1 PROVE buf[At(j)] >= tmp
    <3>1. j \in Nat /\ o + j + 1 \in o + position + 2 .. o + i /\ o + j + 1 \in 1 .. Len(buf)
          /\ o + j + 1 # o + position + 1
      BY <2>1
    <3>2. Restored[o + j + 1] >= tmp
      BY <2>2, <3>1 DEF Passed
    <3>3. Restored[o + j + 1] = buf[o + j + 1]
      BY <2>1, <3>1
    <3>4. At(j) = o + j + 1
      BY <2>3, <3>1
    <3> QED BY <3>2, <3>3, <3>4
  <2>7. \A q \in {At(j) : j \in 0 .. frame.num - 1} : q \in o + 1 .. o + frame.num
    <3>1. ASSUME NEW j \in 0 .. frame.num - 1 PROVE At(j) \in o + 1 .. o + frame.num
      <4>1. j \in Nat
        BY <2>1
      <4>2. o + j + 1 \in o + 1 .. o + frame.num
        BY <2>1
      <4> QED BY <2>3, <4>1, <4>2
    <3> QED BY <3>1
  <2> QED BY <2>1, <2>2, <2>4, <2>5, <2>6, <2>7 DEF Framed, o
<1> QED BY <1>1, <1>2 DEF SelectionInv

-----------------------------------------------------------------------------
(*                 Each step of a selection keeps it                       *)

LEMMA SelectionStarts == SelectionInit => SelectionInv
<1> SUFFICES ASSUME SelectionInit PROVE SelectionInv
  OBVIOUS
<1>1. SelectionTypes
  BY SelectionAssumption DEF SelectionInit, SelectionTypes, NoFrame
<1>2. step = "idle"
  BY DEF SelectionInit
<1> QED BY <1>1, <1>2 DEF SelectionInv, Partly, Looking, Searched, Searching, Parted,
                          FeaturesAreSmallest

LEMMA SegmentSame ==
  ASSUME segment' = segment
  PROVE  /\ \A n : Part(n)' = Part(n)
         /\ \A n : EndOfParts(n)' = EndOfParts(n)
         /\ Ends' = Ends /\ PartsByContent' = PartsByContent
<1>1. \A n : Part(n)' = Part(n)
  BY DEF Part
<1>2. \A n : EndOfParts(n)' = EndOfParts(n)
  BY DEF EndOfParts, PartSize
<1>3. Ends' = Ends
  BY DEF Ends
<1>4. PartsByContent' = PartsByContent
  BY <1>3 DEF PartsByContent
<1> QED BY <1>1, <1>2, <1>3, <1>4

LEMMA SelectionStutter ==
  ASSUME SelectionInv, UNCHANGED selectionVars
  PROVE  SelectionInv'
<1>1. /\ method' = method /\ segment' = segment /\ feature' = feature
      /\ candidates' = candidates /\ startPos' = startPos /\ src' = src /\ dst' = dst
      /\ buf' = buf /\ frame' = frame /\ tmp' = tmp /\ position' = position /\ i' = i
      /\ step' = step
  BY DEF selectionVars, partVars, callVars
<1>0. /\ (\A n : Part(n)' = Part(n)) /\ Ends' = Ends /\ PartsByContent' = PartsByContent
      /\ \A n : EndOfParts(n)' = EndOfParts(n)
  BY <1>1, SegmentSame
<1>2. SelectionTypes' /\ Looking'
  BY <1>1 DEF SelectionInv, SelectionTypes, Looking, Covered
<1>5. Partly'
  BY <1>0, <1>1 DEF SelectionInv, Partly, Covered
<1>3. Searched' /\ Searching' /\ Parted'
  BY <1>1 DEF SelectionInv, Searched, Searching, Parted, Covered, Part, Ends,
              PartsByContent, Wanted, Restored, At
<1>4. FeaturesAreSmallest'
  BY <1>0, <1>1 DEF SelectionInv, FeaturesAreSmallest
<1> QED BY <1>2, <1>3, <1>4, <1>5 DEF SelectionInv

LEMMA BeginKeeps ==
  ASSUME SelectionInv, NEW q \in Seq(Chunks), Len(q) \in 1 .. SEGMENT_MAX, Begin(q)
  PROVE  SelectionInv'
<1>1. /\ method' = method /\ segment' = q /\ feature' = <<>> /\ candidates' = <<>>
      /\ startPos' = 0 /\ step' = "start" /\ UNCHANGED callVars
  BY DEF Begin
<1>2. SelectionTypes'
  BY <1>1, SelectionAssumption DEF SelectionInv, SelectionTypes, callVars
<1>3. Partly'
  <2>1. EndOfParts(0)' = 0
    <3>1. Len(segment') \div FEATURE_NUM \in Nat
      BY <1>1, SelectionAssumption
    <3> QED BY <3>1, SelectionAssumption DEF EndOfParts, PartSize
  <2>2. 0 \in Ends'
    BY DEF Ends
  <2>3. Covered(feature, EndOfParts(0))'
    BY <2>1 DEF Covered
  <2> QED BY <1>1, <2>2, <2>3, SelectionAssumption DEF Partly
<1>4. Looking'
  BY <1>1, SelectionAssumption DEF Looking, Covered
<1> QED BY <1>1, <1>2, <1>3, <1>4 DEF SelectionInv, Searched, Searching, Parted,
                                     FeaturesAreSmallest

LEMMA StartShortKeeps ==
  ASSUME SelectionInv, StartShort
  PROVE  SelectionInv'
<1>1. /\ step = "start" /\ Len(segment) <= FEATURE_NUM /\ feature' = segment /\ step' = "done"
      /\ method' = method /\ segment' = segment /\ candidates' = candidates
      /\ startPos' = startPos /\ UNCHANGED callVars
  BY DEF StartShort, partVars
<1>2. SelectionTypes'
  BY <1>1 DEF SelectionInv, SelectionTypes, callVars
<1>3. segment \in Seq(Nat) /\ segment # <<>> /\ Len(segment) \in Nat
  BY <1>1, ChunksAreNumbers DEF SelectionInv, SelectionTypes
<1>4. Minimum(segment) \in ToSet(segment)
  BY <1>3, MinimumIs
<1>5. FeaturesAreSmallest'
  <2>1. Minimum(segment)' = Minimum(segment)
    BY <1>1 DEF Minimum
  <2>2. ToSet(feature)' = ToSet(segment)
    BY <1>1
  <2>3. FEATURE_NUM \in Nat /\ ~(Len(segment') > FEATURE_NUM)
        /\ Len(feature') = IF Len(segment') < FEATURE_NUM THEN Len(segment') ELSE FEATURE_NUM
    BY <1>1, <1>3, SelectionAssumption
  <2>4. Minimum(segment)' \in ToSet(feature)'
    BY <1>4, <2>1, <2>2
  <2> QED BY <2>3, <2>4 DEF FeaturesAreSmallest
<1> QED BY <1>1, <1>2, <1>5 DEF SelectionInv, Partly, Looking, Searched, Searching, Parted

LEMMA SelectedKeeps ==
  ASSUME SelectionInv, Selected
  PROVE  SelectionInv'
<1>1. step' = "idle" /\ UNCHANGED <<method, segment, feature, partVars, callVars>>
  BY DEF Selected
<1>2. SelectionTypes'
  BY <1>1 DEF SelectionInv, SelectionTypes, partVars, callVars
<1> QED BY <1>1, <1>2 DEF SelectionInv, Partly, Looking, Searched, Searching, Parted,
                          FeaturesAreSmallest

(* The parts follow each other up to the end of the segment.               *)
LEMMA PartIs ==
  ASSUME segment \in Seq(Chunks), Len(segment) > FEATURE_NUM, NEW n \in 0 .. FEATURE_NUM - 1
  PROVE  /\ EndOfParts(n) \in Nat /\ EndOfParts(n + 1) \in Nat
         /\ EndOfParts(n) < EndOfParts(n + 1) /\ EndOfParts(n + 1) <= Len(segment)
         /\ Part(n) = SubSeq(segment, EndOfParts(n) + 1, EndOfParts(n + 1))
         /\ Part(n) \in Seq(Chunks)
         /\ Len(Part(n)) = EndOfParts(n + 1) - EndOfParts(n)
         /\ \A p \in 1 .. Len(Part(n)) : Part(n)[p] = segment[EndOfParts(n) + p]
<1> DEFINE f == FEATURE_NUM
           l == Len(segment)
           d == l \div f
<1>1. f \in Nat /\ f >= 1 /\ l \in Nat /\ l > f /\ n \in Nat /\ n <= f - 1
  BY SelectionAssumption
<1> HIDE DEF f, l
<1>2. d \in Nat /\ f * d <= l /\ d >= 1
  <2>1. \A x \in Nat, y \in Nat : y >= 1 /\ x > y => x \div y \in Nat /\ y * (x \div y) <= x /\ x \div y >= 1
    OBVIOUS
  <2> QED BY <1>1, <2>1
<1>3. (EndOfParts(n) = n * d) /\ (n + 1 # f => EndOfParts(n + 1) = (n + 1) * d)
      /\ (n + 1 = f => EndOfParts(n + 1) = l)
  BY <1>1 DEF EndOfParts, PartSize, d, f, l
<1>4. Part(n) = SubSeq(segment, EndOfParts(n) + 1, EndOfParts(n + 1))
  <2>1. n = f - 1 <=> n + 1 = f
    BY <1>1
  <2> QED BY <1>3, <2>1 DEF Part, d, f, l
<1> HIDE DEF d
<1>5. n * d \in Nat /\ (n + 1) * d = n * d + d /\ (n + 1) * d <= l
  <2>1. n * d \in Nat /\ (n + 1) * d = n * d + d
    BY <1>1, <1>2
  <2>2. \A x, y, z \in Nat : x <= y => x * z <= y * z
    OBVIOUS
  <2>3. (n + 1) * d <= f * d
    BY <1>1, <1>2, <2>2
  <2> QED BY <1>1, <1>2, <2>1, <2>3
<1>6. /\ EndOfParts(n) \in Nat /\ EndOfParts(n + 1) \in Nat
      /\ EndOfParts(n) < EndOfParts(n + 1) /\ EndOfParts(n + 1) <= l
  BY <1>1, <1>2, <1>3, <1>5
<1>7. \A a, b \in Nat : a < b /\ b <= l =>
        /\ SubSeq(segment, a + 1, b) \in Seq(Chunks)
        /\ Len(SubSeq(segment, a + 1, b)) = b - a
        /\ \A p \in 1 .. b - a : SubSeq(segment, a + 1, b)[p] = segment[a + p]
  BY <1>1 DEF l
<1>8. /\ Part(n) \in Seq(Chunks) /\ Len(Part(n)) = EndOfParts(n + 1) - EndOfParts(n)
      /\ \A p \in 1 .. EndOfParts(n + 1) - EndOfParts(n) : Part(n)[p] = segment[EndOfParts(n) + p]
  BY <1>4, <1>6, <1>7
<1> QED BY <1>4, <1>6, <1>8 DEF l

(* A search begins with the whole of what it is told to read.              *)
LEMMA GetMinKSearches ==
  ASSUME NEW part \in Seq(Chunks), NEW k \in 1 .. Len(part), NEW to, GetMinK(part, k, to),
         Wanted' = k
  PROVE  /\ Searching'
         /\ src' = part /\ dst' = to /\ step' = "loop" /\ buf' = part
         /\ frame' \in [off : Nat, num : Nat, k : Nat] /\ frame'.off + frame'.num <= Len(buf')
         /\ tmp' \in Nat /\ position' \in Nat /\ i' \in Nat
<1>1. /\ src' = part /\ dst' = to /\ buf' = part /\ tmp' = part[1] /\ position' = 0 /\ i' = 1
      /\ step' = "loop" /\ frame' = [off |-> 0, num |-> Len(part), k |-> k]
  BY DEF GetMinK
<1>2. Len(part) \in Nat /\ Len(part) >= 1 /\ k \in Nat /\ part[1] \in Chunks /\ part[1] \in Nat
  BY ChunksAreNumbers
<1>3. frame'.off = 0 /\ frame'.num = Len(part) /\ frame'.k = k
  BY <1>1
<1>4. Restored' = part
  <2>1. At(position)' = 1
    BY <1>1, <1>3 DEF At
  <2>2. Restored' = [part EXCEPT ![1] = part[1]]
    BY <1>1, <2>1 DEF Restored
  <2> QED BY <2>2
<1>5. Rearranges(part, part)
  BY DEF Rearranges
<1>6. Passed(part, 0, 0, 1, part[1])
  BY DEF Passed
<1>7. Framed(part, 0, Len(part))
  BY <1>2 DEF Framed
<1>8. frame' \in [off : Nat, num : Nat, k : Nat]
  BY <1>1, <1>2
<1>9. Searching'
  BY <1>1, <1>2, <1>3, <1>4, <1>5, <1>6, <1>7 DEF Searching
<1> QED BY <1>1, <1>2, <1>3, <1>8, <1>9

LEMMA PartlySame ==
  ASSUME Partly, step \in {"start", "loop", "copy"},
         UNCHANGED <<method, segment, feature, candidates, startPos>>
  PROVE  Partly'
<1>1. /\ (\A n : Part(n)' = Part(n)) /\ Ends' = Ends /\ PartsByContent' = PartsByContent
      /\ \A n : EndOfParts(n)' = EndOfParts(n)
  BY SegmentSame
<1> QED BY <1>1 DEF Partly, Covered

LEMMA SearchedSame ==
  ASSUME Searched, step \in {"loop", "copy"},
         UNCHANGED <<method, segment, feature, candidates, startPos, src, dst>>
  PROVE  Searched'
<1>1. /\ (\A n : Part(n)' = Part(n)) /\ PartsByContent' = PartsByContent
      /\ Wanted' = Wanted
  BY SegmentSame DEF Wanted
<1> QED BY <1>1 DEF Searched, Covered

LEMMA StartPartKeeps ==
  ASSUME SelectionInv, StartPart
  PROVE  SelectionInv'
<1>1. /\ step = "start" /\ Len(segment) > FEATURE_NUM
      /\ method' = method /\ segment' = segment /\ feature' = feature
      /\ candidates' = candidates /\ startPos' = startPos
  BY DEF StartPart, partVars
<1>2. /\ segment \in Seq(Chunks) /\ FEATURE_NUM \in Nat \ {0} /\ Len(segment) \in Nat
      /\ feature \in Seq(Chunks) /\ Partly /\ Len(feature) \in Nat
  BY SelectionAssumption DEF SelectionInv, SelectionTypes
<1>3. PICK part \in Seq(Chunks), k \in Nat :
        /\ k \in 1 .. Len(part)
        /\ GetMinK(part, k, "feature")
        /\ \/ method = "finesse" /\ k = 1 /\ part = Part(Len(feature))
           \/ method = "mink" /\ k = FEATURE_NUM /\ part = segment
  <2>1. CASE method = "finesse" /\ GetMinK(Part(Len(feature)), 1, "feature")
    <3>1. Len(feature) \in 0 .. FEATURE_NUM - 1
      BY <1>1, <1>2 DEF Partly
    <3>2. /\ Part(Len(feature)) \in Seq(Chunks)
          /\ \E a, b \in Nat : a < b /\ Len(Part(Len(feature))) = b - a
      BY <1>1, <1>2, <3>1, PartIs
    <3>3. 1 \in 1 .. Len(Part(Len(feature)))
      BY <3>2
    <3> QED BY <2>1, <3>2, <3>3
  <2>2. CASE method = "mink" /\ GetMinK(segment, FEATURE_NUM, "feature")
    <3>1. FEATURE_NUM \in 1 .. Len(segment)
      BY <1>1, <1>2
    <3> QED BY <1>2, <2>2, <3>1
  <2> QED BY <2>1, <2>2 DEF StartPart
<1>4. dst' = "feature" /\ Wanted' = k
  BY <1>1, <1>3 DEF GetMinK, Wanted
<1>5. /\ Searching'
      /\ src' = part /\ step' = "loop" /\ buf' = part
      /\ frame' \in [off : Nat, num : Nat, k : Nat] /\ frame'.off + frame'.num <= Len(buf')
      /\ tmp' \in Nat /\ position' \in Nat /\ i' \in Nat
  BY <1>3, <1>4, GetMinKSearches
<1>6. SelectionTypes'
  BY <1>1, <1>4, <1>5 DEF SelectionInv, SelectionTypes
<1>7. Partly'
  BY <1>1, <1>2, PartlySame
<1>8. Searched'
  <2>1. Part(Len(feature))' = Part(Len(feature))
    BY <1>1, SegmentSame
  <2>2. Len(src') >= Wanted'
    BY <1>3, <1>4, <1>5
  <2> QED BY <1>1, <1>3, <1>4, <1>5, <2>1, <2>2 DEF Searched
<1> QED BY <1>5, <1>6, <1>7, <1>8 DEF SelectionInv, Looking, Parted, FeaturesAreSmallest

(* One more element has been passed.                                       *)
LEMMA ScanPasses ==
  ASSUME SelectionInv, Scan
  PROVE  /\ buf' \in Seq(Chunks) /\ Len(buf') = Len(buf)
         /\ position' \in Nat /\ position' < i' /\ i' \in Nat /\ i' <= frame.num
         /\ Rearranges(Restored', src) /\ Restored' \in Seq(Chunks)
         /\ Passed(Restored', frame.off, position', i', tmp)
         /\ Framed(Restored', frame.off, frame.num)
<1> DEFINE o == frame.off
           n == frame.num
           w == Restored
           v == position
           j == i
           l == Len(buf)
           p == o + v + 1
           q == o + j + 1
<1>1. /\ step = "loop" /\ j < n /\ i' = j + 1 /\ frame' = frame /\ tmp' = tmp /\ src' = src
      /\ \/ tmp > buf[At(j)] /\ buf' = Swap(buf) /\ position' = v + 1
         \/ ~(tmp > buf[At(j)]) /\ buf' = buf /\ position' = v
  BY DEF Scan
<1>2. /\ o \in Nat /\ n \in Nat /\ v \in Nat /\ j \in Nat /\ tmp \in Chunks
      /\ v < j /\ o + n <= l /\ l \in Nat
      /\ w \in Seq(Chunks) /\ Len(w) = l
      /\ \A r \in 1 .. l : w[r] = IF r = o + v + 1 THEN tmp ELSE buf[r]
  BY <1>1, RestoredIs
<1>3. Rearranges(w, src) /\ Passed(w, o, v, j, tmp) /\ Framed(w, o, n)
  BY <1>1 DEF SelectionInv, Searching
<1>4. buf \in [1 .. l -> Chunks] /\ buf \in Seq(Chunks) /\ w \in Seq(Nat) /\ tmp \in Nat
  BY <1>2, ChunksAreNumbers DEF SelectionInv, SelectionTypes
<1>5. At(v) = p /\ At(j) = q /\ At(v + 1) = p + 1 /\ At(position)' = o + position' + 1
  BY <1>1, <1>2 DEF At
<1>6. Restored' = [buf' EXCEPT ![o + position' + 1] = tmp]
  BY <1>1, <1>5 DEF Restored
<1>7. p \in 1 .. l /\ q \in 1 .. l /\ p < q /\ p + 1 \in 1 .. l /\ q = o + j + 1 /\ p = o + v + 1
  <2>1. \A a, b, c, d, e \in Nat : b < c /\ c < d /\ a + d <= e =>
          /\ a + b + 1 \in 1 .. e /\ a + c + 1 \in 1 .. e /\ a + b + 1 < a + c + 1
          /\ a + b + 1 + 1 \in 1 .. e
    OBVIOUS
  <2>2. o \in Nat /\ n \in Nat /\ v \in Nat /\ j \in Nat /\ v < j /\ j < n /\ o + n <= l /\ l \in Nat
    BY <1>1, <1>2
  <2> HIDE DEF o, n, v, j, l
  <2> QED BY <2>1, <2>2
<1>8. CASE tmp > buf[At(j)] /\ buf' = Swap(buf) /\ position' = v + 1
  <2> DEFINE m == Moved(w, p, q)
  <2>1. buf' = [buf EXCEPT ![p] = buf[q], ![q] = buf[p + 1]]
    BY <1>5, <1>8 DEF Swap
  <2>2. m \in Seq(Chunks) /\ Rearranges(m, w) /\ Moves(m, w, p, q)
    BY <1>2, <1>7, MovedIs
  <2>3. o + position' + 1 = p + 1
    <3>1. o \in Nat /\ v \in Nat /\ position' = v + 1
      BY <1>2, <1>8
    <3> HIDE DEF o, v
    <3> QED BY <3>1
  <2> HIDE DEF w, p, q, l, m, o, n, v, j
  <2>4. /\ buf' \in [1 .. l -> Chunks]
        /\ \A r \in 1 .. l : buf'[r] = IF r = q THEN buf[p + 1] ELSE IF r = p THEN buf[q] ELSE buf[r]
    BY <1>4, <1>7, <2>1
  <2>5. buf' \in Seq(Chunks) /\ Len(buf') = l
    BY <1>2, <2>4
  <2>6. /\ Restored' \in [1 .. l -> Chunks]
        /\ \A r \in 1 .. l : Restored'[r] = IF r = p + 1 THEN tmp ELSE buf'[r]
    BY <1>2, <1>6, <1>7, <2>3, <2>4
  <2>7. m \in [1 .. l -> Chunks]
        /\ \A r \in 1 .. l : m[r] = IF r = p THEN w[q] ELSE IF r = p + 1 THEN w[p]
                                    ELSE IF r = q THEN w[p + 1] ELSE w[r]
    BY <1>2, <2>2 DEF Moves
  <2>8. ASSUME NEW r \in 1 .. l PROVE Restored'[r] = m[r]
    <3>1. w[q] = buf[q] /\ w[p] = tmp /\ w[p + 1] = buf[p + 1]
          /\ (r # p => w[r] = buf[r])
      BY <1>2, <1>7
    <3>2. CASE r = p + 1
      BY <1>7, <2>6, <2>7, <3>1, <3>2
    <3>3. CASE r # p + 1 /\ r = p
      BY <1>7, <2>4, <2>6, <2>7, <3>1, <3>3
    <3>4. CASE r # p + 1 /\ r # p
      BY <1>7, <2>4, <2>6, <2>7, <3>1, <3>4
    <3> QED BY <3>2, <3>3, <3>4
  <2>9. Restored' = m
    <3>1. PICK R : R = Restored'
      OBVIOUS
    <3>2. R \in [1 .. l -> Chunks] /\ m \in [1 .. l -> Chunks]
      BY <2>6, <2>7, <3>1
    <3>3. \A r \in 1 .. l : R[r] = m[r]
      BY <2>8, <3>1
    <3>4. R = [r \in 1 .. l |-> R[r]] /\ m = [r \in 1 .. l |-> m[r]]
      BY <3>2
    <3>5. R = m
      BY <3>3, <3>4
    <3> QED BY <3>1, <3>5
  <2>10. w[o + j + 1] < tmp
    <3>1. w[q] = buf[q] /\ buf[q] \in Nat
      BY <1>2, <1>4, <1>7, ChunksAreNumbers
    <3>2. tmp > buf[q]
      BY <1>5, <1>8
    <3> QED BY <1>4, <1>7, <3>1, <3>2
  <2>11. Passed(m, o, v + 1, j + 1, tmp) /\ Framed(m, o, n)
    <3>1. m = Moved(w, o + v + 1, o + j + 1)
      BY <1>7 DEF m
    <3>2. o + n <= Len(w) /\ j < n
      BY <1>1, <1>2 DEF j, n
    <3> QED BY <1>2, <1>3, <1>4, <2>10, <3>1, <3>2, MovedPasses
  <2>12. Rearranges(m, src)
    BY <1>3, <2>2, RearrangesTransitive
  <2>13. position' \in Nat /\ position' < i' /\ i' \in Nat /\ i' <= n
    BY <1>1, <1>2, <1>8 DEF v, j, n
  <2>14. m \in Seq(Chunks) /\ position' = v + 1 /\ i' = j + 1
    BY <1>1, <1>8, <2>2 DEF v, j
  <2> QED BY <2>5, <2>9, <2>11, <2>12, <2>13, <2>14 DEF o, n, l
<1>9. CASE ~(tmp > buf[At(j)]) /\ buf' = buf /\ position' = v
  <2>1. Restored' = w
    BY <1>5, <1>6, <1>9 DEF Restored
  <2>2. ~(tmp > w[q]) /\ w[q] \in Nat
    <3>1. w[q] = buf[q] /\ w[q] \in Nat
      <4> HIDE DEF p, q, w, l, o, v
      <4>1. q \in 1 .. l /\ q # o + v + 1
        BY <1>7
      <4>2. w[q] = buf[q]
        BY <1>2, <4>1
      <4>3. w[q] \in Nat
        BY <1>2, <1>4, <4>1
      <4> QED BY <4>2, <4>3
    <3>2. ~(tmp > buf[q])
      BY <1>5, <1>9
    <3> HIDE DEF w, q
    <3> QED BY <3>1, <3>2
  <2> HIDE DEF w, o, n, v, j
  <2>3. Passed(w, o, v, j + 1, tmp)
    <3>1. ASSUME NEW r \in o + v + 2 .. o + (j + 1) PROVE w[r] >= tmp
      <4>1. CASE r = q
        BY <1>4, <2>2, <4>1
      <4>2. CASE r # q
        <5>1. r \in o + v + 2 .. o + j
          BY <1>2, <1>7, <4>2
        <5> QED BY <1>3, <5>1 DEF Passed
      <4> QED BY <4>1, <4>2
    <3> QED BY <1>3, <3>1 DEF Passed
  <2>4. i' = j + 1 /\ position' = v /\ position' \in Nat /\ position' < i' /\ i' \in Nat /\ i' <= n
    BY <1>1, <1>2, <1>9 DEF v, j, n
  <2> QED BY <1>2, <1>3, <1>4, <1>9, <2>1, <2>3, <2>4 DEF o, n
<1> QED BY <1>1, <1>8, <1>9

LEMMA ScanKeeps ==
  ASSUME SelectionInv, Scan
  PROVE  SelectionInv'
<1>1. /\ step = "loop" /\ step' = "loop" /\ frame' = frame /\ tmp' = tmp /\ src' = src
      /\ dst' = dst
      /\ method' = method /\ segment' = segment /\ feature' = feature
      /\ candidates' = candidates /\ startPos' = startPos
  BY DEF Scan, partVars
<1>2. /\ buf' \in Seq(Chunks) /\ Len(buf') = Len(buf)
      /\ position' \in Nat /\ position' < i' /\ i' \in Nat /\ i' <= frame.num
      /\ Rearranges(Restored', src)
      /\ Passed(Restored', frame.off, position', i', tmp)
      /\ Framed(Restored', frame.off, frame.num)
  BY ScanPasses
<1>3. SelectionTypes'
  BY <1>1, <1>2 DEF SelectionInv, SelectionTypes
<1>4. Partly'
  BY <1>1, PartlySame DEF SelectionInv
<1>5. Wanted' = Wanted
  BY <1>1 DEF Wanted
<1>6. Searched'
  BY <1>1, <1>5, SearchedSame DEF SelectionInv
<1>7. Searching'
  BY <1>1, <1>2, <1>5 DEF SelectionInv, Searching
<1> QED BY <1>1, <1>3, <1>4, <1>6, <1>7 DEF SelectionInv, Looking, Parted, FeaturesAreSmallest

(* A smaller frame is searched from its first element on.                  *)
LEMMA SearchRestarts ==
  ASSUME NEW w \in Seq(Chunks), NEW o \in Nat, NEW n \in Nat, NEW k \in 1 .. n,
         o + n <= Len(w), Framed(w, o, n), Rearranges(w, src'), o + k = Wanted',
         buf' = w, frame' = [off |-> o, num |-> n, k |-> k], tmp' = w[frame'.off + 1],
         position' = 0, i' = 1
  PROVE  /\ Searching'
         /\ frame' \in [off : Nat, num : Nat, k : Nat] /\ frame'.off + frame'.num <= Len(buf')
         /\ tmp' \in Nat
<1>1. frame'.off = o /\ frame'.num = n /\ frame'.k = k
  OBVIOUS
<1>2. Len(w) \in Nat /\ n >= 1 /\ k \in Nat /\ o + 1 \in 1 .. Len(w) /\ w \in [1 .. Len(w) -> Chunks]
  OBVIOUS
<1>3. tmp' = w[o + 1] /\ w[o + 1] \in Chunks /\ w[o + 1] \in Nat
  <2>1. w[o + 1] \in Chunks
    BY <1>2
  <2> QED BY <1>1, <2>1, ChunksAreNumbers
<1>4. Restored' = w
  <2>1. At(position)' = o + 1
    BY <1>1 DEF At
  <2>2. Restored' = [w EXCEPT ![o + 1] = w[o + 1]]
    BY <1>3, <2>1 DEF Restored
  <2> QED BY <1>2, <2>2
<1>5. Passed(w, o, 0, 1, w[o + 1])
  BY DEF Passed
<1>6. frame' \in [off : Nat, num : Nat, k : Nat]
  BY <1>2
<1>7. Searching'
  BY <1>1, <1>2, <1>3, <1>4, <1>5 DEF Searching
<1> QED BY <1>1, <1>3, <1>6, <1>7

LEMMA SplitKeeps ==
  ASSUME SelectionInv, Split
  PROVE  SelectionInv'
<1> DEFINE o == frame.off
           n == frame.num
           k == frame.k
           s == position
           w == Restored
<1>1. /\ step = "loop" /\ i >= n /\ src' = src /\ dst' = dst
      /\ method' = method /\ segment' = segment /\ feature' = feature
      /\ candidates' = candidates /\ startPos' = startPos
      /\ buf' = w
  BY DEF Split, partVars, Restored
<1>2. /\ o \in Nat /\ n \in Nat /\ k \in Nat /\ s \in Nat /\ i \in Nat /\ s < i /\ i <= n
      /\ k \in 1 .. n
      /\ o + n <= Len(w) /\ Len(w) \in Nat /\ w \in Seq(Chunks) /\ Len(w) = Len(buf)
  BY <1>1, RestoredIs
<1>3. i = n /\ s < n
  BY <1>1, <1>2
<1>4. /\ Rearranges(w, src) /\ Passed(w, o, s, n, tmp) /\ Framed(w, o, n) /\ o + k = Wanted
      /\ tmp \in Nat
  BY <1>1, <1>3, ChunksAreNumbers DEF SelectionInv, Searching
<1>5. Wanted' = Wanted /\ w \in Seq(Nat)
  BY <1>1, <1>2, ChunksAreNumbers DEF Wanted
<1>6. /\ FirstSmallest(w, o + s) /\ FirstSmallest(w, o + s + 1)
      /\ Framed(w, o, s) /\ Framed(w, o + s + 1, n - (s + 1))
  <2> HIDE DEF o, n, s, w
  <2> QED BY <1>2, <1>3, <1>4, <1>5, PartedByPivot
<1>7. \/ /\ s + 1 = k \/ s = k
         /\ step' = "copy" /\ frame' = frame /\ tmp' = tmp /\ position' = position /\ i' = i
      \/ /\ ~(s + 1 = k \/ s = k) /\ s + 1 > k
         /\ frame' = [frame EXCEPT !.num = s]
         /\ tmp' = w[frame'.off + 1] /\ position' = 0 /\ i' = 1 /\ step' = step
      \/ /\ ~(s + 1 = k \/ s = k) /\ ~(s + 1 > k)
         /\ frame' = [off |-> o + (s + 1), num |-> n - (s + 1), k |-> k - (s + 1)]
         /\ tmp' = w[frame'.off + 1] /\ position' = 0 /\ i' = 1 /\ step' = step
  BY <1>1 DEF Split, AfterPivot, RestOfK
<1>8. Partly' /\ Searched'
  BY <1>1, PartlySame, SearchedSame DEF SelectionInv
<1>9. CASE /\ s + 1 = k \/ s = k
           /\ step' = "copy" /\ frame' = frame /\ tmp' = tmp /\ position' = position /\ i' = i
  <2>1. SelectionTypes'
    BY <1>1, <1>2, <1>9 DEF SelectionInv, SelectionTypes
  <2>2. Wanted = o + s \/ Wanted = o + s + 1
    <3> HIDE DEF o, s, k
    <3> QED BY <1>2, <1>4, <1>9
  <2>3. FirstSmallest(w, Wanted)
    BY <1>6, <2>2
  <2>4. Parted'
    BY <1>1, <1>4, <1>5, <2>3 DEF Parted
  <2> QED BY <1>8, <1>9, <2>1, <2>4 DEF SelectionInv, Looking, Searching, FeaturesAreSmallest
<1>10. ASSUME NEW a \in Nat, NEW b \in Nat, NEW c \in 1 .. b,
              a + b <= Len(w), Framed(w, a, b), a + c = Wanted,
              frame' = [off |-> a, num |-> b, k |-> c],
              tmp' = w[frame'.off + 1], position' = 0, i' = 1, step' = step
       PROVE  SelectionInv'
  <2>1. /\ Searching'
        /\ frame' \in [off : Nat, num : Nat, k : Nat] /\ frame'.off + frame'.num <= Len(buf')
        /\ tmp' \in Nat
    <3> HIDE DEF w
    <3>1. Rearranges(w, src') /\ buf' = w /\ a + c = Wanted' /\ w \in Seq(Chunks)
      BY <1>1, <1>2, <1>4, <1>5, <1>10
    <3> QED BY <1>10, <3>1, SearchRestarts
  <2>2. SelectionTypes'
    BY <1>1, <1>2, <1>10, <2>1 DEF SelectionInv, SelectionTypes
  <2> QED BY <1>1, <1>8, <1>10, <2>1, <2>2 DEF SelectionInv, Looking, Parted, FeaturesAreSmallest
<1>11. CASE /\ ~(s + 1 = k \/ s = k) /\ s + 1 > k
            /\ frame' = [frame EXCEPT !.num = s]
            /\ tmp' = w[frame'.off + 1] /\ position' = 0 /\ i' = 1 /\ step' = step
  <2>1. frame' = [off |-> o, num |-> s, k |-> k]
    BY <1>11 DEF SelectionInv, SelectionTypes
  <2>2. k \in 1 .. s /\ o + s <= Len(w)
    <3> HIDE DEF o, s, k, n, w
    <3> QED BY <1>2, <1>3, <1>11
  <2> HIDE DEF o, s, k, n, w
  <2> QED BY <1>2, <1>4, <1>6, <1>10, <1>11, <2>1, <2>2
<1>12. CASE /\ ~(s + 1 = k \/ s = k) /\ ~(s + 1 > k)
            /\ frame' = [off |-> o + (s + 1), num |-> n - (s + 1), k |-> k - (s + 1)]
            /\ tmp' = w[frame'.off + 1] /\ position' = 0 /\ i' = 1 /\ step' = step
  <2> HIDE DEF o, s, k, n, w
  <2>1. /\ o + s + 1 = o + (s + 1) /\ o + (s + 1) \in Nat /\ n - (s + 1) \in Nat
        /\ k - (s + 1) \in 1 .. n - (s + 1)
        /\ o + (s + 1) + (n - (s + 1)) <= Len(w)
        /\ o + (s + 1) + (k - (s + 1)) = o + k
    BY <1>2, <1>3, <1>12
  <2>2. Framed(w, o + (s + 1), n - (s + 1))
    BY <1>6, <2>1
  <2> QED BY <1>4, <1>10, <1>12, <2>1, <2>2
<1> QED BY <1>7, <1>9, <1>11, <1>12

(* A part of the segment is represented by its smallest fingerprint.       *)
LEMMA MinimumOfPart ==
  ASSUME segment \in Seq(Chunks), NEW a \in Nat, NEW b \in Nat, a < b, b <= Len(segment),
         NEW s, s = SubSeq(segment, a + 1, b)
  PROVE  /\ s \in Seq(Chunks) /\ s \in Seq(Nat) /\ s # <<>> /\ Len(s) = b - a
         /\ Minimum(s) \in ToSet(segment)
         /\ \A p \in a + 1 .. b : Minimum(s) <= segment[p]
<1>1. /\ s \in Seq(Chunks) /\ Len(s) = b - a
      /\ \A p \in 1 .. b - a : s[p] = segment[a + p]
  OBVIOUS
<1>2. s \in Seq(Nat) /\ s # <<>> /\ DOMAIN s = 1 .. b - a /\ DOMAIN segment = 1 .. Len(segment)
      /\ Len(segment) \in Nat
  <2>1. b - a \in Nat /\ b - a # 0 /\ Len(segment) \in Nat /\ DOMAIN segment = 1 .. Len(segment)
    OBVIOUS
  <2>2. s \in Seq(Nat)
    BY <1>1, ChunksAreNumbers
  <2>3. DOMAIN s = 1 .. b - a /\ s # <<>>
    BY <1>1, <2>1
  <2> QED BY <2>1, <2>2, <2>3
<1>3. Minimum(s) \in ToSet(s) /\ \A v \in ToSet(s) : Minimum(s) <= v
  BY <1>2, MinimumIs
<1>4. PICK r \in 1 .. b - a : Minimum(s) = s[r]
  BY <1>2, <1>3 DEF ToSet
<1>5. a + r \in 1 .. Len(segment) /\ Minimum(s) = segment[a + r]
  BY <1>1, <1>2, <1>4
<1>6. ASSUME NEW p \in a + 1 .. b PROVE Minimum(s) <= segment[p]
  <2>1. p - a \in 1 .. b - a /\ a + (p - a) = p
    OBVIOUS
  <2>2. s[p - a] = segment[p]
    BY <1>1, <2>1
  <2>3. s[p - a] \in ToSet(s)
    BY <1>2, <2>1 DEF ToSet
  <2> QED BY <1>3, <2>2, <2>3
<1>7. Minimum(s) \in ToSet(segment)
  BY <1>2, <1>5 DEF ToSet
<1> QED BY <1>1, <1>2, <1>6, <1>7

(* Two ends of parts are in the segment, and so is a part.                 *)
LEMMA PartByContent ==
  ASSUME segment \in Seq(Chunks), NEW s \in PartsByContent
  PROVE  s \in Seq(Nat) /\ s # <<>> /\ Minimum(s) \in ToSet(segment)
<1>1. PICK a \in Ends, b \in Ends : a < b /\ s = SubSeq(segment, a + 1, b)
  BY DEF PartsByContent
<1>2. Len(segment) \in Nat
  OBVIOUS
<1>3. a \in 0 .. Len(segment) /\ b \in 0 .. Len(segment)
  BY <1>2 DEF Ends
<1>4. a \in Nat /\ b \in Nat /\ b <= Len(segment)
  BY <1>2, <1>3
<1> QED BY <1>1, <1>4, MinimumOfPart

LEMMA StartCandidateKeeps ==
  ASSUME SelectionInv, StartCandidate
  PROVE  SelectionInv'
<1> DEFINE l == Len(segment)
<1>1. /\ step = "start" /\ method = "cdmink" /\ l > FEATURE_NUM /\ startPos < l
      /\ method' = method /\ segment' = segment /\ feature' = feature
      /\ candidates' = candidates
  BY DEF StartCandidate
<1>2. /\ segment \in Seq(Chunks) /\ FEATURE_NUM \in Nat /\ l \in Nat /\ l <= SEGMENT_MAX
      /\ startPos \in Nat /\ SEGMENT_MAX \in Nat /\ CANDIDATES \in Nat
      /\ candidates \in Seq(Chunks) /\ Len(candidates) \in Nat /\ Partly /\ Looking
  BY <1>1, SelectionAssumption DEF SelectionInv, SelectionTypes
<1>3. /\ Ends' = Ends /\ PartsByContent' = PartsByContent
  BY <1>1, SegmentSame
<1>4. PICK beyond \in Beyond :
        LET ends == PartEnds(beyond)
            end == IF Len(candidates) < CANDIDATES - 1
                     THEN CHOOSE p \in ends : \A q \in ends : p <= q
                     ELSE l
        IN  IF ends = {}
              THEN startPos' = l /\ UNCHANGED <<callVars, step>>
              ELSE /\ GetMinK(SubSeq(segment, startPos + 1, end), 1, "candidates")
                   /\ startPos' = end
  BY DEF StartCandidate, NextPart
<1> DEFINE ends == PartEnds(beyond)
<1>5. ends \subseteq startPos + 1 .. l /\ ends \subseteq Ends
  <2>1. ASSUME NEW p \in ends PROVE p \in startPos + 1 .. l /\ p \in Ends
    <3>1. p \in startPos + 1 .. l /\ (p < l => segment[p + 1] \in PartBoundaries)
      BY DEF PartEnds
    <3>2. p = l \/ p \in 1 .. l - 1
      BY <1>2, <3>1
    <3>3. p = l => p \in Ends
      BY DEF Ends
    <3>4. p \in 1 .. l - 1 => p \in Ends
      BY <1>2, <3>1 DEF Ends
    <3> QED BY <3>1, <3>2, <3>3, <3>4
  <2> QED BY <2>1
<1>6. l < SEGMENT_MAX => ends # {}
  <2> SUFFICES ASSUME l < SEGMENT_MAX PROVE l \in ends
    OBVIOUS
  <2>1. beyond = TRUE
    BY DEF Beyond
  <2>2. l \in startPos + 1 .. l /\ ~(l < l)
    BY <1>1, <1>2
  <2> QED BY <2>1, <2>2 DEF PartEnds
<1> HIDE DEF ends
<1>7. CASE ends = {}
  <2>1. startPos' = l /\ step' = "start" /\ UNCHANGED callVars
    BY <1>1, <1>4, <1>7 DEF ends
  <2>2. ~(l < SEGMENT_MAX)
    BY <1>6, <1>7
  <2>3. SelectionTypes'
    BY <1>1, <1>2, <2>1 DEF SelectionInv, SelectionTypes, callVars
  <2>4. l \in Ends
    BY DEF Ends
  <2>5. Partly'
    BY <1>1, <1>2, <1>3, <2>1, <2>4 DEF Partly
  <2>6. Looking'
    BY <1>1, <1>2, <2>1, <2>2 DEF Looking
  <2> QED BY <2>1, <2>3, <2>5, <2>6 DEF SelectionInv, Searched, Searching, Parted,
                                        FeaturesAreSmallest
<1>8. CASE ends # {}
  <2>1. PICK end : /\ end = IF Len(candidates) < CANDIDATES - 1
                              THEN CHOOSE p \in ends : \A q \in ends : p <= q
                              ELSE l
                   /\ GetMinK(SubSeq(segment, startPos + 1, end), 1, "candidates")
                   /\ startPos' = end
    BY <1>4, <1>8 DEF ends
  <2>2. end \in startPos + 1 .. l /\ end \in Ends
    <3>1. CASE Len(candidates) < CANDIDATES - 1
      <4>1. ends \subseteq Nat
        BY <1>2, <1>5
      <4>2. \E p \in ends : \A q \in ends : p <= q
        BY <1>8, <4>1, Smallest
      <4>3. (CHOOSE p \in ends : \A q \in ends : p <= q) \in ends
        BY <4>2
      <4> QED BY <1>5, <2>1, <3>1, <4>3
    <3>2. CASE ~(Len(candidates) < CANDIDATES - 1)
      <4>1. end = l
        BY <2>1, <3>2
      <4>2. l \in startPos + 1 .. l /\ l \in Ends
        BY <1>1, <1>2 DEF Ends
      <4> QED BY <4>1, <4>2
    <3> QED BY <3>1, <3>2
  <2>3. end < l => Len(candidates) + 1 < CANDIDATES
    BY <1>2, <2>1, SelectionAssumption
  <2> DEFINE part == SubSeq(segment, startPos + 1, end)
  <2>4. end \in Nat /\ startPos < end /\ end <= l
    BY <1>2, <2>2
  <2>5. part \in Seq(Chunks) /\ Len(part) = end - startPos
    BY <1>2, <2>4, MinimumOfPart
  <2>6. part \in PartsByContent
    <3>1. startPos \in Ends
      BY <1>1, <1>2 DEF Partly
    <3>2. <<startPos, end>> \in {pair \in Ends \X Ends : pair[1] < pair[2]}
      BY <2>2, <2>4, <3>1
    <3>3. PICK e \in {pair \in Ends \X Ends : pair[1] < pair[2]} : e[1] = startPos /\ e[2] = end
      BY <3>2
    <3>4. part = SubSeq(segment, e[1] + 1, e[2])
      BY <3>3
    <3> QED BY <3>3, <3>4 DEF PartsByContent
  <2>7. GetMinK(part, 1, "candidates")
    BY <2>1
  <2>8. part = SubSeq(segment', startPos + 1, startPos')
    BY <1>1, <2>1
  <2> HIDE DEF part
  <2>9. dst' = "candidates" /\ Wanted' = 1
    BY <2>7 DEF GetMinK, Wanted
  <2>10. 1 \in 1 .. Len(part)
    BY <1>2, <2>4, <2>5
  <2>11. /\ Searching'
         /\ src' = part /\ step' = "loop" /\ buf' = part
         /\ frame' \in [off : Nat, num : Nat, k : Nat] /\ frame'.off + frame'.num <= Len(buf')
         /\ tmp' \in Nat /\ position' \in Nat /\ i' \in Nat
    BY <2>5, <2>7, <2>9, <2>10, GetMinKSearches
  <2>12. SelectionTypes'
    BY <1>1, <1>2, <2>1, <2>4, <2>5, <2>9, <2>11 DEF SelectionInv, SelectionTypes
  <2>13. Partly'
    BY <1>1, <1>2, <1>3, <2>1, <2>2, <2>11 DEF Partly
  <2>14. Searched'
    <3>1. Len(src') >= Wanted'
      BY <2>9, <2>10, <2>11
    <3>2. Len(candidates) < CANDIDATES
      BY <1>1, <1>2 DEF Looking
    <3>3. Len(segment') < SEGMENT_MAX =>
              \E a \in 0 .. startPos' : /\ src' = SubSeq(segment', a + 1, startPos')
                                        /\ Covered(candidates, a)'
      <4>1. startPos \in 0 .. startPos' /\ startPos' = end
        BY <1>2, <2>1, <2>4
      <4>2. Len(segment') < SEGMENT_MAX => Covered(candidates, startPos)
        BY <1>1, <1>2 DEF Looking
      <4>3. PICK a : a = startPos
        OBVIOUS
      <4>4. Len(segment') < SEGMENT_MAX => Covered(candidates, a)'
        BY <1>1, <4>2, <4>3 DEF Covered
      <4> QED BY <2>8, <2>11, <4>1, <4>3, <4>4
    <3> QED BY <1>1, <1>2, <1>3, <2>1, <2>3, <2>6, <2>9, <2>11, <3>1, <3>2, <3>3 DEF Searched
  <2> QED BY <2>11, <2>12, <2>13, <2>14 DEF SelectionInv, Looking, Parted, FeaturesAreSmallest
<1> QED BY <1>7, <1>8

(* The candidates are among the segment's fingerprints.                    *)
LEMMA CandidatesAre ==
  ASSUME segment \in Seq(Chunks), NEW s \in Seq(Nat),
         \A n \in 1 .. Len(s) : \E p \in PartsByContent : s[n] = Minimum(p)
  PROVE  ToSet(s) \subseteq ToSet(segment)
<1>1. ASSUME NEW v \in ToSet(s) PROVE v \in ToSet(segment)
  <2>1. DOMAIN s = 1 .. Len(s)
    OBVIOUS
  <2>2. PICK n \in 1 .. Len(s) : v = s[n]
    BY <2>1 DEF ToSet
  <2>3. PICK p \in PartsByContent : s[n] = Minimum(p)
    OBVIOUS
  <2> QED BY <2>2, <2>3, PartByContent
<1> QED BY <1>1

(* If every chunk has been represented, the smallest one is there.         *)
LEMMA CoveredMinimum ==
  ASSUME segment \in Seq(Chunks), segment # <<>>, NEW s \in Seq(Nat),
         ToSet(s) \subseteq ToSet(segment), Covered(s, Len(segment))
  PROVE  Minimum(segment) \in ToSet(s)
<1>1. ASSUME NEW v \in ToSet(segment) PROVE \E q \in 1 .. Len(s) : s[q] <= v
  <2>1. DOMAIN segment = 1 .. Len(segment)
    OBVIOUS
  <2>2. PICK p \in 1 .. Len(segment) : v = segment[p]
    BY <2>1 DEF ToSet
  <2> QED BY <2>2 DEF Covered
<1>2. segment \in Seq(Nat)
  BY ChunksAreNumbers
<1> QED BY <1>1, <1>2, MinimumCovered

LEMMA ChooseCandidatesKeeps ==
  ASSUME SelectionInv, ChooseCandidates
  PROVE  SelectionInv'
<1> DEFINE l == Len(segment)
<1>1. /\ step = "start" /\ method = "cdmink" /\ l > FEATURE_NUM /\ startPos >= l
      /\ method' = method /\ segment' = segment
      /\ candidates' = candidates /\ startPos' = startPos
      /\ IF Len(candidates) <= FEATURE_NUM
           THEN feature' = candidates /\ step' = "done" /\ UNCHANGED callVars
           ELSE GetMinK(candidates, FEATURE_NUM, "feature") /\ feature' = feature
  BY DEF ChooseCandidates, partVars
<1>2. /\ segment \in Seq(Chunks) /\ FEATURE_NUM \in Nat \ {0} /\ l \in Nat /\ l <= SEGMENT_MAX
      /\ startPos \in Nat /\ SEGMENT_MAX \in Nat
      /\ candidates \in Seq(Chunks) /\ Len(candidates) \in Nat /\ candidates \in Seq(Nat)
      /\ startPos \in Ends /\ Partly /\ Looking
      /\ \A n \in 1 .. Len(candidates) : \E p \in PartsByContent : candidates[n] = Minimum(p)
  BY <1>1, ChunksAreNumbers, SelectionAssumption DEF SelectionInv, SelectionTypes, Partly
<1>3. PartsByContent' = PartsByContent
  BY <1>1, SegmentSame
<1>4. l < SEGMENT_MAX => Covered(candidates, l)
  <2>1. startPos = l
    BY <1>1, <1>2 DEF Ends
  <2> QED BY <1>1, <1>2, <2>1 DEF Looking
<1>5. CASE Len(candidates) <= FEATURE_NUM
  <2>1. feature' = candidates /\ step' = "done" /\ UNCHANGED callVars
    BY <1>1, <1>5
  <2>2. SelectionTypes'
    BY <1>1, <1>2, <1>5, <2>1 DEF SelectionInv, SelectionTypes, callVars
  <2>3. l = SEGMENT_MAX \/ Minimum(segment) \in ToSet(candidates)
    <3>1. segment # <<>>
      BY <1>1, <1>2
    <3>2. ToSet(candidates) \subseteq ToSet(segment)
      BY <1>2, CandidatesAre
    <3> QED BY <1>2, <1>4, <3>1, <3>2, CoveredMinimum
  <2>4. DOMAIN candidates = 1 .. Len(candidates)
    BY <1>2
  <2>5. FeaturesAreSmallest'
    BY <1>1, <1>2, <1>3, <2>1, <2>3, <2>4 DEF FeaturesAreSmallest
  <2> QED BY <2>1, <2>2, <2>5 DEF SelectionInv, Partly, Looking, Searched, Searching, Parted
<1>6. CASE ~(Len(candidates) <= FEATURE_NUM)
  <2>1. GetMinK(candidates, FEATURE_NUM, "feature") /\ feature' = feature
        /\ FEATURE_NUM \in 1 .. Len(candidates)
    BY <1>1, <1>2, <1>6
  <2>2. dst' = "feature" /\ Wanted' = FEATURE_NUM
    BY <1>1, <2>1 DEF GetMinK, Wanted
  <2>3. /\ Searching'
        /\ src' = candidates /\ step' = "loop" /\ buf' = candidates
        /\ frame' \in [off : Nat, num : Nat, k : Nat] /\ frame'.off + frame'.num <= Len(buf')
        /\ tmp' \in Nat /\ position' \in Nat /\ i' \in Nat
    BY <1>2, <2>1, <2>2, GetMinKSearches
  <2>4. SelectionTypes'
    BY <1>1, <1>2, <2>1, <2>2, <2>3 DEF SelectionInv, SelectionTypes
  <2>5. Partly'
    BY <1>1, <1>2, <2>1, PartlySame
  <2>6. Searched'
    <3>1. Len(src') >= Wanted'
      BY <2>1, <2>2, <2>3
    <3>2. Len(segment') < SEGMENT_MAX => Covered(candidates, Len(segment))'
      BY <1>1, <1>4 DEF Covered
    <3> QED BY <1>1, <2>2, <2>3, <3>1, <3>2 DEF Searched
  <2> QED BY <2>3, <2>4, <2>5, <2>6 DEF SelectionInv, Looking, Parted, FeaturesAreSmallest
<1> QED BY <1>5, <1>6

(* A function on 1 .. l has a first place where it is greatest.            *)
LEMMA FirstGreatest ==
  ASSUME NEW l \in Nat \ {0}, NEW g \in [1 .. l -> Nat]
  PROVE  \E p \in 1 .. l : /\ \A q \in 1 .. l : g[q] <= g[p]
                           /\ \A q \in 1 .. p - 1 : g[q] < g[p]
<1> DEFINE Tops(n) == {p \in 1 .. n : \A q \in 1 .. n : g[q] <= g[p]}
<1>1. Tops(l) # {}
  <2> SUFFICES ASSUME Tops(l) = {} PROVE FALSE
    OBVIOUS
  <2> DEFINE N == {n \in 1 .. l : Tops(n) = {}}
  <2>1. N \subseteq Nat /\ l \in N
    OBVIOUS
  <2> HIDE DEF N
  <2>2. PICK n \in N : \A x \in N : n <= x
    BY <2>1, Smallest
  <2>3. n \in 1 .. l /\ Tops(n) = {}
    BY <2>2 DEF N
  <2>4. n # 1
    <3>1. 1 \in Tops(1)
      OBVIOUS
    <3> QED BY <2>3, <3>1
  <2>5. n - 1 \in 1 .. l /\ n - 1 \notin N
    BY <2>1, <2>2, <2>3, <2>4
  <2>6. PICK p \in 1 .. n - 1 : \A q \in 1 .. n - 1 : g[q] <= g[p]
    BY <2>5 DEF N
  <2>7. p \in 1 .. l /\ g[p] \in Nat /\ g[n] \in Nat
    BY <2>3, <2>5
  <2>8. CASE g[n] <= g[p]
    <3>1. \A q \in 1 .. n : q = n \/ q \in 1 .. n - 1
      BY <2>3
    <3>2. p \in Tops(n)
      BY <2>3, <2>6, <2>8, <3>1
    <3> QED BY <2>3, <3>2
  <2>9. CASE g[p] < g[n]
    <3>1. ASSUME NEW q \in 1 .. n PROVE g[q] <= g[n]
      <4>1. q \in 1 .. l /\ g[q] \in Nat
        BY <2>3
      <4>2. CASE q = n
        BY <2>7, <4>2
      <4>3. CASE q # n
        <5>1. q \in 1 .. n - 1
          BY <2>3, <4>3
        <5> QED BY <2>6, <2>7, <2>9, <4>1, <5>1
      <4> QED BY <4>2, <4>3
    <3>2. n \in Tops(n)
      BY <2>3, <3>1
    <3> QED BY <2>3, <3>2
  <2> QED BY <2>7, <2>8, <2>9
<1>2. Tops(l) \subseteq Nat
  OBVIOUS
<1> HIDE DEF Tops
<1>3. PICK p \in Tops(l) : \A x \in Tops(l) : p <= x
  BY <1>1, <1>2, Smallest
<1>4. p \in 1 .. l /\ \A q \in 1 .. l : g[q] <= g[p]
  BY DEF Tops
<1>5. ASSUME NEW q \in 1 .. p - 1 PROVE g[q] < g[p]
  <2>1. q \in 1 .. l /\ ~(p <= q)
    BY <1>4
  <2>2. q \notin Tops(l)
    BY <1>3, <2>1
  <2>3. PICK r \in 1 .. l : ~(g[r] <= g[q])
    BY <2>1, <2>2 DEF Tops
  <2>4. g[r] \in Nat /\ g[q] \in Nat /\ g[p] \in Nat /\ g[r] <= g[p]
    BY <1>4, <2>1
  <2> QED BY <2>3, <2>4
<1> QED BY <1>4, <1>5

LEMMA StartTransformsKeeps ==
  ASSUME SelectionInv, StartTransforms
  PROVE  SelectionInv'
<1> DEFINE l == Len(segment)
           image(n, p) == Transforms[n][segment[p]]
           pos(n) == CHOOSE p \in DOMAIN segment :
                       /\ \A q \in DOMAIN segment : image(n, q) <= image(n, p)
                       /\ \A q \in 1 .. p - 1 : image(n, q) < image(n, p)
<1>1. /\ step = "start" /\ method = "ntrans" /\ l > FEATURE_NUM
      /\ feature' = [n \in 1 .. FEATURE_NUM |-> segment[pos(n)]]
      /\ step' = "done" /\ method' = method /\ segment' = segment
      /\ candidates' = candidates /\ startPos' = startPos /\ UNCHANGED callVars
  BY DEF StartTransforms, partVars
<1>2. /\ segment \in Seq(Chunks) /\ FEATURE_NUM \in Nat \ {0} /\ l \in Nat /\ l # 0
      /\ DOMAIN segment = 1 .. l /\ \A p \in 1 .. l : segment[p] \in Chunks
  BY <1>1, SelectionAssumption DEF SelectionInv, SelectionTypes
<1>3. ASSUME NEW n \in 1 .. FEATURE_NUM
      PROVE  /\ pos(n) \in 1 .. l
             /\ \A q \in 1 .. l : image(n, q) <= image(n, pos(n))
  <2>1. \A p \in 1 .. l : image(n, p) \in Nat
    <3>1. \A v \in Chunks : Transforms[n][v] \in Nat
      BY ClientAssumption, SelectionAssumption
    <3> QED BY <1>2, <3>1
  <2> DEFINE g == [p \in 1 .. l |-> image(n, p)]
  <2>2. g \in [1 .. l -> Nat] /\ \A p \in 1 .. l : g[p] = image(n, p)
    BY <2>1
  <2> HIDE DEF g, l
  <2>3. PICK p \in 1 .. l : /\ \A q \in 1 .. l : g[q] <= g[p]
                            /\ \A q \in 1 .. p - 1 : g[q] < g[p]
    BY <1>2, <2>2, FirstGreatest
  <2>4. \A q \in 1 .. p - 1 : q \in 1 .. l
    BY <1>2
  <2> HIDE DEF image
  <2>5. \E r \in DOMAIN segment : /\ \A q \in DOMAIN segment : image(n, q) <= image(n, r)
                                  /\ \A q \in 1 .. r - 1 : image(n, q) < image(n, r)
    BY <1>2, <2>2, <2>3, <2>4
  <2>6. /\ pos(n) \in DOMAIN segment
        /\ \A q \in DOMAIN segment : image(n, q) <= image(n, pos(n))
    BY <2>5
  <2> QED BY <1>2, <2>6
<1> HIDE DEF pos, l
<1>4. feature' \in Seq(Chunks) /\ Len(feature') = FEATURE_NUM /\ DOMAIN feature' = 1 .. FEATURE_NUM
  <2>1. \A n \in 1 .. FEATURE_NUM : segment[pos(n)] \in Chunks
    BY <1>2, <1>3
  <2> QED BY <1>1, <1>2, <2>1
<1>5. SelectionTypes'
  BY <1>1, <1>2, <1>4 DEF SelectionInv, SelectionTypes, callVars
<1>6. ASSUME NEW n \in 1 .. FEATURE_NUM, NEW v \in ToSet(segment)
      PROVE  Transforms[n][v] <= Transforms[n][feature'[n]]
  <2>1. PICK p \in 1 .. l : v = segment[p]
    BY <1>2 DEF ToSet
  <2>2. feature'[n] = segment[pos(n)]
    BY <1>1
  <2> QED BY <1>3, <2>1, <2>2
<1>7. FeaturesAreSmallest'
  <2>1. Len(segment') > FEATURE_NUM /\ ~(Len(segment') < FEATURE_NUM)
    BY <1>1, <1>2 DEF l
  <2> QED BY <1>1, <1>4, <1>6, <2>1 DEF FeaturesAreSmallest
<1> QED BY <1>1, <1>5, <1>7 DEF SelectionInv, Partly, Looking, Searched, Searching, Parted

LEMMA CopyCandidateKeeps ==
  ASSUME SelectionInv, Copy, dst = "candidates"
  PROVE  SelectionInv'
<1> DEFINE l == Len(segment)
           c == Len(candidates)
<1>1. /\ step = "copy" /\ method' = method /\ segment' = segment /\ startPos' = startPos
      /\ feature' = feature /\ candidates' = Append(candidates, buf[1]) /\ step' = "start"
      /\ src' = <<>> /\ dst' = "feature"
      /\ buf' = <<>> /\ frame' = NoFrame /\ tmp' = 0 /\ position' = 0 /\ i' = 0
  BY DEF Copy
<1>2. /\ segment \in Seq(Chunks) /\ l \in Nat /\ startPos \in Nat
      /\ candidates \in Seq(Chunks) /\ c \in Nat /\ buf \in Seq(Chunks) /\ src \in Seq(Chunks)
      /\ Partly /\ Searched /\ CANDIDATES \in Nat
  BY SelectionAssumption DEF SelectionInv, SelectionTypes
<1>3. /\ method = "cdmink" /\ c < CANDIDATES
      /\ startPos < l => c + 1 < CANDIDATES
      /\ src \in PartsByContent
      /\ l < SEGMENT_MAX =>
           \E a \in 0 .. startPos : src = SubSeq(segment, a + 1, startPos) /\ Covered(candidates, a)
      /\ l > FEATURE_NUM /\ Len(src) >= 1
      /\ startPos \in Ends
      /\ \A n \in 1 .. c : \E p \in PartsByContent : candidates[n] = Minimum(p)
  BY <1>1, <1>2 DEF Searched, Partly, Wanted
<1>4. Rearranges(buf, src) /\ FirstSmallest(buf, 1)
  BY <1>1 DEF SelectionInv, Parted, Wanted
<1>5. buf[1] = Minimum(src) /\ buf[1] \in Chunks /\ Len(buf) = Len(src)
  <2>1. Len(buf) = Len(src) /\ buf # <<>> /\ Len(buf) \in Nat
    BY <1>2, <1>3, <1>4 DEF Rearranges
  <2>2. buf \in Seq(Nat) /\ src \in Seq(Nat)
    BY <1>2, ChunksAreNumbers
  <2>3. buf[1] \in Chunks
    BY <1>2, <2>1
  <2> QED BY <1>4, <2>1, <2>2, <2>3, FirstIsMinimum
<1>6. /\ candidates' \in Seq(Chunks) /\ Len(candidates') = c + 1
      /\ candidates'[c + 1] = Minimum(src)
      /\ \A n \in 1 .. c : candidates'[n] = candidates[n]
  BY <1>1, <1>2, <1>5
<1>7. /\ Ends' = Ends /\ PartsByContent' = PartsByContent
  BY <1>1, SegmentSame
<1>8. SelectionTypes'
  <2>1. frame' \in [off : Nat, num : Nat, k : Nat] /\ frame'.off + frame'.num <= Len(buf')
    BY <1>1 DEF NoFrame
  <2>2. Len(candidates') <= CANDIDATES
    BY <1>2, <1>3, <1>6
  <2> QED BY <1>1, <1>6, <2>1, <2>2 DEF SelectionInv, SelectionTypes
<1>9. Partly'
  <2>1. ASSUME NEW n \in 1 .. c + 1
        PROVE  \E p \in PartsByContent : candidates'[n] = Minimum(p)
    <3>1. n = c + 1 \/ n \in 1 .. c
      BY <1>2
    <3> QED BY <1>3, <1>6, <3>1
  <2>2. \A n \in 1 .. Len(candidates') : \E p \in PartsByContent' : candidates'[n] = Minimum(p)
    BY <1>6, <1>7, <2>1
  <2>3. startPos' \in Ends'
    BY <1>1, <1>3, <1>7
  <2>4. Len(feature') < FEATURE_NUM /\ feature' = <<>>
    BY <1>1, <1>2, <1>3 DEF Partly
  <2> QED BY <1>1, <1>3, <2>2, <2>3, <2>4 DEF Partly
<1>10. Looking'
  <2>1. startPos' < Len(segment') => Len(candidates') < CANDIDATES
    BY <1>1, <1>3, <1>6
  <2>2. ASSUME l < SEGMENT_MAX PROVE Covered(candidates, startPos)'
    <3>1. PICK a \in 0 .. startPos : src = SubSeq(segment, a + 1, startPos) /\ Covered(candidates, a)
      BY <1>3, <2>2
    <3>2. startPos <= l
      BY <1>2, <1>3 DEF Ends
    <3>3. a < startPos
      <4>1. CASE a = startPos
        <5>1. SubSeq(segment, startPos + 1, startPos) = <<>>
          BY <1>2
        <5>2. src = <<>>
          BY <3>1, <4>1, <5>1
        <5>3. Len(<<>>) = 0
          OBVIOUS
        <5> QED BY <1>3, <5>2, <5>3
      <4> QED BY <1>2, <4>1
    <3>4. \A p \in a + 1 .. startPos : Minimum(src) <= segment[p]
      <4>1. a \in Nat /\ startPos \in Nat /\ src = SubSeq(segment, a + 1, startPos)
            /\ segment \in Seq(Chunks) /\ startPos <= Len(segment)
        BY <1>2, <3>1, <3>2
      <4> QED BY <3>3, <4>1, MinimumOfPart
    <3>5. ASSUME NEW p \in 1 .. startPos PROVE \E q \in 1 .. c + 1 : candidates'[q] <= segment[p]
      <4>1. CASE p \in 1 .. a
        <5>1. PICK q \in 1 .. c : candidates[q] <= segment[p]
          BY <3>1, <4>1 DEF Covered
        <5>2. q \in 1 .. c + 1
          BY <1>2
        <5> QED BY <1>6, <5>1, <5>2
      <4>2. CASE p \notin 1 .. a
        <5>1. p \in a + 1 .. startPos /\ c + 1 \in 1 .. c + 1
          BY <1>2, <4>2
        <5> QED BY <1>6, <3>4, <5>1
      <4> QED BY <4>1, <4>2
    <3> QED BY <1>1, <1>6, <3>5 DEF Covered
  <2> QED BY <1>1, <2>1, <2>2 DEF Looking
<1> QED BY <1>1, <1>8, <1>9, <1>10 DEF SelectionInv, Searched, Searching, Parted,
                                       FeaturesAreSmallest

(* What is common to the two ways of copying a feature.                    *)
LEMMA CopyFacts ==
  ASSUME SelectionInv, Copy, dst # "candidates"
  PROVE  /\ step = "copy" /\ method' = method /\ segment' = segment /\ startPos' = startPos
         /\ candidates' = candidates
         /\ feature' = feature \o SubSeq(buf, 1, IF method = "finesse" THEN 1 ELSE FEATURE_NUM)
         /\ step' = (IF Len(feature') < FEATURE_NUM THEN "start" ELSE "done")
         /\ segment \in Seq(Chunks) /\ segment \in Seq(Nat) /\ segment # <<>>
         /\ Len(segment) \in Nat /\ Len(segment) > FEATURE_NUM /\ FEATURE_NUM \in Nat \ {0}
         /\ feature \in Seq(Chunks) /\ Len(feature) < FEATURE_NUM
         /\ Partly /\ Searched /\ dst = "feature"
         /\ buf \in Seq(Chunks) /\ buf \in Seq(Nat) /\ src \in Seq(Nat)
         /\ Rearranges(buf, src) /\ FirstSmallest(buf, Wanted) /\ Len(buf) = Len(src)
         /\ Wanted = (IF method = "finesse" THEN 1 ELSE FEATURE_NUM) /\ Wanted \in 1 .. Len(buf)
         /\ (feature' \in Seq(Chunks) /\ Len(feature') <= FEATURE_NUM => SelectionTypes')
<1>1. /\ step = "copy" /\ method' = method /\ segment' = segment /\ startPos' = startPos
      /\ candidates' = candidates
      /\ feature' = feature \o SubSeq(buf, 1, IF method = "finesse" THEN 1 ELSE FEATURE_NUM)
      /\ step' = (IF Len(feature') < FEATURE_NUM THEN "start" ELSE "done")
      /\ src' = <<>> /\ dst' = "feature"
      /\ buf' = <<>> /\ frame' = NoFrame /\ tmp' = 0 /\ position' = 0 /\ i' = 0
  BY DEF Copy
<1>2. /\ segment \in Seq(Chunks) /\ segment \in Seq(Nat) /\ Len(segment) \in Nat
      /\ FEATURE_NUM \in Nat \ {0} /\ feature \in Seq(Chunks) /\ Partly /\ Searched
      /\ dst = "feature" /\ buf \in Seq(Chunks) /\ src \in Seq(Chunks)
      /\ buf \in Seq(Nat) /\ src \in Seq(Nat)
  BY ChunksAreNumbers, SelectionAssumption DEF SelectionInv, SelectionTypes
<1>3. Len(segment) > FEATURE_NUM /\ Len(feature) < FEATURE_NUM /\ Len(src) >= Wanted
  BY <1>1, <1>2 DEF Partly, Searched
<1>4. Rearranges(buf, src) /\ FirstSmallest(buf, Wanted) /\ Len(buf) = Len(src)
  BY <1>1 DEF SelectionInv, Parted, Rearranges
<1>5. Wanted = (IF method = "finesse" THEN 1 ELSE FEATURE_NUM) /\ Wanted \in 1 .. Len(buf)
  <2>1. Wanted = (IF method = "finesse" THEN 1 ELSE FEATURE_NUM)
    BY <1>2 DEF Wanted
  <2>2. Wanted \in Nat /\ Wanted >= 1
    BY <1>2, <2>1
  <2> QED BY <1>2, <1>3, <1>4, <2>1, <2>2
<1>6. ASSUME feature' \in Seq(Chunks), Len(feature') <= FEATURE_NUM PROVE SelectionTypes'
  <2>1. frame' \in [off : Nat, num : Nat, k : Nat] /\ frame'.off + frame'.num <= Len(buf')
    BY <1>1 DEF NoFrame
  <2> QED BY <1>1, <1>6, <2>1 DEF SelectionInv, SelectionTypes
<1>7. segment # <<>>
  BY <1>2, <1>3
<1> QED BY <1>1, <1>2, <1>3, <1>4, <1>5, <1>6, <1>7

LEMMA ConcatOne ==
  ASSUME NEW S, NEW a \in Seq(S), NEW g \in Seq(S), Len(g) = 1
  PROVE  /\ a \o g \in Seq(S) /\ Len(a \o g) = Len(a) + 1 /\ (a \o g)[Len(a) + 1] = g[1]
         /\ \A r \in 1 .. Len(a) : (a \o g)[r] = a[r]
<1>1. a \o g \in Seq(S) /\ Joins(a \o g, a, g)
  BY ConcatParts
<1>2. Len(a) \in Nat /\ 1 \in 1 .. Len(g)
  OBVIOUS
<1> QED BY <1>1, <1>2 DEF Joins

(* The smallest fingerprint of one more part.                              *)
LEMMA CopyMinimumKeeps ==
  ASSUME SelectionInv, Copy, dst # "candidates", method = "finesse"
  PROVE  SelectionInv'
<1> DEFINE l == Len(segment)
           n == Len(feature)
<1>1. /\ step = "copy" /\ method' = method /\ segment' = segment
      /\ feature' = feature \o SubSeq(buf, 1, 1)
      /\ step' = (IF Len(feature') < FEATURE_NUM THEN "start" ELSE "done")
      /\ segment \in Seq(Chunks) /\ segment # <<>>
      /\ l \in Nat /\ l > FEATURE_NUM /\ FEATURE_NUM \in Nat \ {0}
      /\ feature \in Seq(Chunks) /\ n < FEATURE_NUM
      /\ Partly /\ Searched /\ dst = "feature"
      /\ buf \in Seq(Chunks) /\ buf \in Seq(Nat) /\ src \in Seq(Nat)
      /\ Rearranges(buf, src) /\ FirstSmallest(buf, 1) /\ 1 \in 1 .. Len(buf)
      /\ (feature' \in Seq(Chunks) /\ Len(feature') <= FEATURE_NUM => SelectionTypes')
  BY CopyFacts
<1>2. src = Part(n) /\ n \in 0 .. FEATURE_NUM - 1
  BY <1>1 DEF Searched
<1>3. buf[1] = Minimum(Part(n)) /\ buf[1] \in Chunks /\ Len(buf) \in Nat
  <2>1. buf # <<>> /\ buf[1] \in Chunks /\ Len(buf) \in Nat
    BY <1>1
  <2> QED BY <1>1, <1>2, <2>1, FirstIsMinimum
<1>4. /\ feature' \in Seq(Chunks) /\ Len(feature') = n + 1
      /\ feature'[n + 1] = Minimum(Part(n))
      /\ \A r \in 1 .. n : feature'[r] = feature[r]
  <2>1. PICK g : g = SubSeq(buf, 1, 1)
    OBVIOUS
  <2>2. Len(buf) \in Nat /\ 1 <= Len(buf) /\ buf \in Seq(Chunks)
    BY <1>1, <1>3
  <2>3. g \in Seq(Chunks) /\ Len(g) = 1 /\ g[1] = buf[1]
    BY <2>1, <2>2
  <2>4. feature' = feature \o g /\ feature \in Seq(Chunks) /\ n \in Nat
    BY <1>1, <2>1
  <2> HIDE DEF n
  <2>5. feature \o g \in Seq(Chunks) /\ Len(feature \o g) = n + 1
        /\ (feature \o g)[n + 1] = g[1] /\ \A r \in 1 .. n : (feature \o g)[r] = feature[r]
    BY <2>3, <2>4, ConcatOne DEF n
  <2> QED BY <1>3, <2>3, <2>4, <2>5
<1>5. /\ \A r \in 1 .. n : feature[r] = Minimum(Part(r - 1))
      /\ Covered(feature, EndOfParts(n))
  BY <1>1 DEF Partly
<1>6. \A r \in 1 .. n + 1 : feature'[r] = Minimum(Part(r - 1))
  <2>1. ASSUME NEW r \in 1 .. n + 1 PROVE feature'[r] = Minimum(Part(r - 1))
    <3>1. CASE r = n + 1
      <4>1. r - 1 = n
        BY <1>2, <3>1
      <4> QED BY <1>4, <3>1, <4>1
    <3>2. CASE r # n + 1
      <4>1. r \in 1 .. n
        BY <1>2, <3>2
      <4> QED BY <1>4, <1>5, <4>1
    <3> QED BY <3>1, <3>2
  <2> QED BY <2>1
<1>7. /\ EndOfParts(n) \in Nat /\ EndOfParts(n + 1) \in Nat
      /\ EndOfParts(n) < EndOfParts(n + 1) /\ EndOfParts(n + 1) <= l
      /\ Part(n) = SubSeq(segment, EndOfParts(n) + 1, EndOfParts(n + 1))
  BY <1>1, <1>2, PartIs
<1>8. \A p \in EndOfParts(n) + 1 .. EndOfParts(n + 1) : Minimum(Part(n)) <= segment[p]
  BY <1>1, <1>7, MinimumOfPart
<1>14. PICK m \in Nat : m = n + 1
  BY <1>2
<1>9. Covered(feature, EndOfParts(m))'
  <2>1. ASSUME NEW p \in 1 .. EndOfParts(n + 1)
        PROVE  \E q \in 1 .. n + 1 : feature'[q] <= segment[p]
    <3>1. CASE p \in 1 .. EndOfParts(n)
      <4>1. PICK q \in 1 .. n : feature[q] <= segment[p]
        BY <1>5, <3>1 DEF Covered
      <4>2. q \in 1 .. n + 1
        BY <1>2
      <4> QED BY <1>4, <4>1, <4>2
    <3>2. CASE p \notin 1 .. EndOfParts(n)
      <4>1. p \in EndOfParts(n) + 1 .. EndOfParts(n + 1) /\ n + 1 \in 1 .. n + 1
        BY <1>2, <1>7, <3>2
      <4> QED BY <1>4, <1>8, <4>1
    <3> QED BY <3>1, <3>2
  <2>2. EndOfParts(m)' = EndOfParts(m)
    BY <1>1, SegmentSame
  <2> QED BY <1>1, <1>4, <1>14, <2>1, <2>2 DEF Covered
<1>10. Len(feature') \in Nat /\ Len(feature') <= FEATURE_NUM /\ SelectionTypes'
  BY <1>1, <1>2, <1>4
<1>11. \A r : Part(r)' = Part(r)
  BY <1>1, SegmentSame
<1>12. CASE Len(feature') < FEATURE_NUM
  <2>1. Partly'
    <3>1. Covered(feature, EndOfParts(Len(feature)))'
      BY <1>4, <1>9, <1>14
    <3> QED BY <1>1, <1>4, <1>6, <1>11, <1>12, <3>1 DEF Partly
  <2> QED BY <1>1, <1>10, <1>12, <2>1 DEF SelectionInv, Looking, Searched, Searching, Parted,
                                         FeaturesAreSmallest
<1>13. CASE ~(Len(feature') < FEATURE_NUM)
  <2>1. n + 1 = FEATURE_NUM /\ DOMAIN feature' = 1 .. n + 1
    BY <1>1, <1>2, <1>4, <1>13
  <2>2. PICK s \in Seq(Chunks) : s = feature'
    BY <1>4
  <2>3. s \in Seq(Nat) /\ Len(s) = n + 1
    BY <1>4, <2>2, ChunksAreNumbers
  <2>4. ToSet(s) \subseteq ToSet(segment)
    <3>1. ASSUME NEW v \in ToSet(s) PROVE v \in ToSet(segment)
      <4>1. PICK r \in 1 .. n + 1 : v = Minimum(Part(r - 1))
        BY <1>6, <2>1, <2>2 DEF ToSet
      <4>2. r - 1 \in 0 .. FEATURE_NUM - 1
        BY <1>2, <2>1
      <4>3. PICK a \in Nat, b \in Nat : a < b /\ b <= l /\ Part(r - 1) = SubSeq(segment, a + 1, b)
        BY <1>1, <4>2, PartIs
      <4> QED BY <1>1, <4>1, <4>3, MinimumOfPart
    <3> QED BY <3>1
  <2>5. Covered(s, l)
    <3>1. EndOfParts(m)' = l
      BY <1>1, <1>14, <2>1 DEF EndOfParts
    <3> QED BY <1>1, <1>9, <2>2, <3>1 DEF Covered
  <2>6. Minimum(segment) \in ToSet(s)
    BY <1>1, <2>3, <2>4, <2>5, CoveredMinimum
  <2>7. FeaturesAreSmallest'
    BY <1>1, <1>4, <1>6, <1>11, <2>1, <2>2, <2>6 DEF FeaturesAreSmallest
  <2>8. step' = "done"
    BY <1>1, <1>13
  <2> QED BY <1>10, <2>7, <2>8 DEF SelectionInv, Partly, Looking, Searched, Searching, Parted
<1> QED BY <1>12, <1>13

(* The smallest ones of all.                                               *)
LEMMA CopySmallestKeeps ==
  ASSUME SelectionInv, Copy, dst # "candidates", method # "finesse"
  PROVE  SelectionInv'
<1> DEFINE l == Len(segment)
           f == SubSeq(buf, 1, FEATURE_NUM)
<1>1. /\ step = "copy" /\ method' = method /\ segment' = segment
      /\ feature' = feature \o f
      /\ step' = (IF Len(feature') < FEATURE_NUM THEN "start" ELSE "done")
      /\ segment \in Seq(Chunks) /\ segment \in Seq(Nat) /\ segment # <<>>
      /\ l \in Nat /\ l > FEATURE_NUM /\ FEATURE_NUM \in Nat \ {0}
      /\ Partly /\ Searched /\ dst = "feature"
      /\ buf \in Seq(Chunks) /\ buf \in Seq(Nat) /\ src \in Seq(Nat)
      /\ Rearranges(buf, src) /\ FirstSmallest(buf, FEATURE_NUM) /\ FEATURE_NUM \in 1 .. Len(buf)
      /\ (feature' \in Seq(Chunks) /\ Len(feature') <= FEATURE_NUM => SelectionTypes')
  BY CopyFacts
<1>2. feature = <<>>
  BY <1>1 DEF Partly
<1>3. f \in Seq(Chunks) /\ Len(f) = FEATURE_NUM /\ DOMAIN f = 1 .. FEATURE_NUM
  BY <1>1
<1>4. feature' = f
  <2> HIDE DEF f
  <2> QED BY <1>1, <1>2, <1>3, ConcatEmpty
<1>5. /\ f \in Seq(Nat) /\ Len(f) = FEATURE_NUM /\ ToSet(f) \subseteq ToSet(src)
      /\ \A v \in ToSet(src), x \in ToSet(f) : v < x => Count(f, v) = Count(src, v)
      /\ \A v \in ToSet(src) : \E n \in 1 .. FEATURE_NUM : f[n] <= v
  <2>1. PICK g : g = f
    OBVIOUS
  <2>2. g = SubSeq(buf, 1, FEATURE_NUM)
    BY <2>1
  <2> HIDE DEF f
  <2>3. /\ g \in Seq(Nat) /\ Len(g) = FEATURE_NUM /\ ToSet(g) \subseteq ToSet(src)
        /\ \A v \in ToSet(src), x \in ToSet(g) : v < x => Count(g, v) = Count(src, v)
        /\ \A v \in ToSet(src) : \E n \in 1 .. FEATURE_NUM : g[n] <= v
    <3>1. /\ buf \in Seq(Nat) /\ src \in Seq(Nat) /\ Rearranges(buf, src)
          /\ FirstSmallest(buf, FEATURE_NUM) /\ FEATURE_NUM \in 1 .. Len(buf)
      BY <1>1
    <3>2. SmallestOf(g, src, FEATURE_NUM)
      BY <2>2, <3>1, FirstAreSmallest
    <3> QED BY <3>2 DEF SmallestOf
  <2> QED BY <2>1, <2>3
<1> HIDE DEF f
<1>6. step' = "done" /\ SelectionTypes'
  BY <1>1, <1>3, <1>4
<1>7. /\ ~(l < FEATURE_NUM) /\ Len(segment') = l
  BY <1>1
<1>8. CASE method = "mink"
  <2>1. src = segment
    BY <1>1, <1>8 DEF Searched
  <2>2. Minimum(segment) \in ToSet(f)
    BY <1>1, <1>5, <2>1, MinimumCovered
  <2>3. \A v \in ToSet(segment'), w \in ToSet(feature') :
                  v < w => Count(feature', v) = Count(segment', v)
    BY <1>1, <1>4, <1>5, <2>1
  <2>4. FeaturesAreSmallest'
    BY <1>1, <1>3, <1>4, <1>7, <1>8, <2>2, <2>3 DEF FeaturesAreSmallest
  <2> QED BY <1>6, <2>4 DEF SelectionInv, Partly, Looking, Searched, Searching, Parted
<1>9. CASE method # "mink"
  <2>1. method = "cdmink" /\ src = candidates /\ (l < SEGMENT_MAX => Covered(candidates, l))
    BY <1>1, <1>9 DEF Searched
  <2>2. \A n \in 1 .. Len(src) : \E p \in PartsByContent : src[n] = Minimum(p)
    BY <1>1, <2>1 DEF Partly
  <2>3. ASSUME NEW n \in 1 .. FEATURE_NUM PROVE \E p \in PartsByContent : f[n] = Minimum(p)
    <3>1. f[n] \in ToSet(src)
      <4>1. f[n] \in ToSet(f)
        BY <1>3 DEF ToSet
      <4> QED BY <1>5, <4>1
    <3>2. DOMAIN src = 1 .. Len(src)
      BY <1>1
    <3>3. PICK m \in 1 .. Len(src) : f[n] = src[m]
      BY <3>1, <3>2 DEF ToSet
    <3> QED BY <2>2, <3>3
  <2>4. l = SEGMENT_MAX \/ Minimum(segment) \in ToSet(f)
    <3> SUFFICES ASSUME l < SEGMENT_MAX PROVE Minimum(segment) \in ToSet(f)
      <4>1. l <= SEGMENT_MAX /\ SEGMENT_MAX \in Nat /\ l \in Nat
        BY <1>1, SelectionAssumption DEF SelectionInv, SelectionTypes
      <4> QED BY <4>1
    <3>1. ToSet(f) \subseteq ToSet(segment)
      BY <1>1, <1>3, <1>5, <2>3, CandidatesAre
    <3>2. Covered(f, l)
      <4>1. ASSUME NEW p \in 1 .. l PROVE \E n \in 1 .. FEATURE_NUM : f[n] <= segment[p]
        <5>1. PICK q \in 1 .. Len(src) : src[q] <= segment[p]
          BY <2>1 DEF Covered
        <5>2. src[q] \in ToSet(src) /\ src[q] \in Nat
          <6>1. DOMAIN src = 1 .. Len(src) /\ Len(src) \in Nat /\ src \in Seq(Nat)
            BY <1>1
          <6>2. src[q] \in Nat
            BY <6>1
          <6> QED BY <6>1, <6>2 DEF ToSet
        <5>3. PICK n \in 1 .. FEATURE_NUM : f[n] <= src[q]
          BY <1>5, <5>2
        <5>4. f[n] \in Nat /\ segment[p] \in Nat
          <6>1. segment \in Seq(Nat) /\ f \in Seq(Nat) /\ n \in 1 .. Len(f) /\ p \in 1 .. Len(segment)
            BY <1>1, <1>5
          <6> QED BY <6>1
        <5> QED BY <5>1, <5>2, <5>3, <5>4
      <4> QED BY <1>3, <4>1 DEF Covered
    <3> QED BY <1>1, <1>5, <3>1, <3>2, CoveredMinimum
  <2>5. PartsByContent' = PartsByContent
    BY <1>1, SegmentSame
  <2>6. FeaturesAreSmallest'
    BY <1>1, <1>3, <1>4, <1>7, <2>1, <2>3, <2>4, <2>5 DEF FeaturesAreSmallest
  <2> QED BY <1>6, <2>6 DEF SelectionInv, Partly, Looking, Searched, Searching, Parted
<1> QED BY <1>8, <1>9

LEMMA SelectionKeeps ==
  ASSUME SelectionInv, GenerateFeature
  PROVE  SelectionInv'
<1>1. CASE Copy
  BY <1>1, CopyCandidateKeeps, CopyMinimumKeeps, CopySmallestKeeps
<1> QED BY <1>1, StartShortKeeps, StartPartKeeps, StartCandidateKeeps, ChooseCandidatesKeeps,
           StartTransformsKeeps, ScanKeeps, SplitKeeps DEF GenerateFeature

-----------------------------------------------------------------------------
(*                           The whole client                              *)

(* What every step of the client keeps: what is left of the folder are      *)
(* traces, and each layer has its invariant.                               *)
ClientInv == folder \in Seq(Traces) /\ SegmenterInv /\ SelectionInv /\ CacheInv

(* Each conjunct of what the run checks follows.                           *)
LEMMA ClientInvIs ==
  ClientInv => Inv /\ NothingLost /\ CutByContent /\ FeaturesAreSmallest
BY SegmenterInvIs, SelectionInvIs DEF ClientInv, Inv, CacheInv

LEMMA ClientStarts == Init => ClientInv
<1>1. Init => folder \in Seq(Traces)
  BY ClientAssumption DEF Init
<1>2. Init => SelectionInit /\ CacheInit
  BY DEF Init
<1> QED BY <1>1, <1>2, SegmenterStarts, SelectionStarts, CacheStarts DEF ClientInv

(* Only a step of the cache's own, or one that leaves it, is a step of      *)
(* the abstract one, and nothing else is.                                  *)
AsLruSet == [Abstract!Next]_(Abstract!vars)

LEMMA CacheUnchanged ==
  ASSUME CacheInv, UNCHANGED cacheVars
  PROVE  CacheInv' /\ AsLruSet
<1>1. list' = list /\ mem' = mem /\ todo' = todo
  BY DEF cacheVars
<1>2. UNCHANGED Abstract!vars
  BY <1>1 DEF Abstract!vars
<1> QED BY <1>1, <1>2, CacheStutter DEF AsLruSet

(* A new segment is what features are selected of next.                    *)
LEMMA CutSegmentSelects ==
  ASSUME SegmenterInv, SelectionInv, CutSegment
  PROVE  SegmenterInv' /\ SelectionInv'
<1>1. /\ NewMessageSegment
      /\ IF segments' = segments THEN UNCHANGED selectionVars ELSE Begin(Last(segments'))
  BY DEF CutSegment
<1>2. SegmenterInv' /\ (segments' = segments \/ segments' = Append(segments, fp))
  BY <1>1, SegmenterKeeps
<1>3. CASE segments' = segments
  BY <1>1, <1>2, <1>3, SelectionStutter
<1>4. CASE segments' # segments
  <2>1. segments \in Seq(Seq(Chunks)) /\ fp \in Seq(Chunks)
    BY DEF SegmenterInv
  <2>2. segments' = Append(segments, fp)
    BY <1>2, <1>4
  <2>3. /\ Len(segments) + 1 \in 1 .. Len(segments') /\ Len(segments') = Len(segments) + 1
        /\ segments'[Len(segments) + 1] = fp
    BY <2>1, <2>2
  <2>4. Last(segments') = fp
    BY <2>3 DEF Last
  <2>5. IsSegment(segments'[Len(segments) + 1])
    BY <1>2, <2>3 DEF SegmenterInv, Cut
  <2>6. Len(fp) \in 1 .. SEGMENT_MAX
    BY <2>3, <2>5, ClientAssumption DEF IsSegment
  <2>7. Begin(fp)
    BY <1>1, <1>4, <2>4
  <2> QED BY <1>2, <2>1, <2>6, <2>7, BeginKeeps
<1> QED BY <1>3, <1>4

LEMMA ClientKeeps ==
  ASSUME ClientInv, [Next]_vars
  PROVE  ClientInv' /\ AsLruSet
<1>0. folder \in Seq(Traces) /\ SegmenterInv /\ SelectionInv /\ CacheInv
  BY DEF ClientInv
<1>1. CASE NextTrace
  <2>1. /\ pc = "done" /\ folder # <<>> /\ Open(Head(folder)) /\ folder' = Tail(folder)
        /\ UNCHANGED selectionVars /\ UNCHANGED cacheVars
    BY <1>1 DEF NextTrace
  <2>2. Head(folder) \in Traces /\ Tail(folder) \in Seq(Traces)
    BY <1>0, <2>1
  <2>3. SegmenterInv'
    BY <1>0, <2>1, <2>2, OpenKeeps
  <2> QED BY <1>0, <2>1, <2>2, <2>3, SelectionStutter, CacheUnchanged DEF ClientInv
<1>2. CASE CutSegment
  <2>1. SegmenterInv' /\ SelectionInv'
    BY <1>0, <1>2, CutSegmentSelects
  <2>2. folder' = folder /\ UNCHANGED cacheVars
    BY <1>2 DEF CutSegment
  <2> QED BY <1>0, <2>1, <2>2, CacheUnchanged DEF ClientInv
<1>3. CASE SelectFeatures
  <2>1. GenerateFeature /\ folder' = folder /\ UNCHANGED segmenterVars /\ UNCHANGED cacheVars
    BY <1>3 DEF SelectFeatures
  <2> QED BY <1>0, <2>1, SegmenterStutter, SelectionKeeps, CacheUnchanged DEF ClientInv
<1>4. CASE RouteHere
  <2>1. Selected /\ Enter(feature) /\ folder' = folder /\ UNCHANGED segmenterVars
    BY <1>4 DEF RouteHere
  <2>2. feature \in Seq(Features)
    <3>1. feature \in Seq(Chunks) /\ Chunks \subseteq Features
      BY <1>0, ClientAssumption DEF SelectionInv, SelectionTypes
    <3> QED BY <3>1, SeqMonotonic
  <2>3. CacheInv' /\ Abstract!Ask
    BY <1>0, <2>1, <2>2, EnterKeeps, EnterAsks
  <2>4. AsLruSet
    BY <2>3 DEF AsLruSet, Abstract!Next
  <2> QED BY <1>0, <2>1, <2>3, <2>4, SegmenterStutter, SelectedKeeps DEF ClientInv
<1>5. CASE RouteElsewhere
  <2>1. Selected /\ folder' = folder /\ UNCHANGED segmenterVars /\ UNCHANGED cacheVars
    BY <1>5 DEF RouteElsewhere
  <2> QED BY <1>0, <2>1, SegmenterStutter, SelectedKeeps, CacheUnchanged DEF ClientInv
<1>6. CASE EnterFeature
  <2>1. UpdateLcache /\ folder' = folder /\ UNCHANGED segmenterVars /\ UNCHANGED selectionVars
    BY <1>6 DEF EnterFeature
  <2>2. CacheInv' /\ Abstract!Use
    BY <1>0, <2>1, UpdateUses
  <2>3. AsLruSet
    BY <2>2 DEF AsLruSet, Abstract!Next
  <2> QED BY <1>0, <2>1, <2>2, <2>3, SegmenterStutter, SelectionStutter DEF ClientInv
<1>7. CASE Exit
  <2>1. FreeCache /\ folder' = folder /\ UNCHANGED segmenterVars /\ UNCHANGED selectionVars
    BY <1>7 DEF Exit
  <2>2. CacheInv' /\ Abstract!Forget
    BY <1>0, <2>1, FreeKeeps, FreeForgets
  <2>3. AsLruSet
    BY <2>2 DEF AsLruSet, Abstract!Next
  <2> QED BY <1>0, <2>1, <2>2, <2>3, SegmenterStutter, SelectionStutter DEF ClientInv
<1>8. CASE UNCHANGED vars
  <2>1. folder' = folder /\ UNCHANGED segmenterVars /\ UNCHANGED selectionVars
        /\ UNCHANGED cacheVars
    BY <1>8 DEF vars
  <2> QED BY <1>0, <2>1, SegmenterStutter, SelectionStutter, CacheUnchanged DEF ClientInv
<1> QED BY <1>1, <1>2, <1>3, <1>4, <1>5, <1>6, <1>7, <1>8 DEF Next

(* The inductive invariant of the client: what has been read, cut and given *)
(* to the cache fits together at every step.                               *)
THEOREM ClientInvariant == Spec => []ClientInv
BY ClientStarts, ClientKeeps, PTL DEF Spec

(* A segment fits its buffer, a selection stays inside its frame and loses  *)
(* nothing although it writes over its pivot's place, and the cache's list  *)
(* and table hold the same blocks, none of them freed.                     *)
THEOREM LayersKeepTheirParts == Spec => []Inv
<1>1. ClientInv => Inv
  BY ClientInvIs
<1> QED BY <1>1, ClientInvariant, PTL

(* The segments of a trace, together with the one being cut, are all the    *)
(* fingerprints read of it, in their order; but for a trace that was cut    *)
(* off inside a path, where a retry may go back: then all that are there    *)
(* come first, and only behind them what was misread.                      *)
THEOREM ClientLosesNothing == Spec => []NothingLost
<1>1. ClientInv => NothingLost
  BY ClientInvIs
<1> QED BY <1>1, ClientInvariant, PTL

(* A segment ends at the first boundary from its minimum on, or at its      *)
(* maximum, or with the trace.                                             *)
THEOREM SegmentsAreCutByContent == Spec => []CutByContent
<1>1. ClientInv => CutByContent
  BY ClientInvIs
<1> QED BY <1>1, ClientInvariant, PTL

(* What each method selects of a segment are the smallest fingerprints of   *)
(* its parts, or of all, or those with the greatest images, for segments    *)
(* of every length and whatever order quick_min_k_fp finds them in.         *)
THEOREM SelectionFindsTheSmallest == Spec => []FeaturesAreSmallest
<1>1. ClientInv => FeaturesAreSmallest
  BY ClientInvIs
<1> QED BY <1>1, ClientInvariant, PTL

(* The cache with its list, its hash table and its blocks of memory         *)
(* implements the set of the features used last.                           *)
THEOREM CacheImplementsLruSet == Spec => ImplementsLruSet
<1>1. Init => Abstract!Init
  BY AbstractInit DEF Init
<1>2. ClientInv /\ [Next]_vars => AsLruSet
  BY ClientKeeps
<1> QED BY <1>1, <1>2, ClientInvariant, PTL DEF Spec, ImplementsLruSet, AsLruSet, Abstract!Spec
=============================================================================
