------------------------- MODULE FeatureIndexProofs -------------------------
(***************************************************************************)
(* Safety of FeatureIndex for any number of connections, features,         *)
(* containers and slots.                                                   *)
(*                                                                         *)
(* The invariants of FeatureIndex are not inductive one by one.  What ties *)
(* them together is ownership: a handler writes a slot of a container that *)
(* no other handler, nor the queue, can reach (OneOwner), the slot lies at *)
(* used_slot, beyond every slot that is a key (KeysBelow), and the feature *)
(* it is writing is absent and stays absent because the writer holds the   *)
(* sub-table's lock (LockInv).  A connection that takes a container has no *)
(* live one, which bounds their number (PoolInv).                          *)
(***************************************************************************)
EXTENDS ClientWiring, FiniteSetTheorems, TLAPS

Holding == {"register", "probe", "link", "bump", "eof_remove", "eof_push"}
Detached == {"idle", "lookup", "match", "copy", "send"}

(* The container a handler works with, by where the handler is.            *)
HandlerInv == \A c \in Conns :
  /\ pc[c] \in Holding =>
       con[c] # None /\ struct[con[c]] = "live" /\ used[con[c]] < GP_SIZE
  /\ pc[c] \in {"probe", "link", "bump", "eof_remove"} => openTable[c] = con[c]
  /\ pc[c] = "eof_push" => openTable[c] = None
  /\ pc[c] = "pop" =>
       /\ openTable[c] = con[c]
       /\ exist[c] <=> con[c] # None
       /\ con[c] # None => struct[con[c]] = "freed"
  /\ pc[c] = "register" =>
       /\ exist[c] <=> openTable[c] # None
       /\ openTable[c] # None => struct[openTable[c]] = "freed"
  /\ pc[c] \in Detached =>
       /\ con[c] = None
       /\ openTable[c] # None =>
            struct[openTable[c]] = "live" /\ used[openTable[c]] < GP_SIZE
  /\ pc[c] \in {"link", "bump"} => todo[c] # <<>>

(* The queue holds live containers with room.                              *)
QueueInv == \A i \in 1 .. Len(conQueue) :
  struct[conQueue[i]] = "live" /\ used[conQueue[i]] < GP_SIZE

UnallocatedInv == \A k \in Containers : struct[k] = "unallocated" => used[k] = 0

(* The writer of a slot holds the lock of its feature, which is absent.     *)
LockInv ==
  /\ \A c \in Conns : pc[c] = "link" =>
       feaLock[SubOf[Head(todo[c])]] = c /\ feaTable[Head(todo[c])] = None
  /\ \A c \in Conns : pc[c] = "bump" =>
       feaTable[Head(todo[c])] = [con |-> con[c], slot |-> used[con[c]]]

(* A key lies below used_slot, or in the slot about to be used up.          *)
KeysBelow == \A f \in Features : feaTable[f] # None =>
  \/ feaTable[f].slot < used[feaTable[f].con]
  \/ \E c \in Conns : /\ pc[c] = "bump" /\ con[c] = feaTable[f].con
                      /\ feaTable[f].slot = used[con[c]]

(* OneOwner, said of the elements instead of sets of them.                  *)
Apart ==
  /\ \A c, d \in Conns : c # d =>
       /\ openTable[c] # None => openTable[c] # openTable[d] /\ openTable[c] # con[d]
       /\ con[c] # None => con[c] # con[d]
  /\ \A i \in 1 .. Len(conQueue), c \in Conns :
       conQueue[i] # openTable[c] /\ conQueue[i] # con[c]
  /\ \A i, j \in 1 .. Len(conQueue) : conQueue[i] = conQueue[j] => i = j

(* The types that ownership depends on.                                    *)
OwnerTypes ==
  /\ openTable \in [Conns -> Containers \cup {None}]
  /\ con \in [Conns -> Containers \cup {None}]
  /\ conQueue \in Seq(Containers)
  /\ struct \in [Containers -> {"unallocated", "live", "freed"}]
  /\ used \in [Containers -> 0 .. GP_SIZE]
  /\ pc \in [Conns -> PCs]
  /\ exist \in [Conns -> BOOLEAN]
  /\ todo \in [Conns -> Seq(Features)]

OwnerInv == TypeOK /\ HandlerInv /\ QueueInv /\ UnallocatedInv /\ Apart
DataInv == LockInv /\ KeysBelow /\ KeysIntact /\ SlotsPacked
IInv == OwnerInv /\ DataInv /\ HeapKeys /\ BestExists

-----------------------------------------------------------------------------
LEMMA ApartIsOneOwner == TypeOK /\ Apart => OneOwner
<1> SUFFICES ASSUME TypeOK, Apart  PROVE  OneOwner
  OBVIOUS
<1>1. \A c, d \in Conns : c # d =>
        {openTable[c], con[c]} \cap {openTable[d], con[d]} \subseteq {None}
  <2> SUFFICES ASSUME NEW c \in Conns, NEW d \in Conns, c # d,
                      NEW k, k \in {openTable[c], con[c]}, k \in {openTable[d], con[d]},
                      k # None
               PROVE  FALSE
    OBVIOUS
  <2> QED
    BY DEF Apart
<1>2. DOMAIN conQueue = 1 .. Len(conQueue)
  BY DEF TypeOK
<1> QED
  BY <1>1, <1>2 DEF Apart, OneOwner

LEMMA HeadTail ==
  ASSUME NEW S, NEW q \in Seq(S), q # <<>>
  PROVE  Head(q) \in S /\ Tail(q) \in Seq(S)
OBVIOUS

(* Each action keeps every variable in its type.                            *)
LEMMA TypeStep == TypeOK /\ HandlerInv /\ Next => TypeOK'
<1> SUFFICES ASSUME TypeOK, HandlerInv, NEW c \in Conns, Receive(c) \/ Proceed(c)
             PROVE  TypeOK'
  BY DEF Next
<1> USE ConstantAssumption DEF TypeOK, PCs, Entry
<1> USE DEF tableVars, openVars, heapVars, queryVars, Goto
<1>1. CASE ReceiveSegment(c)
  BY <1>1 DEF ReceiveSegment
<1>2. CASE LookupOpen(c)
  BY <1>2 DEF LookupOpen
<1>3. CASE PopContainer(c)
  <2>1. CASE conQueue # <<>>
    <3>1. Head(conQueue) \in Containers /\ Tail(conQueue) \in Seq(Containers)
      BY <2>1, HeadTail
    <3>2. /\ pc' = [pc EXCEPT ![c] = "register"]
          /\ con' = [con EXCEPT ![c] = Head(conQueue)]
          /\ conQueue' = Tail(conQueue)
          /\ UNCHANGED <<tableVars, openTable, openKey, heapVars, exist, todo, queryVars>>
      BY <1>3, <2>1 DEF PopContainer, AfterPop
    <3> QED
      BY <3>1, <3>2
  <2>2. CASE conQueue = <<>>
    <3>1. PICK k \in Containers :
            /\ struct' = [struct EXCEPT ![k] = "live"]
            /\ used' = [used EXCEPT ![k] = 0]
            /\ data' = [data EXCEPT ![k] = Unwritten]
            /\ con' = [con EXCEPT ![c] = k]
            /\ UNCHANGED conQueue
      BY <1>3, <2>2 DEF PopContainer
    <3>2. Unwritten \in [Slots -> Features \cup {Zero, Torn}]
      BY DEF Unwritten
    <3>3. 0 \in 0 .. GP_SIZE
      OBVIOUS
    <3> QED
      BY <1>3, <3>1, <3>2, <3>3 DEF PopContainer
  <2> QED
    BY <2>1, <2>2
<1>4. CASE Register(c)
  BY <1>4 DEF Register, GivenKey
<1>5. CASE Probe(c)
  <2>1. /\ con[c] \in Containers /\ used[con[c]] \in Slots
        /\ Head(todo[c]) \in Features /\ Tail(todo[c]) \in Seq(Features)
    BY <1>5, HeadTail DEF Probe, HandlerInv, Holding, Slots
  <2>2. CASE IsThere(Head(todo[c]))
    <3>1. /\ pc' = [pc EXCEPT ![c] = "probe"]
          /\ todo' = [todo EXCEPT ![c] = Tail(todo[c])]
          /\ UNCHANGED <<feaTable, feaLock, openVars, heapVars, con, exist, queryVars>>
      BY <1>5, <2>2 DEF Probe
    <3> QED
      BY <2>1, <3>1
  <2>3. CASE ~IsThere(Head(todo[c]))
    <3>1. /\ pc' = [pc EXCEPT ![c] = "link"]
          /\ feaLock' = [feaLock EXCEPT ![SubOf[Head(todo[c])]] = c]
          /\ data' = [data EXCEPT ![con[c]][used[con[c]]] = Torn]
          /\ UNCHANGED <<feaTable, openVars, struct, used, con, exist, todo, queryVars>>
      BY <1>5, <2>3 DEF Probe
    <3> QED
      BY <2>1, <3>1
  <2> QED
    BY <2>2, <2>3
<1>6. CASE Link(c)
  BY <1>6, HeadTail DEF Link, Released, HandlerInv, Holding, Slots
<1>7. CASE Bump(c)
  <2>1. con[c] \in Containers /\ used[con[c]] + 1 \in 0 .. GP_SIZE
    BY <1>7 DEF Bump, HandlerInv, Holding
  <2>2. Tail(todo[c]) \in Seq(Features)
    BY <1>7, HeadTail DEF Bump, HandlerInv
  <2>3. used' \in [Containers -> 0 .. GP_SIZE] /\ todo' \in [Conns -> Seq(Features)]
    BY <1>7, <2>1, <2>2 DEF Bump, NextSlot
  <2>4. CASE IsFull(used'[con[c]])
    BY <1>7, <2>1, <2>3, <2>4 DEF Bump, AfterFull
  <2>5. CASE ~IsFull(used'[con[c]])
    BY <1>7, <2>1, <2>3, <2>5 DEF Bump
  <2> QED
    BY <2>4, <2>5
<1>8. CASE FinishSegment(c)
  BY <1>8 DEF FinishSegment
<1>9. CASE ReceiveEof(c)
  BY <1>9 DEF ReceiveEof
<1>10. CASE EofRemove(c)
  BY <1>10 DEF EofRemove
<1>11. CASE EofPush(c)
  BY <1>11 DEF EofPush, AfterPush, HandlerInv, Holding
<1>12. CASE ReceiveFeature(c)
  BY <1>12 DEF ReceiveFeature
<1>13. CASE Match(c)
  BY <1>13 DEF Match
<1>14. CASE Decide(c)
  <2>1. /\ pc' \in [Conns -> PCs]
        /\ UNCHANGED <<tableVars, openVars, heapVars, con, exist, todo, promised, cur>>
    BY <1>14 DEF Decide
  <2>2. \/ UNCHANGED gp
        \/ \E k \in Containers \cup {None} :
             gp' = [gp EXCEPT ![c] = [from |-> k, slots |-> <<>>]]
    BY <1>14 DEF Decide
  <2>3. CASE UNCHANGED gp
    BY <2>1, <2>3
  <2>4. CASE ~ UNCHANGED gp
    <3>1. PICK k \in Containers \cup {None} :
            gp' = [gp EXCEPT ![c] = [from |-> k, slots |-> <<>>]]
      BY <2>2, <2>4
    <3>2. [from |-> k, slots |-> <<>>] \in
            [from : Containers \cup {None}, slots : Seq(Features \cup {Zero, Torn})]
      OBVIOUS
    <3>3. gp' \in [Conns -> [from : Containers \cup {None},
                            slots : Seq(Features \cup {Zero, Torn})]]
      BY <3>1, <3>2
    <3> QED
      BY <2>1, <3>3
  <2> QED
    BY <2>3, <2>4
<1>15. CASE CopySlot(c)
  <2>1. SlotReads(gp[c].from, Len(gp[c].slots)) \subseteq Features \cup {Zero, Torn}
    <3>1. \A w \in Conns : pc[w] = "link" => Head(todo[w]) \in Features
      BY HeadTail DEF HandlerInv
    <3>2. gp[c].from \in Containers /\ Len(gp[c].slots) \in Slots
      BY <1>15 DEF CopySlot, SliceLen, Slots
    <3> QED
      BY <3>1, <3>2 DEF SlotReads
  <2>2. PICK v \in SlotReads(gp[c].from, Len(gp[c].slots)) :
          gp' = [gp EXCEPT ![c] = [from |-> gp[c].from, slots |-> Append(gp[c].slots, v)]]
    BY <1>15 DEF CopySlot
  <2>3. Append(gp[c].slots, v) \in Seq(Features \cup {Zero, Torn})
    BY <2>1
  <2>4. gp' \in [Conns -> [from : Containers \cup {None},
                          slots : Seq(Features \cup {Zero, Torn})]]
    BY <2>2, <2>3
  <2>5. /\ pc' \in [Conns -> PCs]
        /\ UNCHANGED <<tableVars, openVars, heapVars, con, exist, todo, promised, cur>>
    BY <1>15 DEF CopySlot
  <2> QED
    BY <2>4, <2>5
<1>16. CASE SendReply(c)
  BY <1>16 DEF SendReply, NoReply, Promises
<1> QED
  BY <1>1, <1>2, <1>3, <1>4, <1>5, <1>6, <1>7, <1>8, <1>9, <1>10, <1>11, <1>12,
     <1>13, <1>14, <1>15, <1>16 DEF Receive, Proceed

-----------------------------------------------------------------------------
(* Nothing points to a struct that was never allocated.                     *)
LEMMA Allocated ==
  ASSUME TypeOK, HandlerInv, NEW c \in Conns
  PROVE  /\ openTable[c] # None => struct[openTable[c]] # "unallocated"
         /\ con[c] # None => struct[con[c]] # "unallocated"
<1> USE ConstantAssumption
<1>0. pc[c] \in PCs
  BY DEF TypeOK
<1>1. CASE pc[c] \in Detached
  BY <1>1 DEF HandlerInv, Detached
<1>2. CASE pc[c] = "pop"
  BY <1>2 DEF HandlerInv
<1>3. CASE pc[c] = "register"
  BY <1>3 DEF HandlerInv, Holding
<1>4. CASE pc[c] \in {"probe", "link", "bump", "eof_remove", "eof_push"}
  BY <1>4 DEF HandlerInv, Holding
<1> QED
  BY <1>0, <1>1, <1>2, <1>3, <1>4 DEF PCs, Detached

(* A container in use belongs to one handler or to the queue, is live, and  *)
(* has room; this is all a handler ever relies on.                          *)
LEMMA OwnerStep == OwnerInv /\ TypeOK' /\ Next =>
                     HandlerInv' /\ QueueInv' /\ UnallocatedInv' /\ Apart'
<1> SUFFICES ASSUME OwnerInv, TypeOK', NEW c \in Conns, Receive(c) \/ Proceed(c)
             PROVE  HandlerInv' /\ QueueInv' /\ UnallocatedInv' /\ Apart'
  BY DEF Next
<1>0. OwnerTypes /\ OwnerTypes'
  BY DEF OwnerInv, TypeOK, OwnerTypes
<1> USE ConstantAssumption, <1>0
<1> USE DEF OwnerInv, OwnerTypes, tableVars, openVars, heapVars, queryVars, Goto
<1>1. CASE ReceiveSegment(c)
  BY <1>1 DEF ReceiveSegment, HandlerInv, QueueInv, UnallocatedInv, Apart, Holding, Detached
<1>2. CASE LookupOpen(c)
  <2>1. /\ pc[c] = "lookup"
        /\ exist' = [exist EXCEPT ![c] = openTable[c] # None]
        /\ con' = [con EXCEPT ![c] = openTable[c]]
        /\ UNCHANGED <<openTable, conQueue, struct, used, todo>>
    BY <1>2 DEF LookupOpen
  <2>2. CASE openTable[c] # None
    <3>1. pc' = [pc EXCEPT ![c] = "probe"]
      BY <1>2, <2>2 DEF LookupOpen
    <3> QED
      BY <2>1, <2>2, <3>1 DEF HandlerInv, QueueInv, UnallocatedInv, Apart, Holding, Detached
  <2>3. CASE openTable[c] = None
    <3>1. pc' = [pc EXCEPT ![c] = "pop"]
      BY <1>2, <2>3 DEF LookupOpen
    <3>2. exist' = [exist EXCEPT ![c] = FALSE]
      <4>1. (openTable[c] # None) = FALSE
        BY <2>3
      <4> QED
        BY <2>1, <4>1, Zenon
    <3>3. /\ con[c] = None /\ con' = con
          /\ con'[c] = None /\ openTable'[c] = None /\ pc'[c] = "pop"
          /\ exist'[c] = FALSE
          /\ \A d \in Conns \ {c} : pc'[d] = pc[d] /\ exist'[d] = exist[d]
      BY <2>1, <2>3, <3>1, <3>2 DEF HandlerInv, Detached
    <3>4. HandlerInv'
      BY <2>1, <3>3 DEF HandlerInv, Holding, Detached
    <3> QED
      BY <2>1, <2>3, <3>1, <3>3, <3>4 DEF QueueInv, UnallocatedInv, Apart
  <2> QED
    BY <2>2, <2>3
<1>3. CASE PopContainer(c)
  <2>1. CASE conQueue # <<>>
    <3>1. /\ pc[c] = "pop"
          /\ pc' = [pc EXCEPT ![c] = "register"]
          /\ con' = [con EXCEPT ![c] = conQueue[1]]
          /\ conQueue' = Tail(conQueue)
          /\ UNCHANGED <<openTable, struct, used, exist, todo>>
      BY <1>3, <2>1 DEF PopContainer, AfterPop
    <3>2. /\ 1 \in 1 .. Len(conQueue)
          /\ Len(conQueue') = Len(conQueue) - 1
          /\ \A i \in 1 .. Len(conQueue') :
               conQueue'[i] = conQueue[i + 1] /\ i + 1 \in 1 .. Len(conQueue)
      BY <2>1, <3>1
    <3>4. QueueInv' /\ UnallocatedInv'
      BY <3>1, <3>2 DEF QueueInv, UnallocatedInv
    <3>5. HandlerInv'
      BY <3>1, <3>2 DEF HandlerInv, QueueInv, Holding, Detached
    <3>6. Apart'
      BY <3>1, <3>2 DEF Apart
    <3> QED
      BY <3>4, <3>5, <3>6
  <2>2. CASE conQueue = <<>>
    <3>1. PICK k \in Containers :
            /\ struct[k] = "unallocated"
            /\ struct' = [struct EXCEPT ![k] = "live"]
            /\ used' = [used EXCEPT ![k] = 0]
            /\ con' = [con EXCEPT ![c] = k]
      BY <1>3, <2>2 DEF PopContainer
    <3>2. /\ pc[c] = "pop"
          /\ pc' = [pc EXCEPT ![c] = "register"]
          /\ UNCHANGED <<openTable, conQueue, exist, todo>>
      BY <1>3, <2>2 DEF PopContainer
    <3>3. QueueInv' /\ UnallocatedInv'
      BY <3>1, <3>2 DEF QueueInv, UnallocatedInv
    <3>4. \A d \in Conns : openTable[d] # k /\ con[d] # k
      BY <3>1, Allocated
    <3>5. HandlerInv'
      BY <3>1, <3>2, <3>4 DEF HandlerInv, Holding, Detached
    <3>6. Apart'
      BY <2>2, <3>1, <3>2, <3>4 DEF Apart
    <3> QED
      BY <3>3, <3>5, <3>6
  <2> QED
    BY <2>1, <2>2
<1>4. CASE Register(c)
  BY <1>4 DEF Register, HandlerInv, QueueInv, UnallocatedInv, Apart, Holding, Detached
<1>5. CASE Probe(c)
  <2>1. /\ pc[c] = "probe" /\ todo[c] # <<>>
        /\ UNCHANGED <<openTable, conQueue, struct, used, con, exist>>
    BY <1>5 DEF Probe
  <2>2. CASE IsThere(Head(todo[c]))
    <3>1. pc' = pc /\ todo' = [todo EXCEPT ![c] = Tail(todo[c])]
      BY <1>5, <2>2 DEF Probe
    <3> QED
      BY <2>1, <3>1 DEF HandlerInv, QueueInv, UnallocatedInv, Apart, Holding, Detached
  <2>3. CASE ~ IsThere(Head(todo[c]))
    <3>1. pc' = [pc EXCEPT ![c] = "link"] /\ todo' = todo
      BY <1>5, <2>3 DEF Probe
    <3> QED
      BY <2>1, <3>1 DEF HandlerInv, QueueInv, UnallocatedInv, Apart, Holding, Detached
  <2> QED
    BY <2>2, <2>3
<1>6. CASE Link(c)
  BY <1>6 DEF Link, HandlerInv, QueueInv, UnallocatedInv, Apart, Holding, Detached
<1>7. CASE Bump(c)
  <2>1. /\ pc[c] = "bump"
        /\ con[c] \in Containers /\ used[con[c]] < GP_SIZE /\ openTable[c] = con[c]
        /\ used' = [used EXCEPT ![con[c]] = used[con[c]] + 1]
        /\ todo' = [todo EXCEPT ![c] = Tail(todo[c])]
        /\ UNCHANGED <<openTable, conQueue, con>>
    BY <1>7 DEF Bump, NextSlot, HandlerInv, Holding
  <2>2. /\ \A d \in Conns \ {c} : openTable[d] # con[c] /\ con[d] # con[c]
        /\ \A i \in 1 .. Len(conQueue) : conQueue[i] # con[c]
    BY <2>1 DEF Apart
  <2>3. Apart'
    BY <2>1 DEF Apart
  <2>4. CASE IsFull(used'[con[c]])
    <3>1. /\ pc' = [pc EXCEPT ![c] = "pop"]
          /\ struct' = [struct EXCEPT ![con[c]] = "freed"]
          /\ exist' = [exist EXCEPT ![c] = TRUE]
      BY <1>7, <2>4 DEF Bump, AfterFull
    <3>2. QueueInv' /\ UnallocatedInv'
      BY <2>1, <2>2, <3>1 DEF QueueInv, UnallocatedInv
    <3>3. HandlerInv'
      BY <2>1, <2>2, <3>1 DEF HandlerInv, Holding, Detached
    <3> QED
      BY <2>3, <3>2, <3>3
  <2>5. CASE ~ IsFull(used'[con[c]])
    <3>1. /\ pc' = [pc EXCEPT ![c] = "probe"]
          /\ UNCHANGED <<struct, exist>>
      BY <1>7, <2>5 DEF Bump
    <3>2. used[con[c]] + 1 < GP_SIZE /\ struct[con[c]] = "live"
      BY <2>1, <2>5 DEF IsFull, HandlerInv, Holding
    <3>3. QueueInv' /\ UnallocatedInv'
      BY <2>1, <2>2, <3>1, <3>2 DEF QueueInv, UnallocatedInv
    <3>4. HandlerInv'
      BY <2>1, <2>2, <3>1, <3>2 DEF HandlerInv, Holding, Detached
    <3> QED
      BY <2>3, <3>3, <3>4
  <2> QED
    BY <2>4, <2>5
<1>8. CASE FinishSegment(c)
  BY <1>8 DEF FinishSegment, HandlerInv, QueueInv, UnallocatedInv, Apart, Holding, Detached
<1>9. CASE ReceiveEof(c)
  BY <1>9 DEF ReceiveEof, HandlerInv, QueueInv, UnallocatedInv, Apart, Holding, Detached
<1>10. CASE EofRemove(c)
  BY <1>10 DEF EofRemove, HandlerInv, QueueInv, UnallocatedInv, Apart, Holding, Detached
<1>11. CASE EofPush(c)
  <2>1. /\ pc[c] = "eof_push"
        /\ con[c] \in Containers /\ openTable[c] = None
        /\ struct[con[c]] = "live" /\ used[con[c]] < GP_SIZE
        /\ pc' = [pc EXCEPT ![c] = "idle"]
        /\ con' = [con EXCEPT ![c] = None]
        /\ conQueue' = Append(conQueue, con[c])
        /\ UNCHANGED <<openTable, struct, used, exist, todo>>
    BY <1>11 DEF EofPush, AfterPush, HandlerInv, Holding
  <2>2. /\ Len(conQueue') = Len(conQueue) + 1
        /\ conQueue'[Len(conQueue) + 1] = con[c]
        /\ \A i \in 1 .. Len(conQueue) : conQueue'[i] = conQueue[i]
    BY <2>1
  <2>4. \A i \in 1 .. Len(conQueue') :
          i \in 1 .. Len(conQueue) \/ i = Len(conQueue) + 1
    BY <2>2
  <2>5. QueueInv' /\ UnallocatedInv'
    BY <2>1, <2>2, <2>4 DEF QueueInv, UnallocatedInv
  <2>6. HandlerInv'
    BY <2>1 DEF HandlerInv, Holding, Detached
  <2>7. /\ \A d \in Conns \ {c} : openTable[d] # con[c] /\ con[d] # con[c]
        /\ \A i \in 1 .. Len(conQueue) : conQueue[i] # con[c]
    BY <2>1 DEF Apart
  <2>8. Apart'
    BY <2>1, <2>2, <2>4, <2>7 DEF Apart
  <2> QED
    BY <2>5, <2>6, <2>8
<1>12. CASE ReceiveFeature(c)
  BY <1>12 DEF ReceiveFeature, HandlerInv, QueueInv, UnallocatedInv, Apart, Holding, Detached
<1>13. CASE Match(c)
  BY <1>13 DEF Match, HandlerInv, QueueInv, UnallocatedInv, Apart, Holding, Detached
<1>14. CASE Decide(c)
  <2>1. /\ pc[c] = "match"
        /\ \E p \in {"copy", "send"} : pc' = [pc EXCEPT ![c] = p]
        /\ UNCHANGED <<openTable, conQueue, struct, used, con, exist, todo>>
    BY <1>14 DEF Decide
  <2>2. HandlerInv'
    BY <2>1 DEF HandlerInv, Holding, Detached
  <2> QED
    BY <2>1, <2>2 DEF QueueInv, UnallocatedInv, Apart
<1>15. CASE CopySlot(c)
  <2>1. /\ pc[c] = "copy"
        /\ \E p \in {"copy", "send"} : pc' = [pc EXCEPT ![c] = p]
        /\ UNCHANGED <<openTable, conQueue, struct, used, con, exist, todo>>
    BY <1>15 DEF CopySlot
  <2> QED
    BY <2>1 DEF HandlerInv, QueueInv, UnallocatedInv, Apart, Holding, Detached
<1>16. CASE SendReply(c)
  BY <1>16 DEF SendReply, HandlerInv, QueueInv, UnallocatedInv, Apart, Holding, Detached
<1> QED
  BY <1>1, <1>2, <1>3, <1>4, <1>5, <1>6, <1>7, <1>8, <1>9, <1>10, <1>11, <1>12,
     <1>13, <1>14, <1>15, <1>16 DEF Receive, Proceed

-----------------------------------------------------------------------------
(* A step that leaves the table, the locks and the slots alone, and every   *)
(* handler that is writing where it is, keeps what is known of them.        *)
LEMMA QuietStep ==
  ASSUME OwnerInv, OwnerInv', DataInv,
         UNCHANGED <<feaTable, feaLock, struct, used, data>>,
         \A d \in Conns : /\ pc'[d] = "link" <=> pc[d] = "link"
                          /\ pc'[d] = "bump" <=> pc[d] = "bump",
         \A d \in Conns : pc[d] \in {"link", "bump"} =>
                            con'[d] = con[d] /\ todo'[d] = todo[d]
  PROVE  DataInv'
<1>1. KeysIntact' /\ SlotsPacked'
  BY DEF DataInv, KeysIntact, SlotsPacked
<1>2. LockInv'
  BY DEF DataInv, LockInv
<1>3. KeysBelow'
  BY DEF DataInv, KeysBelow
<1> QED
  BY <1>1, <1>2, <1>3 DEF DataInv

(* No key lies in the slot a handler is about to write.                     *)
LEMMA FreshSlot ==
  ASSUME OwnerInv, DataInv, NEW c \in Conns, pc[c] \in {"probe", "link"},
         NEW f \in Features, feaTable[f] # None
  PROVE  ~ (feaTable[f].con = con[c] /\ feaTable[f].slot = used[con[c]])
<1>1. con[c] \in Containers /\ used[con[c]] \in Nat
  BY ConstantAssumption DEF OwnerInv, TypeOK, HandlerInv, Holding
<1>2. \A d \in Conns : pc[d] = "bump" => con[d] # con[c]
  BY <1>1, ConstantAssumption DEF OwnerInv, Apart
<1> QED
  BY <1>1, <1>2 DEF DataInv, KeysBelow

(* What is known of the table, the locks and the slots.                     *)
LEMMA DataStep == OwnerInv /\ OwnerInv' /\ DataInv /\ Next => DataInv'
<1> SUFFICES ASSUME OwnerInv, OwnerInv', DataInv, NEW c \in Conns, Receive(c) \/ Proceed(c)
             PROVE  DataInv'
  BY DEF Next
<1>0. /\ OwnerTypes
      /\ feaTable \in [Features -> Entry \cup {None}]
      /\ feaLock \in [SubTables -> Conns \cup {None}]
      /\ data \in [Containers -> [Slots -> Features \cup {Zero, Torn}]]
  BY DEF OwnerInv, TypeOK, OwnerTypes
<1> USE ConstantAssumption, <1>0
<1> USE DEF OwnerTypes, tableVars, openVars, heapVars, queryVars, Goto
<1>1. CASE ReceiveSegment(c)
  BY <1>1, QuietStep DEF ReceiveSegment
<1>2. CASE LookupOpen(c)
  BY <1>2, QuietStep DEF LookupOpen
<1>3. CASE PopContainer(c)
  <2>1. CASE conQueue # <<>>
    BY <1>3, <2>1, QuietStep DEF PopContainer
  <2>2. CASE conQueue = <<>>
    <3>1. PICK k \in Containers :
            /\ struct[k] = "unallocated"
            /\ struct' = [struct EXCEPT ![k] = "live"]
            /\ used' = [used EXCEPT ![k] = 0]
            /\ data' = [data EXCEPT ![k] = Unwritten]
            /\ con' = [con EXCEPT ![c] = k]
      BY <1>3, <2>2 DEF PopContainer
    <3>2. /\ pc[c] = "pop" /\ pc' = [pc EXCEPT ![c] = "register"]
          /\ UNCHANGED <<feaTable, feaLock, todo>>
      BY <1>3, <2>2 DEF PopContainer
    <3>3. used' = used
      BY <3>1 DEF OwnerInv, UnallocatedInv
    <3>4. \A f \in Features : feaTable[f] # None => feaTable[f].con # k
      <4> SUFFICES ASSUME NEW f \in Features, feaTable[f] # None, feaTable[f].con = k
                   PROVE  FALSE
        OBVIOUS
      <4>1. ~ (feaTable[f].slot < used[k])
        <5>1. feaTable[f].slot \in Nat
          BY DEF Entry, Slots
        <5>2. used[k] = 0
          BY <3>1 DEF OwnerInv, UnallocatedInv
        <5> QED
          BY <5>1, <5>2
      <4>2. PICK d \in Conns : pc[d] = "bump" /\ con[d] = k
        BY <4>1 DEF DataInv, KeysBelow
      <4> QED
        BY <3>1, <4>2, Allocated DEF OwnerInv
    <3>5. LockInv'
      BY <3>1, <3>2, <3>3 DEF DataInv, LockInv
    <3>6. KeysBelow'
      BY <3>1, <3>2, <3>3 DEF DataInv, KeysBelow
    <3>7. KeysIntact'
      BY <3>1, <3>2, <3>4 DEF DataInv, KeysIntact, Entry
    <3>8. SlotsPacked'
      BY <3>1, <3>2, <3>3 DEF DataInv, SlotsPacked, Unwritten, Slots, OwnerInv, UnallocatedInv
    <3> QED
      BY <3>5, <3>6, <3>7, <3>8 DEF DataInv
  <2> QED
    BY <2>1, <2>2
<1>4. CASE Register(c)
  BY <1>4, QuietStep DEF Register
<1>5. CASE Probe(c)
  <2>1. pc[c] = "probe" /\ todo[c] # <<>>
    BY <1>5 DEF Probe
  <2>2. CASE IsThere(Head(todo[c]))
    BY <1>5, <2>1, <2>2, QuietStep DEF Probe
  <2>3. CASE ~ IsThere(Head(todo[c]))
    <3> DEFINE f == Head(todo[c])
    <3> DEFINE k == con[c]
    <3>1. /\ feaLock[SubOf[f]] = None /\ feaTable[f] = None
          /\ pc' = [pc EXCEPT ![c] = "link"]
          /\ feaLock' = [feaLock EXCEPT ![SubOf[f]] = c]
          /\ data' = [data EXCEPT ![k][used[k]] = Torn]
          /\ UNCHANGED <<feaTable, struct, used, con, todo>>
      BY <1>5, <2>3 DEF Probe, IsThere
    <3>2. f \in Features /\ k \in Containers /\ used[k] \in Slots
      BY <2>1, HeadTail DEF OwnerInv, HandlerInv, Holding, Slots
    <3>3. \A d \in Conns : pc[d] = "link" => SubOf[Head(todo[d])] # SubOf[f]
      BY <3>1 DEF DataInv, LockInv
    <3>4. \A d \in Conns : pc[d] = "link" => Head(todo[d]) \in Features
      BY HeadTail DEF OwnerInv, HandlerInv
    <3>5. LockInv'
      BY <2>1, <3>1, <3>2, <3>3, <3>4 DEF DataInv, LockInv
    <3>6. KeysBelow'
      BY <2>1, <3>1 DEF DataInv, KeysBelow
    <3>7. KeysIntact'
      BY <2>1, <3>1, <3>2, FreshSlot DEF DataInv, KeysIntact, Entry
    <3>8. SlotsPacked'
      BY <3>1, <3>2 DEF DataInv, SlotsPacked, Slots
    <3> QED
      BY <3>5, <3>6, <3>7, <3>8 DEF DataInv
  <2> QED
    BY <2>2, <2>3
<1>6. CASE Link(c)
  <2> DEFINE f == Head(todo[c])
  <2> DEFINE k == con[c]
  <2>1. /\ pc[c] = "link"
        /\ pc' = [pc EXCEPT ![c] = "bump"]
        /\ data' = [data EXCEPT ![k][used[k]] = f]
        /\ feaTable' = [feaTable EXCEPT ![f] = [con |-> k, slot |-> used[k]]]
        /\ feaLock' = [feaLock EXCEPT ![SubOf[f]] = None]
        /\ UNCHANGED <<struct, used, con, todo>>
    BY <1>6 DEF Link, Released
  <2>2. f \in Features /\ k \in Containers /\ used[k] \in Slots /\ todo[c] # <<>>
    BY <2>1, HeadTail DEF OwnerInv, HandlerInv, Holding, Slots
  <2>3. feaTable[f] = None /\ feaLock[SubOf[f]] = c
    BY <2>1 DEF DataInv, LockInv
  <2>4. \A d \in Conns : pc[d] \in {"link", "bump"} => Head(todo[d]) \in Features
    BY HeadTail DEF OwnerInv, HandlerInv
  <2>5. [con |-> k, slot |-> used[k]] \in Entry
    BY <2>2 DEF Entry
  <2>6. \A e \in Entry : e # None
    BY DEF Entry, Slots
  <2>7. LockInv'
    <3>1. ASSUME NEW d \in Conns, pc'[d] = "link"
          PROVE  feaLock'[SubOf[Head(todo'[d])]] = d /\ feaTable'[Head(todo'[d])] = None
      <4>1. d # c /\ pc[d] = "link"
        BY <2>1, <3>1
      <4>2. feaLock[SubOf[Head(todo[d])]] = d /\ feaTable[Head(todo[d])] = None
        BY <4>1 DEF DataInv, LockInv
      <4> QED
        BY <2>1, <2>3, <2>4, <4>1, <4>2
    <3>2. ASSUME NEW d \in Conns, pc'[d] = "bump"
          PROVE  feaTable'[Head(todo'[d])] = [con |-> con'[d], slot |-> used'[con'[d]]]
      <4>1. CASE d = c
        BY <2>1, <2>2, <4>1
      <4>2. CASE d # c
        <5>1. pc[d] = "bump"
          BY <2>1, <3>2, <4>2
        <5>2. con[d] \in Containers /\ used[con[d]] \in Slots
          BY <5>1 DEF OwnerInv, HandlerInv, Holding, Slots
        <5>3. feaTable[Head(todo[d])] = [con |-> con[d], slot |-> used[con[d]]]
          BY <5>1 DEF DataInv, LockInv
        <5>4. Head(todo[d]) # f
          BY <2>3, <2>6, <5>2, <5>3 DEF Entry
        <5> QED
          BY <2>1, <2>4, <5>1, <5>3, <5>4
      <4> QED
        BY <4>1, <4>2
    <3> QED
      BY <3>1, <3>2 DEF LockInv
  <2>8. KeysBelow'
    BY <2>1, <2>2 DEF DataInv, KeysBelow
  <2>9. KeysIntact'
    BY <2>1, <2>2, FreshSlot DEF DataInv, KeysIntact, Entry
  <2>10. SlotsPacked'
    <3>1. ASSUME NEW j \in Containers, NEW s \in Slots, s < used[j]
          PROVE  /\ data'[j][s] \in Features
                 /\ feaTable'[data'[j][s]] = [con |-> j, slot |-> s]
      <4>1. data[j][s] \in Features /\ feaTable[data[j][s]] = [con |-> j, slot |-> s]
        BY <3>1 DEF DataInv, SlotsPacked
      <4>2. data'[j][s] = data[j][s]
        BY <2>1, <2>2, <3>1 DEF Slots
      <4>3. data[j][s] # f
        BY <2>3, <2>6, <4>1 DEF Entry
      <4> QED
        BY <2>1, <4>1, <4>2, <4>3
    <3>2. ASSUME NEW j \in Containers, NEW s \in Slots, s > used[j]
          PROVE  data'[j][s] = Zero
      <4>1. data[j][s] = Zero
        BY <3>2 DEF DataInv, SlotsPacked
      <4>2. data'[j][s] = data[j][s]
        BY <2>1, <2>2, <3>2 DEF Slots
      <4> QED
        BY <4>1, <4>2
    <3> QED
      BY <2>1, <3>1, <3>2 DEF DataInv, SlotsPacked
  <2> QED
    BY <2>7, <2>8, <2>9, <2>10 DEF DataInv
<1>7. CASE Bump(c)
  <2> DEFINE f == Head(todo[c])
  <2> DEFINE k == con[c]
  <2>1. /\ pc[c] = "bump"
        /\ used' = [used EXCEPT ![k] = used[k] + 1]
        /\ UNCHANGED <<feaTable, feaLock, data, con>>
        /\ todo' = [todo EXCEPT ![c] = Tail(todo[c])]
    BY <1>7 DEF Bump, NextSlot
  <2>2. \E p \in {"pop", "probe"} : pc' = [pc EXCEPT ![c] = p]
    BY <1>7 DEF Bump, AfterFull
  <2>3. \A j \in Containers : struct'[j] = "freed" =>
          struct[j] = "freed" \/ (j = k /\ used'[k] = GP_SIZE)
    BY <1>7 DEF Bump, IsFull
  <2>4. /\ f \in Features /\ k \in Containers /\ used[k] \in Slots
        /\ struct[k] = "live"
    BY <2>1, HeadTail DEF OwnerInv, HandlerInv, Holding, Slots
  <2>5. \A d \in Conns : pc[d] \in Holding /\ d # c => con[d] # k
    BY <2>4 DEF OwnerInv, Apart
  <2>6. /\ feaTable[f] = [con |-> k, slot |-> used[k]]
        /\ data[k][used[k]] = f
    <3>1. feaTable[f] = [con |-> k, slot |-> used[k]]
      BY <2>1 DEF DataInv, LockInv
    <3>2. feaTable[f] # None
      BY <2>4, <3>1 DEF Slots
    <3>3. data[feaTable[f].con][feaTable[f].slot] = f
      BY <2>4, <3>2 DEF DataInv, KeysIntact
    <3>4. feaTable[f].con = k /\ feaTable[f].slot = used[k]
      BY <3>1
    <3> QED
      BY <3>1, <3>3, <3>4
  <2>7. LockInv'
    BY <2>1, <2>2, <2>5 DEF DataInv, LockInv, Holding, OwnerInv, HandlerInv
  <2>8. KeysBelow'
    <3> SUFFICES ASSUME NEW g \in Features, feaTable'[g] # None
                 PROVE  \/ feaTable'[g].slot < used'[feaTable'[g].con]
                        \/ \E d \in Conns : /\ pc'[d] = "bump" /\ con'[d] = feaTable'[g].con
                                            /\ feaTable'[g].slot = used'[con'[d]]
      BY DEF KeysBelow
    <3>1. /\ feaTable'[g] = feaTable[g] /\ con' = con /\ feaTable[g] # None
          /\ feaTable[g].con \in Containers /\ feaTable[g].slot \in Slots
      BY <2>1 DEF Entry
    <3>2. CASE feaTable[g].slot < used[feaTable[g].con]
      BY <2>1, <2>4, <3>1, <3>2 DEF Slots
    <3>3. CASE \E d \in Conns : /\ pc[d] = "bump" /\ con[d] = feaTable[g].con
                                /\ feaTable[g].slot = used[con[d]]
      <4>1. PICK d \in Conns : /\ pc[d] = "bump" /\ con[d] = feaTable[g].con
                               /\ feaTable[g].slot = used[con[d]]
        BY <3>3
      <4>2. CASE d = c
        BY <2>1, <2>4, <3>1, <4>1, <4>2 DEF Slots
      <4>3. CASE d # c
        BY <2>1, <2>2, <2>5, <3>1, <4>1, <4>3 DEF Holding
      <4> QED
        BY <4>2, <4>3
    <3>4. \/ feaTable[g].slot < used[feaTable[g].con]
          \/ \E d \in Conns : /\ pc[d] = "bump" /\ con[d] = feaTable[g].con
                              /\ feaTable[g].slot = used[con[d]]
      BY <3>1 DEF DataInv, KeysBelow
    <3> QED
      BY <3>2, <3>3, <3>4
  <2>9. KeysIntact'
    BY <2>1 DEF DataInv, KeysIntact
  <2>10. SlotsPacked'
    <3>1. ASSUME NEW j \in Containers, NEW s \in Slots, s < used'[j]
          PROVE  data[j][s] \in Features /\ feaTable[data[j][s]] = [con |-> j, slot |-> s]
      <4>1. CASE s < used[j]
        BY <4>1 DEF DataInv, SlotsPacked
      <4>2. CASE ~ (s < used[j])
        BY <2>1, <2>4, <2>6, <3>1, <4>2 DEF Slots
      <4> QED
        BY <4>1, <4>2
    <3>2. ASSUME NEW j \in Containers, NEW s \in Slots, s > used'[j]
          PROVE  data[j][s] = Zero
      <4>1. s > used[j]
        BY <2>1, <2>4, <3>2 DEF Slots
      <4> QED
        BY <4>1 DEF DataInv, SlotsPacked
    <3>3. \A j \in Containers : struct'[j] = "freed" => used'[j] = GP_SIZE
      BY <2>1, <2>3, <2>4 DEF DataInv, SlotsPacked
    <3> QED
      BY <2>1, <3>1, <3>2, <3>3 DEF SlotsPacked
  <2> QED
    BY <2>7, <2>8, <2>9, <2>10 DEF DataInv
<1>8. CASE FinishSegment(c)
  BY <1>8, QuietStep DEF FinishSegment
<1>9. CASE ReceiveEof(c)
  BY <1>9, QuietStep DEF ReceiveEof
<1>10. CASE EofRemove(c)
  BY <1>10, QuietStep DEF EofRemove
<1>11. CASE EofPush(c)
  BY <1>11, QuietStep DEF EofPush
<1>12. CASE ReceiveFeature(c)
  BY <1>12, QuietStep DEF ReceiveFeature
<1>13. CASE Match(c)
  BY <1>13, QuietStep DEF Match
<1>14. CASE Decide(c)
  BY <1>14, QuietStep DEF Decide
<1>15. CASE CopySlot(c)
  BY <1>15, QuietStep DEF CopySlot
<1>16. CASE SendReply(c)
  BY <1>16, QuietStep DEF SendReply
<1> QED
  BY <1>1, <1>2, <1>3, <1>4, <1>5, <1>6, <1>7, <1>8, <1>9, <1>10, <1>11, <1>12,
     <1>13, <1>14, <1>15, <1>16 DEF Receive, Proceed

-----------------------------------------------------------------------------
(* A key on the stack is only ever offered for an entry that is there.      *)
LEMMA HeapStep == OwnerInv /\ HeapKeys /\ Next => HeapKeys'
<1> SUFFICES ASSUME OwnerInv, HeapKeys, NEW c \in Conns, Receive(c) \/ Proceed(c)
             PROVE  HeapKeys'
  BY DEF Next
<1>0. /\ openTable \in [Conns -> Containers \cup {None}]
      /\ openKey \in [Conns -> {"none", "heap", "stack"}]
      /\ con \in [Conns -> Containers \cup {None}]
  BY DEF OwnerInv, TypeOK
<1>1. CASE Register(c)
  <2>1. pc[c] = "register"
    BY <1>1 DEF Register, Goto
  <2>2. con[c] # None /\ (exist[c] <=> openTable[c] # None)
    BY <2>1 DEF OwnerInv, HandlerInv, Holding
  <2>3. openTable' = [openTable EXCEPT ![c] = con[c]]
    BY <1>1 DEF Register
  <2>4. openKey' = [openKey EXCEPT ![c] = "heap"]
    <3>1. CASE openTable[c] # None
      BY <1>0, <1>1, <3>1 DEF Register, HeapKeys
    <3>2. CASE openTable[c] = None
      BY <1>0, <1>1, <2>2, <3>2 DEF Register, GivenKey
    <3> QED
      BY <3>1, <3>2
  <2> QED
    BY <1>0, <2>2, <2>3, <2>4 DEF HeapKeys
<1>2. CASE EofRemove(c)
  BY <1>0, <1>2 DEF EofRemove, HeapKeys
<1>3. CASE UNCHANGED <<openTable, openKey>>
  BY <1>3 DEF HeapKeys
<1> QED
  BY <1>1, <1>2, <1>3 DEF Receive, Proceed, ReceiveSegment, ReceiveEof, ReceiveFeature,
     LookupOpen, PopContainer, Probe, Link, Bump, FinishSegment, EofPush, Match, Decide,
     CopySlot, SendReply, openVars

(* A slice is sent only when something was found: what a client promises    *)
(* is too little by itself.                                                 *)
LEMMA BestStep == OwnerInv /\ BestExists /\ Next => BestExists'
<1> SUFFICES ASSUME OwnerInv, BestExists, NEW c \in Conns, Receive(c) \/ Proceed(c)
             PROVE  BestExists'
  BY DEF Next
<1>0. /\ pc \in [Conns -> PCs]
      /\ promised \in [Conns -> Promises]
      /\ gp \in [Conns -> [from : Containers \cup {None},
                           slots : Seq(Features \cup {Zero, Torn})]]
  BY DEF OwnerInv, TypeOK
<1>1. CASE Decide(c)
  <2>1. CASE Cardinality(Hits(cur[c])) + promised[c] > HIT_THRES
    <3>1. Hits(cur[c]) # {}
      <4>1. promised[c] \in 0 .. HIT_THRES
        BY <1>0 DEF Promises
      <4>2. ASSUME Hits(cur[c]) = {}  PROVE  Cardinality(Hits(cur[c])) = 0
        BY <4>2, FS_EmptySet
      <4> QED
        BY <2>1, <4>1, <4>2, ConstantAssumption
    <3>2. PICK k \in Containers \cup {None} :
            /\ IsBestCon(cur[c], k)
            /\ gp' = [gp EXCEPT ![c] = [from |-> k, slots |-> <<>>]]
      BY <1>1, <2>1, <3>1 DEF Decide
    <3>3. k # None
      BY <3>2 DEF IsBestCon
    <3>4. pc' = [pc EXCEPT ![c] = "copy"]
      BY <1>1, <2>1 DEF Decide, Goto
    <3> QED
      BY <1>0, <3>2, <3>3, <3>4 DEF BestExists
  <2>2. CASE ~ (Cardinality(Hits(cur[c])) + promised[c] > HIT_THRES)
    BY <1>0, <1>1, <2>2 DEF Decide, Goto, BestExists
  <2> QED
    BY <2>1, <2>2
<1>2. CASE CopySlot(c)
  <2>1. PICK v : gp' = [gp EXCEPT ![c] =
                          [from |-> gp[c].from, slots |-> Append(gp[c].slots, v)]]
    BY <1>2 DEF CopySlot
  <2>2. \A d \in Conns : gp'[d].from = gp[d].from
    BY <1>0, <2>1
  <2>3. pc[c] = "copy" /\ \A d \in Conns \ {c} : pc'[d] = pc[d]
    BY <1>0, <1>2 DEF CopySlot, Goto
  <2> QED
    BY <2>2, <2>3 DEF BestExists
<1>3. CASE SendReply(c)
  BY <1>0, <1>3 DEF SendReply, Goto, BestExists
<1> DEFINE Elsewhere == UNCHANGED gp /\ \E p \in PCs \ {"copy"} : pc' = [pc EXCEPT ![c] = p]
<1>4. CASE Elsewhere
  BY <1>0, <1>4 DEF BestExists
<1>5. ReceiveSegment(c) \/ ReceiveEof(c) \/ ReceiveFeature(c) \/ LookupOpen(c) => Elsewhere
  BY DEF ReceiveSegment, ReceiveEof, ReceiveFeature, LookupOpen, Goto, queryVars, PCs
<1>6. PopContainer(c) \/ Register(c) \/ Probe(c) \/ Link(c) \/ Bump(c) => Elsewhere
  BY DEF PopContainer, Register, Probe, Link, Bump, AfterFull, Goto, queryVars, PCs
<1>7. FinishSegment(c) \/ EofRemove(c) \/ EofPush(c) \/ Match(c) => Elsewhere
  BY DEF FinishSegment, EofRemove, EofPush, Match, Goto, queryVars, PCs
<1> QED
  BY <1>1, <1>2, <1>3, <1>4, <1>5, <1>6, <1>7 DEF Receive, Proceed

-----------------------------------------------------------------------------
(* The initial state: an empty table, no container, everybody idle.         *)
LEMMA InitIInv == Init => IInv
<1> SUFFICES ASSUME Init  PROVE  IInv
  OBVIOUS
<1> USE ConstantAssumption DEF Init
<1>1. TypeOK
  BY DEF TypeOK, PCs, Unwritten, NoReply, Promises
<1>2. HandlerInv /\ QueueInv /\ UnallocatedInv /\ Apart
  BY DEF HandlerInv, Holding, Detached, QueueInv, UnallocatedInv, Apart
<1>3. LockInv /\ KeysBelow /\ KeysIntact
  BY DEF LockInv, KeysBelow, KeysIntact
<1>4. SlotsPacked
  BY DEF SlotsPacked, Unwritten, Slots
<1>5. HeapKeys /\ BestExists
  BY DEF HeapKeys, BestExists
<1> QED
  BY <1>1, <1>2, <1>3, <1>4, <1>5 DEF IInv, OwnerInv, DataInv

LEMMA StutterIInv == IInv /\ UNCHANGED vars => IInv'
<1> SUFFICES ASSUME IInv, UNCHANGED vars  PROVE  IInv'
  OBVIOUS
<1> USE DEF vars, tableVars, openVars, heapVars, queryVars
<1>1. TypeOK'
  BY DEF IInv, OwnerInv, TypeOK
<1>2. HandlerInv' /\ QueueInv' /\ UnallocatedInv' /\ Apart'
  BY DEF IInv, OwnerInv, HandlerInv, QueueInv, UnallocatedInv, Apart
<1>3. DataInv'
  BY DEF IInv, DataInv, LockInv, KeysBelow, KeysIntact, SlotsPacked
<1>4. HeapKeys' /\ BestExists'
  BY DEF IInv, HeapKeys, BestExists
<1> QED
  BY <1>1, <1>2, <1>3, <1>4 DEF IInv, OwnerInv

(* The inductive invariant holds in every reachable state.                  *)
THEOREM Inductive == Spec => []IInv
<1>1. Init => IInv
  BY InitIInv
<1>2. IInv /\ [Next]_vars => IInv'
  <2> SUFFICES ASSUME IInv, Next  PROVE  IInv'
    BY StutterIInv
  <2>1. OwnerInv'
    BY TypeStep, OwnerStep DEF IInv, OwnerInv
  <2> QED
    BY <2>1, DataStep, HeapStep, BestStep DEF IInv
<1> QED
  BY <1>1, <1>2, PTL DEF Spec

(* Every variable keeps its type, whatever the connections, features and    *)
(* sizes: in particular used_slot never passes GP_SIZE and no index leaves  *)
(* gp_data.                                                                 *)
THEOREM TypeCorrect == Spec => []TypeOK
<1>1. IInv => TypeOK
  BY DEF IInv, OwnerInv
<1> QED
  BY <1>1, Inductive, PTL

(* The bytes of the slot that fea_table uses as a key never change while    *)
(* the entry is there (feature.c:328).                                      *)
THEOREM KeysStayIntact == Spec => []KeysIntact
<1>1. IInv => KeysIntact
  BY DEF IInv, DataInv
<1> QED
  BY <1>1, Inductive, PTL

(* Every slot below used_slot is the key of its own entry and every slot    *)
(* beyond is blank; a freed struct was full (feature.c:326-334).            *)
THEOREM SlotsStayPacked == Spec => []SlotsPacked
<1>1. IInv => SlotsPacked
  BY DEF IInv, DataInv
<1> QED
  BY <1>1, Inductive, PTL

(* The table and the slots that are its keys never disagree.                *)
THEOREM IndexStaysIntact == Spec => []IndexIntact
<1>1. TypeOK /\ KeysIntact /\ SlotsPacked => IndexIntact
  BY DEF IndexIntact
<1> QED
  BY <1>1, TypeCorrect, KeysStayIntact, SlotsStayPacked, PTL

(* No two handlers, nor a handler and the queue, share a container          *)
(* (feature.c:286-343, main.c:70-85).                                       *)
THEOREM ContainersHaveOneOwner == Spec => []OneOwner
<1>1. IInv => OneOwner
  BY ApartIsOneOwner DEF IInv, OwnerInv
<1> QED
  BY <1>1, Inductive, PTL

(* No handler follows a pointer to a freed struct (feature.c:333) or writes *)
(* a slot outside gp_data.                                                  *)
THEOREM NoDanglingContainer == Spec => []NoUseAfterFree
<1>1. IInv => NoUseAfterFree
  <2> SUFFICES ASSUME IInv  PROVE  NoUseAfterFree
    OBVIOUS
  <2>0. TypeOK /\ HandlerInv /\ QueueInv
    BY DEF IInv, OwnerInv
  <2>1. ASSUME NEW c \in Conns
        PROVE  /\ con[c] # None /\ pc[c] # "pop" => struct[con[c]] = "live"
               /\ openTable[c] # None /\ pc[c] \notin {"pop", "register"} =>
                    struct[openTable[c]] = "live"
               /\ pc[c] \in {"probe", "link", "bump"} =>
                    con[c] # None /\ used[con[c]] < GP_SIZE
    <3>1. pc[c] \in PCs
      BY <2>0 DEF TypeOK
    <3>2. CASE pc[c] \in Detached
      BY <2>0, <3>2 DEF HandlerInv, Detached
    <3>3. CASE pc[c] \in Holding
      BY <2>0, <3>3 DEF HandlerInv, Holding
    <3>4. CASE pc[c] = "pop"
      BY <3>4
    <3> QED
      BY <3>1, <3>2, <3>3, <3>4 DEF PCs, Detached, Holding
  <2>2. DOMAIN conQueue = 1 .. Len(conQueue)
    BY <2>0 DEF TypeOK
  <2> QED
    BY <2>0, <2>1, <2>2 DEF NoUseAfterFree, QueueInv
<1> QED
  BY <1>1, Inductive, PTL

(* Every key of open_fea_con.table is on the heap (feature.c:305, 334).     *)
THEOREM OpenKeysOnHeap == Spec => []HeapKeys
<1>1. IInv => HeapKeys
  BY DEF IInv
<1> QED
  BY <1>1, Inductive, PTL

(* Containers have one owner, are not used after they are freed, and their  *)
(* keys can be freed.                                                       *)
THEOREM MemoryStaysSafe == Spec => []MemorySafe
<1>1. OneOwner /\ NoUseAfterFree /\ HeapKeys => MemorySafe
  BY DEF MemorySafe
<1> QED
  BY <1>1, ContainersHaveOneOwner, NoDanglingContainer, OpenKeysOnHeap, PTL

(* get_best_con never returns NULL where its result is used unchecked       *)
(* (feature.c:200), given that a client counts at most HIT_THRES hits.      *)
THEOREM BestConIsThere == Spec => []BestExists
<1>1. IInv => BestExists
  BY DEF IInv
<1> QED
  BY <1>1, Inductive, PTL

(* An entry of the table is never changed.                                  *)
LEMMA EntryStep ==
  ASSUME IInv, Next, NEW f \in Features, feaTable[f] # None
  PROVE  feaTable'[f] = feaTable[f]
<1>1. PICK c \in Conns : Receive(c) \/ Proceed(c)
  BY DEF Next
<1>2. CASE Link(c)
  <2>1. feaTable[Head(todo[c])] = None
    BY <1>2 DEF IInv, DataInv, LockInv, Link, Goto
  <2>2. feaTable \in [Features -> Entry \cup {None}]
    BY DEF IInv, OwnerInv, TypeOK
  <2> QED
    BY <1>2, <2>1, <2>2 DEF Link
<1>3. CASE UNCHANGED feaTable
  BY <1>3
<1> QED
  BY <1>1, <1>2, <1>3 DEF Receive, Proceed, ReceiveSegment, ReceiveEof, ReceiveFeature,
     LookupOpen, PopContainer, Register, Probe, Bump, FinishSegment, EofRemove, EofPush,
     Match, Decide, CopySlot, SendReply, tableVars

(* Once a feature has an entry, its container and slot never change.        *)
THEOREM EntriesStay == Spec => EntriesForever
<1> DEFINE Stays == \A f \in Features : feaTable[f] # None => feaTable'[f] = feaTable[f]
<1>1. IInv /\ [Next]_vars => [Stays]_vars
  BY EntryStep
<1> QED
  BY <1>1, Inductive, PTL DEF Spec, EntriesForever

-----------------------------------------------------------------------------
Live == {k \in Containers : struct[k] = "live"}

(* PoolBound, said so that it is inductive: the live containers are counted *)
(* and each of them is in somebody's hands.                                 *)
Reached == \A k \in Live :
  \/ \E c \in Conns : openTable[c] = k \/ con[c] = k
  \/ \E i \in 1 .. Len(conQueue) : conQueue[i] = k
PoolInv ==
  /\ IsFiniteSet(Live) /\ Cardinality(Live) <= Cardinality(Conns)
  /\ Reached

(* A connection has no more than one live container.                        *)
LEMMA OneLive ==
  ASSUME OwnerInv, NEW c \in Conns, openTable[c] \in Live, con[c] \in Live
  PROVE  openTable[c] = con[c]
<1>0. pc[c] \in PCs /\ openTable[c] # None /\ con[c] # None
  BY ConstantAssumption DEF OwnerInv, TypeOK, Live
<1>1. /\ pc[c] \notin Detached
      /\ pc[c] # "register" /\ pc[c] # "eof_push"
  BY <1>0 DEF OwnerInv, HandlerInv, Live
<1> QED
  BY <1>0, <1>1 DEF OwnerInv, HandlerInv, PCs, Detached

(* A handler that is about to take a container has no live one, so that     *)
(* with an empty queue there are fewer live containers than connections.    *)
LEMMA RoomForOneMore ==
  ASSUME OwnerInv, PoolInv, conQueue = <<>>, NEW c \in Conns, pc[c] = "pop"
  PROVE  Cardinality(Live) + 1 <= Cardinality(Conns)
<1> DEFINE Others == Conns \ {c}
<1> DEFINE Holder(k) == CHOOSE d \in Conns : openTable[d] = k \/ con[d] = k
<1> DEFINE holder == [k \in Live |-> Holder(k)]
<1>1. ASSUME NEW k \in Live
      PROVE  Holder(k) \in Others /\ (openTable[Holder(k)] = k \/ con[Holder(k)] = k)
  <2>1. \E d \in Conns : openTable[d] = k \/ con[d] = k
    BY DEF PoolInv, Reached
  <2>2. Holder(k) \in Conns /\ (openTable[Holder(k)] = k \/ con[Holder(k)] = k)
    BY <2>1
  <2>3. k # None /\ struct[k] = "live"
    BY ConstantAssumption DEF Live
  <2>4. openTable[c] # k /\ con[c] # k
    BY <2>3 DEF OwnerInv, HandlerInv
  <2> HIDE DEF Holder
  <2> QED
    BY <2>2, <2>4
<1> HIDE DEF Holder
<1>2. ASSUME NEW j \in Live, NEW k \in Live, Holder(j) = Holder(k)
      PROVE  j = k
  BY <1>1, <1>2, OneLive
<1>3. holder \in Injection(Live, Others)
  BY <1>1, <1>2 DEF Injection, IsInjective
<1>4. IsFiniteSet(Others) /\ Cardinality(Others) = Cardinality(Conns) - 1
  BY ConnsAssumption, FS_RemoveElement
<1>5. Cardinality(Live) <= Cardinality(Others)
  BY <1>3, <1>4, FS_Injection
<1>6. Cardinality(Live) \in Nat /\ Cardinality(Conns) \in Nat
  BY ConnsAssumption, FS_CardinalityType DEF PoolInv
<1> QED
  BY <1>4, <1>5, <1>6

(* A live container that c does not have stays in reach unless it leaves    *)
(* the queue.                                                               *)
LEMMA StillReached ==
  ASSUME PoolInv, NEW c \in Conns,
         \A d \in Conns \ {c} : openTable'[d] = openTable[d] /\ con'[d] = con[d],
         NEW k \in Live, openTable[c] # k, con[c] # k
  PROVE  \/ \E d \in Conns : openTable'[d] = k \/ con'[d] = k
         \/ \E i \in 1 .. Len(conQueue) : conQueue[i] = k
BY DEF PoolInv, Reached

(* A step that frees and allocates nothing only has to keep every live      *)
(* container in reach.                                                      *)
LEMMA SamePool ==
  ASSUME PoolInv, UNCHANGED <<struct, conQueue>>, NEW c \in Conns,
         \A d \in Conns \ {c} : openTable'[d] = openTable[d] /\ con'[d] = con[d],
         \A k \in Live : openTable[c] = k \/ con[c] = k => openTable'[c] = k \/ con'[c] = k
  PROVE  PoolInv'
<1>1. Live' = Live
  BY DEF Live
<1>2. Reached'
  BY <1>1 DEF PoolInv, Reached
<1> QED
  BY <1>1, <1>2 DEF PoolInv

LEMMA PoolStep == OwnerInv /\ OwnerInv' /\ PoolInv /\ Next => PoolInv'
<1> SUFFICES ASSUME OwnerInv, OwnerInv', PoolInv, NEW c \in Conns, Receive(c) \/ Proceed(c)
             PROVE  PoolInv'
  BY DEF Next
<1>0. OwnerTypes /\ OwnerTypes'
  BY DEF OwnerInv, TypeOK, OwnerTypes
<1> USE ConstantAssumption, <1>0
<1> USE DEF OwnerTypes, openVars, heapVars, Goto
<1>1. CASE LookupOpen(c)
  <2>1. /\ con[c] = None
        /\ con' = [con EXCEPT ![c] = openTable[c]]
        /\ UNCHANGED <<openTable, conQueue, struct>>
    BY <1>1 DEF LookupOpen, OwnerInv, HandlerInv, Detached
  <2> QED
    BY <2>1, SamePool DEF Live
<1>2. CASE PopContainer(c)
  <2>0. /\ pc[c] = "pop" /\ UNCHANGED openTable
        /\ con[c] # None => struct[con[c]] = "freed"
    BY <1>2 DEF PopContainer, OwnerInv, HandlerInv
  <2>1. CASE conQueue # <<>>
    <3>1. /\ con' = [con EXCEPT ![c] = conQueue[1]]
          /\ conQueue' = Tail(conQueue)
          /\ UNCHANGED struct
      BY <1>2, <2>1 DEF PopContainer, AfterPop
    <3>2. \A i \in 1 .. Len(conQueue) :
            \/ i = 1
            \/ \E j \in 1 .. Len(conQueue') : conQueue'[j] = conQueue[i]
      <4> SUFFICES ASSUME NEW i \in 1 .. Len(conQueue), i # 1
                   PROVE  \E j \in 1 .. Len(conQueue') : conQueue'[j] = conQueue[i]
        OBVIOUS
      <4>1. /\ Len(conQueue') = Len(conQueue) - 1
            /\ \A j \in 1 .. Len(conQueue') : conQueue'[j] = conQueue[j + 1]
        BY <2>1, <3>1
      <4>2. i \in Int /\ Len(conQueue) \in Nat
        OBVIOUS
      <4>3. \A n \in Nat : i \in 1 .. n => i - 1 \in 1 .. n - 1 /\ (i - 1) + 1 = i
        BY <4>2
      <4> QED
        BY <4>1, <4>2, <4>3
    <3>3. Live' = Live
      BY <3>1 DEF Live
    <3>4. Reached'
      <4> SUFFICES ASSUME NEW k \in Live
                   PROVE  \/ \E d \in Conns : openTable'[d] = k \/ con'[d] = k
                          \/ \E i \in 1 .. Len(conQueue') : conQueue'[i] = k
        BY <3>3 DEF Reached
      <4>1. con[c] # k
        BY <2>0 DEF Live
      <4>2. openTable[c] # k
        BY <2>0, <4>1 DEF OwnerInv, HandlerInv
      <4>3. \A d \in Conns \ {c} : openTable'[d] = openTable[d] /\ con'[d] = con[d]
        BY <2>0, <3>1
      <4>4. con'[c] = conQueue[1]
        BY <3>1
      <4> QED
        <5>1. CASE \E i \in 1 .. Len(conQueue) : conQueue[i] = k
          <6>1. PICK i \in 1 .. Len(conQueue) : conQueue[i] = k
            BY <5>1
          <6> QED
            BY <3>2, <4>4, <6>1
        <5> QED
          BY <4>1, <4>2, <4>3, <5>1, StillReached
    <3> QED
      BY <3>3, <3>4 DEF PoolInv
  <2>2. CASE conQueue = <<>>
    <3>1. PICK k \in Containers :
            /\ struct[k] = "unallocated"
            /\ struct' = [struct EXCEPT ![k] = "live"]
            /\ con' = [con EXCEPT ![c] = k]
            /\ UNCHANGED conQueue
      BY <1>2, <2>2 DEF PopContainer
    <3>2. Live' = Live \cup {k} /\ k \notin Live
      BY <3>1 DEF Live
    <3>3. IsFiniteSet(Live') /\ Cardinality(Live') = Cardinality(Live) + 1
      BY <3>2, FS_AddElement DEF PoolInv
    <3>4. Cardinality(Live) + 1 <= Cardinality(Conns)
      BY <2>0, <2>2, RoomForOneMore
    <3>5. Reached'
      <4> SUFFICES ASSUME NEW j \in Live'
                   PROVE  \/ \E d \in Conns : openTable'[d] = j \/ con'[d] = j
                          \/ \E i \in 1 .. Len(conQueue') : conQueue'[i] = j
        BY DEF Reached
      <4>1. CASE j = k
        BY <3>1, <4>1
      <4>2. CASE j # k
        <5>1. j \in Live
          BY <3>2, <4>2
        <5>2. con[c] # j
          BY <2>0, <5>1 DEF Live
        <5>3. openTable[c] # j
          BY <2>0, <5>2 DEF OwnerInv, HandlerInv
        <5>4. \A d \in Conns \ {c} : openTable'[d] = openTable[d] /\ con'[d] = con[d]
          BY <2>0, <3>1
        <5> QED
          BY <3>1, <5>1, <5>2, <5>3, <5>4, StillReached
      <4> QED
        BY <4>1, <4>2
    <3> QED
      BY <3>3, <3>4, <3>5 DEF PoolInv
  <2> QED
    BY <2>1, <2>2
<1>3. CASE Register(c)
  <2>1. /\ openTable' = [openTable EXCEPT ![c] = con[c]]
        /\ openTable[c] # None => struct[openTable[c]] = "freed"
        /\ UNCHANGED <<con, conQueue, struct>>
    BY <1>3 DEF Register, OwnerInv, HandlerInv
  <2> QED
    BY <2>1, SamePool DEF Live
<1>4. CASE Bump(c)
  <2>1. UNCHANGED <<openTable, con, conQueue>> /\ con[c] \in Containers
    BY <1>4 DEF Bump, OwnerInv, HandlerInv, Holding
  <2>2. \/ UNCHANGED struct
        \/ struct' = [struct EXCEPT ![con[c]] = "freed"]
    BY <1>4 DEF Bump
  <2>3. Live' \subseteq Live
    BY <2>1, <2>2 DEF Live
  <2>4. IsFiniteSet(Live') /\ Cardinality(Live') <= Cardinality(Live)
    BY <2>3, FS_Subset DEF PoolInv
  <2>5. /\ Cardinality(Live) \in Nat /\ Cardinality(Conns) \in Nat
        /\ Cardinality(Live') \in Nat
    BY <2>4, ConnsAssumption, FS_CardinalityType DEF PoolInv
  <2>6. Reached'
    BY <2>1, <2>3 DEF PoolInv, Reached
  <2> QED
    BY <2>4, <2>5, <2>6 DEF PoolInv
<1>5. CASE FinishSegment(c)
  <2>1. /\ con[c] = openTable[c]
        /\ con' = [con EXCEPT ![c] = None]
        /\ UNCHANGED <<openTable, conQueue, struct>>
    BY <1>5 DEF FinishSegment, OwnerInv, HandlerInv
  <2> QED
    BY <2>1, SamePool
<1>6. CASE ReceiveEof(c)
  <2>1. /\ con[c] = None
        /\ con' = [con EXCEPT ![c] = openTable[c]]
        /\ UNCHANGED <<openTable, conQueue, struct>>
    BY <1>6 DEF ReceiveEof, OwnerInv, HandlerInv, Detached
  <2> QED
    BY <2>1, SamePool DEF Live
<1>7. CASE EofRemove(c)
  <2>1. /\ con[c] = openTable[c]
        /\ openTable' = [openTable EXCEPT ![c] = None]
        /\ UNCHANGED <<con, conQueue, struct>>
    BY <1>7 DEF EofRemove, OwnerInv, HandlerInv
  <2> QED
    BY <2>1, SamePool
<1>8. CASE EofPush(c)
  <2>1. /\ openTable[c] = None /\ con[c] \in Containers
        /\ con' = [con EXCEPT ![c] = None]
        /\ conQueue' = Append(conQueue, con[c])
        /\ UNCHANGED <<openTable, struct>>
    BY <1>8 DEF EofPush, AfterPush, OwnerInv, HandlerInv, Holding
  <2>2. /\ \A i \in 1 .. Len(conQueue) :
             i \in 1 .. Len(conQueue') /\ conQueue'[i] = conQueue[i]
        /\ \E i \in 1 .. Len(conQueue') : conQueue'[i] = con[c]
    <3>1. Len(conQueue) + 1 \in 1 .. Len(conQueue')
      BY <2>1
    <3>2. conQueue'[Len(conQueue) + 1] = con[c]
      BY <2>1
    <3> QED
      BY <2>1, <3>1, <3>2
  <2>3. Live' = Live
    BY <2>1 DEF Live
  <2>4. Reached'
    <3> SUFFICES ASSUME NEW k \in Live
                 PROVE  \/ \E d \in Conns : openTable'[d] = k \/ con'[d] = k
                        \/ \E i \in 1 .. Len(conQueue') : conQueue'[i] = k
      BY <2>3 DEF Reached
    <3>1. openTable[c] # k
      BY <2>1 DEF Live
    <3>2. \A d \in Conns \ {c} : openTable'[d] = openTable[d] /\ con'[d] = con[d]
      BY <2>1
    <3> QED
      BY <2>2, <3>1, <3>2, StillReached
  <2> QED
    BY <2>3, <2>4 DEF PoolInv
<1>9. CASE UNCHANGED <<openTable, con, conQueue, struct>>
  BY <1>9, SamePool
<1> QED
  BY <1>1, <1>2, <1>3, <1>4, <1>5, <1>6, <1>7, <1>8, <1>9 DEF Receive, Proceed,
     ReceiveSegment, ReceiveFeature, Probe, Link, Match, Decide, CopySlot, SendReply

(* No live container is ever out of reach, and there are never more of them *)
(* than connections, however many segments arrive (feature.c:286-310,       *)
(* main.c:70-85).                                                           *)
THEOREM PoolStaysBounded == Spec => []PoolBound
<1>1. Init => PoolInv
  <2> SUFFICES ASSUME Init  PROVE  PoolInv
    OBVIOUS
  <2>1. Live = {}
    BY DEF Init, Live
  <2>2. IsFiniteSet(Live) /\ Cardinality(Live) = 0
    BY <2>1, FS_EmptySet
  <2>3. Cardinality(Conns) \in Nat
    BY ConnsAssumption, FS_CardinalityType
  <2> QED
    BY <2>1, <2>2, <2>3 DEF PoolInv, Reached
<1>2. IInv /\ IInv' /\ PoolInv /\ [Next]_vars => PoolInv'
  <2>1. PoolInv /\ UNCHANGED vars => PoolInv'
    BY DEF PoolInv, Live, Reached, vars
  <2>2. IInv /\ IInv' /\ PoolInv /\ Next => PoolInv'
    BY PoolStep DEF IInv
  <2> QED
    BY <2>1, <2>2
<1>3. IInv /\ PoolInv => PoolBound
  <2> SUFFICES ASSUME IInv, PoolInv  PROVE  PoolBound
    OBVIOUS
  <2>1. DOMAIN conQueue = 1 .. Len(conQueue)
    BY DEF IInv, OwnerInv, TypeOK
  <2> QED
    BY <2>1 DEF PoolInv, Live, Reached, PoolBound
<1> QED
  BY <1>1, <1>2, <1>3, Inductive, PTL DEF Spec

-----------------------------------------------------------------------------
(* FeatureIndex implements SliceIndex.  A slice is copied under no lock     *)
(* while other handlers write, so what a query has seen must stay true     *)
(* after it looked.  An entry stays (EntryStep); a slot is blank until its *)
(* one writer comes (SlotInv), so that what was read from it, even while   *)
(* it was written, is its content for good (ReadStays).  QueryInv and      *)
(* CopyInv say this of the lookups and of the slots copied so far.         *)

(* The slot at used_slot is blank until a handler starts to write it.       *)
SlotInv ==
  /\ \A c \in Conns : pc[c] = "link" => data[con[c]][used[con[c]]] = Torn
  /\ \A k \in Containers :
       used[k] < GP_SIZE /\ (\A c \in Conns : pc[c] \in {"link", "bump"} => con[c] # k)
         => data[k][used[k]] = Zero

(* A query's handler, by where it is.  What a lookup returned stays true.   *)
QueryOK(c) ==
  /\ pc[c] \notin {"match", "copy", "send"} => cur[c] = <<>>
  /\ pc[c] \notin {"copy", "send"} => gp[c] = NoReply
  /\ Len(cur[c]) <= Len(todo[c])
  /\ \A i \in 1 .. Len(cur[c]) : cur[c][i] # None =>
       feaTable[todo[c][i]] # None /\ feaTable[todo[c][i]].con = cur[c][i]
  /\ pc[c] \in {"copy", "send"} => Len(cur[c]) = Len(todo[c])
  /\ pc[c] = "copy" =>
       /\ Len(gp[c].slots) < GP_SIZE
       /\ Cardinality(Hits(cur[c])) + promised[c] > HIT_THRES
       /\ IsBestCon(cur[c], gp[c].from)
  /\ pc[c] = "send" => gp[c] = NoReply \/ Len(gp[c].slots) = GP_SIZE

(* The slots copied so far.                                                 *)
CopyOK(c) ==
  pc[c] \in {"copy", "send"} /\ gp[c].from # None =>
    /\ \A s \in 1 .. Len(gp[c].slots) :
         gp[c].slots[s] \in SlotReads(gp[c].from, s - 1) \cup {Zero, Torn}
    /\ \A i \in 1 .. Len(cur[c]) :
         cur[c][i] = gp[c].from /\ feaTable[todo[c][i]].slot < Len(gp[c].slots) =>
           gp[c].slots[feaTable[todo[c][i]].slot + 1] = todo[c][i]

QueryInv == \A c \in Conns : QueryOK(c)
CopyInv == \A c \in Conns : CopyOK(c)
FullInv == IInv /\ SlotInv /\ QueryInv /\ CopyInv

-----------------------------------------------------------------------------
LEMMA QuietSlots ==
  ASSUME SlotInv, UNCHANGED <<used, data>>,
         \A d \in Conns : /\ pc'[d] = "link" <=> pc[d] = "link"
                          /\ pc'[d] = "bump" <=> pc[d] = "bump",
         \A d \in Conns : pc[d] \in {"link", "bump"} => con'[d] = con[d]
  PROVE  SlotInv'
BY DEF SlotInv

LEMMA SlotStep == OwnerInv /\ OwnerInv' /\ DataInv /\ SlotInv /\ Next => SlotInv'
<1> SUFFICES ASSUME OwnerInv, OwnerInv', DataInv, SlotInv,
                    NEW c \in Conns, Receive(c) \/ Proceed(c)
             PROVE  SlotInv'
  BY DEF Next
<1>0. /\ OwnerTypes
      /\ data \in [Containers -> [Slots -> Features \cup {Zero, Torn}]]
  BY DEF OwnerInv, TypeOK, OwnerTypes
<1> USE ConstantAssumption, <1>0
<1> USE DEF OwnerTypes, tableVars, openVars, heapVars, queryVars, Goto
<1>1. CASE ReceiveSegment(c)
  BY <1>1, QuietSlots DEF ReceiveSegment
<1>2. CASE LookupOpen(c)
  BY <1>2, QuietSlots DEF LookupOpen
<1>3. CASE PopContainer(c)
  <2>1. CASE conQueue # <<>>
    BY <1>3, <2>1, QuietSlots DEF PopContainer
  <2>2. CASE conQueue = <<>>
    <3>1. PICK k \in Containers :
            /\ struct[k] = "unallocated"
            /\ used' = [used EXCEPT ![k] = 0]
            /\ data' = [data EXCEPT ![k] = Unwritten]
            /\ con' = [con EXCEPT ![c] = k]
      BY <1>3, <2>2 DEF PopContainer
    <3>2. pc[c] = "pop" /\ pc' = [pc EXCEPT ![c] = "register"]
      BY <1>3 DEF PopContainer
    <3>3. \A d \in Conns : con[d] # k
      BY <3>1, Allocated DEF OwnerInv
    <3>4. \A d \in Conns : pc'[d] \in {"link", "bump"} <=> pc[d] \in {"link", "bump"}
      BY <3>2
    <3>5. ASSUME NEW d \in Conns, pc'[d] = "link"
          PROVE  data'[con'[d]][used'[con'[d]]] = Torn
      <4>1. d # c /\ pc[d] = "link" /\ con[d] # k /\ con[d] \in Containers
        BY <3>2, <3>3, <3>5 DEF OwnerInv, HandlerInv, Holding
      <4> QED
        BY <3>1, <4>1 DEF SlotInv
    <3>6. ASSUME NEW j \in Containers, used'[j] < GP_SIZE,
                 \A d \in Conns : pc'[d] \in {"link", "bump"} => con'[d] # j
          PROVE  data'[j][used'[j]] = Zero
      <4>1. CASE j = k
        <5>1. data'[j] = Unwritten /\ used'[j] = 0
          BY <3>1, <4>1
        <5> QED
          BY <5>1 DEF Unwritten, Slots
      <4>2. CASE j # k
        <5>1. \A d \in Conns : pc[d] \in {"link", "bump"} => con[d] # j
          BY <3>1, <3>2, <3>4, <3>6
        <5> QED
          BY <3>1, <3>6, <4>2, <5>1 DEF SlotInv
      <4> QED
        BY <4>1, <4>2
    <3> QED
      BY <3>5, <3>6 DEF SlotInv
  <2> QED
    BY <2>1, <2>2
<1>4. CASE Register(c)
  BY <1>4, QuietSlots DEF Register
<1>5. CASE Probe(c)
  <2>1. pc[c] = "probe"
    BY <1>5 DEF Probe
  <2>2. CASE IsThere(Head(todo[c]))
    BY <1>5, <2>1, <2>2, QuietSlots DEF Probe
  <2>3. CASE ~ IsThere(Head(todo[c]))
    <3>1. /\ pc' = [pc EXCEPT ![c] = "link"]
          /\ data' = [data EXCEPT ![con[c]][used[con[c]]] = Torn]
          /\ UNCHANGED <<used, con>>
      BY <1>5, <2>3 DEF Probe
    <3>2. con[c] \in Containers /\ used[con[c]] \in Slots /\ con[c] # None
      BY <2>1 DEF OwnerInv, HandlerInv, Holding, Slots
    <3>3. \A d \in Conns \ {c} : con[d] # con[c]
      BY <3>2 DEF OwnerInv, Apart
    <3>4. ASSUME NEW d \in Conns, pc'[d] = "link"
          PROVE  data'[con[d]][used[con[d]]] = Torn
      <4>1. CASE d = c
        BY <3>1, <3>2, <4>1
      <4>2. CASE d # c
        BY <3>1, <3>2, <3>3, <3>4, <4>2 DEF SlotInv
      <4> QED
        BY <4>1, <4>2
    <3>5. ASSUME NEW k \in Containers, used[k] < GP_SIZE,
                 \A d \in Conns : pc'[d] \in {"link", "bump"} => con[d] # k
          PROVE  data'[k][used[k]] = Zero
      <4>1. k # con[c]
        BY <3>1, <3>5
      <4>2. \A d \in Conns : pc[d] \in {"link", "bump"} => con[d] # k
        BY <2>1, <3>1, <3>5
      <4> QED
        BY <3>1, <3>5, <4>1, <4>2 DEF SlotInv
    <3> QED
      BY <3>1, <3>4, <3>5 DEF SlotInv
  <2> QED
    BY <2>2, <2>3
<1>6. CASE Link(c)
  <2>1. /\ pc[c] = "link"
        /\ pc' = [pc EXCEPT ![c] = "bump"]
        /\ data' = [data EXCEPT ![con[c]][used[con[c]]] = Head(todo[c])]
        /\ UNCHANGED <<used, con>>
    BY <1>6 DEF Link
  <2>2. con[c] \in Containers /\ con[c] # None
    BY <2>1 DEF OwnerInv, HandlerInv, Holding
  <2>3. \A d \in Conns \ {c} : con[d] # con[c]
    BY <2>2 DEF OwnerInv, Apart
  <2>4. ASSUME NEW d \in Conns, pc'[d] = "link"
        PROVE  data'[con[d]][used[con[d]]] = Torn
    <3>1. d # c /\ pc[d] = "link" /\ con[d] # con[c]
      BY <2>1, <2>3, <2>4
    <3> QED
      BY <2>1, <3>1 DEF SlotInv
  <2>5. ASSUME NEW k \in Containers, used[k] < GP_SIZE,
               \A d \in Conns : pc'[d] \in {"link", "bump"} => con[d] # k
        PROVE  data'[k][used[k]] = Zero
    <3>1. k # con[c] /\ \A d \in Conns : pc[d] \in {"link", "bump"} => con[d] # k
      BY <2>1, <2>5
    <3> QED
      BY <2>1, <2>5, <3>1 DEF SlotInv
  <2> QED
    BY <2>1, <2>4, <2>5 DEF SlotInv
<1>7. CASE Bump(c)
  <2>1. /\ pc[c] = "bump"
        /\ used' = [used EXCEPT ![con[c]] = used[con[c]] + 1]
        /\ UNCHANGED <<data, con>>
    BY <1>7 DEF Bump, NextSlot
  <2>2. \E p \in {"pop", "probe"} : pc' = [pc EXCEPT ![c] = p]
    BY <1>7 DEF Bump, AfterFull
  <2>3. con[c] \in Containers /\ con[c] # None
    BY <2>1 DEF OwnerInv, HandlerInv, Holding
  <2>4. \A d \in Conns \ {c} : con[d] # con[c]
    BY <2>3 DEF OwnerInv, Apart
  <2>5. ASSUME NEW d \in Conns, pc'[d] = "link"
        PROVE  data[con[d]][used'[con[d]]] = Torn
    <3>1. d # c /\ pc[d] = "link" /\ con[d] # con[c] /\ con[d] \in Containers
      BY <2>1, <2>2, <2>4, <2>5 DEF OwnerInv, HandlerInv, Holding
    <3> QED
      BY <2>1, <3>1 DEF SlotInv
  <2>6. ASSUME NEW k \in Containers, used'[k] < GP_SIZE,
               \A d \in Conns : pc'[d] \in {"link", "bump"} => con[d] # k
        PROVE  data[k][used'[k]] = Zero
    <3>1. CASE k = con[c]
      <4>1. used'[k] = used[k] + 1 /\ used[k] \in Nat
        BY <2>1, <2>3, <3>1
      <4>2. used'[k] \in Slots /\ used'[k] > used[k]
        BY <2>6, <4>1 DEF Slots
      <4> QED
        BY <4>2 DEF DataInv, SlotsPacked
    <3>2. CASE k # con[c]
      BY <2>1, <2>2, <2>6, <3>2 DEF SlotInv
    <3> QED
      BY <3>1, <3>2
  <2> QED
    BY <2>1, <2>5, <2>6 DEF SlotInv
<1>8. CASE FinishSegment(c)
  BY <1>8, QuietSlots DEF FinishSegment
<1>9. CASE ReceiveEof(c)
  BY <1>9, QuietSlots DEF ReceiveEof
<1>10. CASE EofRemove(c)
  BY <1>10, QuietSlots DEF EofRemove
<1>11. CASE EofPush(c)
  BY <1>11, QuietSlots DEF EofPush
<1>12. CASE ReceiveFeature(c)
  BY <1>12, QuietSlots DEF ReceiveFeature
<1>13. CASE Match(c)
  BY <1>13, QuietSlots DEF Match
<1>14. CASE Decide(c)
  BY <1>14, QuietSlots DEF Decide
<1>15. CASE CopySlot(c)
  BY <1>15, QuietSlots DEF CopySlot
<1>16. CASE SendReply(c)
  BY <1>16, QuietSlots DEF SendReply
<1> QED
  BY <1>1, <1>2, <1>3, <1>4, <1>5, <1>6, <1>7, <1>8, <1>9, <1>10, <1>11, <1>12,
     <1>13, <1>14, <1>15, <1>16 DEF Receive, Proceed

-----------------------------------------------------------------------------
(* Who may be reading what.  A torn slot is the one its owner is writing.    *)
LEMMA TornIsNext ==
  ASSUME OwnerInv, DataInv, SlotInv,
         NEW k \in Containers, NEW s \in Slots, data[k][s] = Torn
  PROVE  s = used[k]
<1>1. s \in Nat /\ used[k] \in Nat
  BY ConstantAssumption DEF OwnerInv, TypeOK, Slots
<1>2. ~ (s < used[k])
  BY ConstantAssumption DEF DataInv, SlotsPacked
<1>3. ~ (s > used[k])
  BY ConstantAssumption DEF DataInv, SlotsPacked
<1> QED
  BY <1>1, <1>2, <1>3

Seen(k, s) == SlotReads(k, s) \cup {Zero, Torn}

LEMMA QuietReads ==
  ASSUME NEW k \in Containers, NEW s \in Slots, data'[k][s] = data[k][s],
         \A d \in Conns : /\ pc'[d] = "link" <=> pc[d] = "link"
                          /\ pc[d] = "link" => con'[d] = con[d] /\ todo'[d] = todo[d]
  PROVE  SlotReads(k, s)' = SlotReads(k, s)
BY DEF SlotReads

(* What was read from a slot is, or is being made, its content for good: a  *)
(* slot is written once, by one handler.                                    *)
LEMMA ReadStays ==
  ASSUME OwnerInv, OwnerInv', DataInv, SlotInv, Next,
         NEW k \in Containers, NEW s \in Slots, NEW v \in Seen(k, s)
  PROVE  v \in Seen(k, s)'
<1> PICK c \in Conns : Receive(c) \/ Proceed(c)
  BY DEF Next
<1>0. /\ OwnerTypes
      /\ data \in [Containers -> [Slots -> Features \cup {Zero, Torn}]]
  BY DEF OwnerInv, TypeOK, OwnerTypes
<1> USE ConstantAssumption, <1>0
<1> USE DEF OwnerTypes, tableVars, openVars, heapVars, queryVars, Goto
<1>1. CASE PopContainer(c)
  <2>1. CASE conQueue # <<>>
    <3>1. UNCHANGED data
      BY <1>1, <2>1 DEF PopContainer
    <3>2. SlotReads(k, s)' = SlotReads(k, s)
      BY <1>1, <3>1, QuietReads DEF PopContainer
    <3> QED
      BY <3>2 DEF Seen
  <2>2. CASE conQueue = <<>>
    <3>1. PICK j \in Containers :
            /\ struct[j] = "unallocated"
            /\ data' = [data EXCEPT ![j] = Unwritten]
            /\ con' = [con EXCEPT ![c] = j]
      BY <1>1, <2>2 DEF PopContainer
    <3>2. /\ pc[c] = "pop" /\ pc' = [pc EXCEPT ![c] = "register"]
          /\ UNCHANGED todo
      BY <1>1 DEF PopContainer
    <3>3. CASE j = k
      <4>1. \A d \in Conns : con[d] # k
        BY <3>1, <3>3, Allocated DEF OwnerInv
      <4>2. used[k] = 0
        BY <3>1, <3>3 DEF OwnerInv, UnallocatedInv
      <4>3. data[k][s] = Zero
        <5>1. s \in Nat /\ (s = used[k] \/ s > used[k])
          BY <4>2 DEF Slots
        <5>2. data[k][used[k]] = Zero
          <6>1. used[k] < GP_SIZE
            BY <4>2
          <6> QED
            BY <4>1, <6>1 DEF SlotInv
        <5> QED
          BY <5>1, <5>2 DEF DataInv, SlotsPacked
      <4> QED
        BY <4>3 DEF Seen, SlotReads
    <3>4. CASE j # k
      <4>1. data'[k] = data[k]
        BY <3>1, <3>4
      <4>2. SlotReads(k, s)' = SlotReads(k, s)
        BY <3>1, <3>2, <4>1, QuietReads
      <4> QED
        BY <4>2 DEF Seen
    <3> QED
      BY <3>3, <3>4
  <2> QED
    BY <2>1, <2>2
<1>2. CASE Probe(c)
  <2>1. pc[c] = "probe" /\ UNCHANGED <<con, used>>
    BY <1>2 DEF Probe
  <2>2. CASE IsThere(Head(todo[c]))
    <3>1. SlotReads(k, s)' = SlotReads(k, s)
      BY <1>2, <2>1, <2>2, QuietReads DEF Probe
    <3> QED
      BY <3>1 DEF Seen
  <2>3. CASE ~ IsThere(Head(todo[c]))
    <3>1. /\ pc' = [pc EXCEPT ![c] = "link"]
          /\ data' = [data EXCEPT ![con[c]][used[con[c]]] = Torn]
          /\ UNCHANGED todo
      BY <1>2, <2>3 DEF Probe
    <3>2. con[c] \in Containers /\ used[con[c]] \in Slots /\ con[c] # None
      BY <2>1 DEF OwnerInv, HandlerInv, Holding, Slots
    <3>3. CASE k = con[c] /\ s = used[k]
      <4>1. \A d \in Conns : pc[d] \in {"link", "bump"} => con[d] # k
        BY <2>1, <3>2, <3>3 DEF OwnerInv, Apart
      <4>2. data[k][s] = Zero
        <5>1. used[k] < GP_SIZE
          BY <3>2, <3>3 DEF Slots
        <5> QED
          BY <3>3, <4>1, <5>1 DEF SlotInv
      <4> QED
        BY <4>2 DEF Seen, SlotReads
    <3>4. CASE ~ (k = con[c] /\ s = used[k])
      <4>1. data'[k][s] = data[k][s]
        BY <3>1, <3>2, <3>4
      <4>2. CASE data[k][s] # Torn
        BY <4>1, <4>2 DEF Seen, SlotReads
      <4>3. CASE data[k][s] = Torn
        <5>1. con[c] # k
          BY <3>4, <4>3, TornIsNext
        <5>2. {d \in Conns : pc'[d] = "link" /\ con'[d] = k}
                = {d \in Conns : pc[d] = "link" /\ con[d] = k}
          BY <2>1, <3>1, <5>1
        <5> QED
          BY <3>1, <4>1, <5>2 DEF Seen, SlotReads
      <4> QED
        BY <4>2, <4>3
    <3> QED
      BY <3>3, <3>4
  <2> QED
    BY <2>2, <2>3
<1>3. CASE Link(c)
  <2>1. /\ pc[c] = "link"
        /\ pc' = [pc EXCEPT ![c] = "bump"]
        /\ data' = [data EXCEPT ![con[c]][used[con[c]]] = Head(todo[c])]
        /\ UNCHANGED <<con, used, todo>>
    BY <1>3 DEF Link
  <2>2. con[c] \in Containers /\ used[con[c]] \in Slots /\ con[c] # None
    BY <2>1 DEF OwnerInv, HandlerInv, Holding, Slots
  <2>3. CASE k = con[c] /\ s = used[k]
    <3>1. data[k][s] = Torn /\ data'[k][s] = Head(todo[c])
      BY <2>1, <2>2, <2>3 DEF SlotInv
    <3>2. {d \in Conns : pc[d] = "link" /\ con[d] = k} = {c}
      BY <2>1, <2>2, <2>3 DEF OwnerInv, Apart
    <3>3. v \in {Zero, Torn, Head(todo[c])}
      BY <3>1, <3>2 DEF Seen, SlotReads
    <3>4. Head(todo[c]) # Torn
      BY <2>1, HeadTail DEF OwnerInv, HandlerInv
    <3> QED
      BY <3>1, <3>3, <3>4 DEF Seen, SlotReads
  <2>4. CASE ~ (k = con[c] /\ s = used[k])
    <3>1. data'[k][s] = data[k][s]
      BY <2>1, <2>2, <2>4
    <3>2. CASE data[k][s] # Torn
      BY <3>1, <3>2 DEF Seen, SlotReads
    <3>3. CASE data[k][s] = Torn
      <4>1. con[c] # k
        BY <2>4, <3>3, TornIsNext
      <4>2. {d \in Conns : pc'[d] = "link" /\ con'[d] = k}
              = {d \in Conns : pc[d] = "link" /\ con[d] = k}
        BY <2>1, <4>1
      <4> QED
        BY <2>1, <3>1, <4>2 DEF Seen, SlotReads
    <3> QED
      BY <3>2, <3>3
  <2> QED
    BY <2>3, <2>4
<1> DEFINE Quiet == /\ UNCHANGED data
                    /\ \A d \in Conns :
                         /\ pc'[d] = "link" <=> pc[d] = "link"
                         /\ pc[d] = "link" => con'[d] = con[d] /\ todo'[d] = todo[d]
<1>4. CASE Quiet
  <2>1. SlotReads(k, s)' = SlotReads(k, s)
    BY <1>4, QuietReads
  <2> QED
    BY <2>1 DEF Seen
<1>5. ReceiveSegment(c) \/ ReceiveEof(c) \/ ReceiveFeature(c) \/ LookupOpen(c) => Quiet
  BY DEF ReceiveSegment, ReceiveEof, ReceiveFeature, LookupOpen
<1>6. Register(c) \/ FinishSegment(c) \/ EofRemove(c) \/ EofPush(c) => Quiet
  BY DEF Register, FinishSegment, EofRemove, EofPush
<1>7. Bump(c) => Quiet
  BY DEF Bump, AfterFull
<1>8. Match(c) \/ Decide(c) \/ CopySlot(c) \/ SendReply(c) => Quiet
  BY DEF Match, Decide, CopySlot, SendReply
<1> QED
  BY <1>1, <1>2, <1>3, <1>4, <1>5, <1>6, <1>7, <1>8 DEF Receive, Proceed

-----------------------------------------------------------------------------
QueryTypes ==
  /\ pc \in [Conns -> PCs]
  /\ con \in [Conns -> Containers \cup {None}]
  /\ todo \in [Conns -> Seq(Features)]
  /\ promised \in [Conns -> Promises]
  /\ cur \in [Conns -> Seq(Containers \cup {None})]
  /\ gp \in [Conns -> [from : Containers \cup {None},
                       slots : Seq(Features \cup {Zero, Torn})]]

(* A handler has its own variables.                                         *)
LEMMA OthersWait ==
  ASSUME QueryTypes, NEW c \in Conns, Receive(c) \/ Proceed(c), NEW d \in Conns \ {c}
  PROVE  /\ pc'[d] = pc[d] /\ todo'[d] = todo[d] /\ promised'[d] = promised[d]
         /\ cur'[d] = cur[d] /\ gp'[d] = gp[d] /\ con'[d] = con[d]
<1> USE DEF QueryTypes, Goto, queryVars
<1>1. CASE ReceiveSegment(c) \/ ReceiveEof(c) \/ ReceiveFeature(c) \/ LookupOpen(c)
  BY <1>1 DEF ReceiveSegment, ReceiveEof, ReceiveFeature, LookupOpen
<1>2. CASE PopContainer(c)
  BY <1>2 DEF PopContainer
<1>3. CASE Register(c) \/ FinishSegment(c) \/ EofRemove(c) \/ EofPush(c)
  BY <1>3 DEF Register, FinishSegment, EofRemove, EofPush
<1>4. CASE Probe(c)
  BY <1>4 DEF Probe
<1>5. CASE Link(c)
  BY <1>5 DEF Link
<1>6. CASE Bump(c)
  BY <1>6 DEF Bump
<1>7. CASE Match(c)
  BY <1>7 DEF Match
<1>8. CASE Decide(c)
  BY <1>8 DEF Decide
<1>9. CASE CopySlot(c)
  <2>1. \E r : gp' = [gp EXCEPT ![c] = r]
    BY <1>9 DEF CopySlot
  <2>2. /\ \E p : pc' = [pc EXCEPT ![c] = p]
        /\ UNCHANGED <<con, todo, promised, cur>>
    BY <1>9 DEF CopySlot
  <2> QED
    BY <2>1, <2>2
<1>10. CASE SendReply(c)
  BY <1>10 DEF SendReply
<1> QED
  BY <1>1, <1>2, <1>3, <1>4, <1>5, <1>6, <1>7, <1>8, <1>9, <1>10 DEF Receive, Proceed

LEMMA OtherQuery ==
  ASSUME IInv, Next, QueryTypes, NEW d \in Conns, QueryOK(d),
         pc'[d] = pc[d], todo'[d] = todo[d], promised'[d] = promised[d],
         cur'[d] = cur[d], gp'[d] = gp[d]
  PROVE  QueryOK(d)'
<1>1. ASSUME NEW i \in 1 .. Len(cur[d]), cur[d][i] # None
      PROVE  feaTable'[todo[d][i]] # None /\ feaTable'[todo[d][i]].con = cur[d][i]
  <2>1. todo[d][i] \in Features
    <3>1. Len(cur[d]) <= Len(todo[d]) /\ Len(cur[d]) \in Nat /\ Len(todo[d]) \in Nat
      BY DEF QueryOK, QueryTypes
    <3>2. i \in 1 .. Len(todo[d])
      BY <3>1
    <3> QED
      BY <3>2 DEF QueryTypes
  <2>2. feaTable[todo[d][i]] # None /\ feaTable[todo[d][i]].con = cur[d][i]
    BY <1>1 DEF QueryOK
  <2> QED
    BY <2>1, <2>2, EntryStep
<1> QED
  BY <1>1 DEF QueryOK

(* Where there is no query under way there is nothing to be wrong.          *)
LEMMA NoQuery ==
  ASSUME QueryTypes', NEW c \in Conns, pc'[c] \notin {"match", "copy", "send"},
         cur'[c] = <<>>, gp'[c] = NoReply
  PROVE  QueryOK(c)'
<1>1. Len(todo'[c]) \in Nat /\ Len(cur'[c]) = 0
  BY DEF QueryTypes
<1> QED
  BY <1>1 DEF QueryOK

(* Each step of a query, and the steps that are none.                       *)
LEMMA QueryStep == IInv /\ IInv' /\ QueryInv /\ Next => QueryInv'
<1> SUFFICES ASSUME IInv, IInv', QueryInv, Next, NEW c \in Conns, Receive(c) \/ Proceed(c)
             PROVE  QueryInv'
  BY DEF Next
<1>0. QueryTypes /\ QueryTypes'
  BY DEF IInv, OwnerInv, TypeOK, QueryTypes
<1>1. \A d \in Conns \ {c} : QueryOK(d)'
  <2> SUFFICES ASSUME NEW d \in Conns \ {c}  PROVE  QueryOK(d)'
    OBVIOUS
  <2>1. QueryOK(d)
    BY DEF QueryInv
  <2> QED
    BY <1>0, <2>1, OthersWait, OtherQuery
<1>2. QueryOK(c)
  BY DEF QueryInv
<1> SUFFICES QueryOK(c)'
  BY <1>1 DEF QueryInv
<1>3. CASE Match(c)
  <2> DEFINE n == Len(cur[c]) + 1
  <2> DEFINE f == todo[c][n]
  <2> DEFINE value == IF feaTable[f] = None THEN None ELSE feaTable[f].con
  <2>1. /\ pc[c] = "match" /\ Len(cur[c]) < Len(todo[c])
        /\ cur' = [cur EXCEPT ![c] = Append(@, value)]
        /\ UNCHANGED <<feaTable, todo, promised, gp>>
        /\ pc' = pc
    BY <1>0, <1>3 DEF Match, Goto, tableVars, QueryTypes
  <2>2. /\ cur[c] \in Seq(Containers \cup {None}) /\ cur'[c] = Append(cur[c], value)
        /\ pc'[c] = "match" /\ gp[c] = NoReply
        /\ Len(todo[c]) \in Nat /\ Len(cur[c]) \in Nat
    BY <1>0, <1>2, <2>1 DEF QueryTypes, QueryOK
  <2>3. value # None => feaTable[f] # None /\ feaTable[f].con = value
    OBVIOUS
  <2> HIDE DEF value, f
  <2>4. Len(cur'[c]) = n
    BY <2>2
  <2>5. ASSUME NEW i \in 1 .. Len(cur'[c]), cur'[c][i] # None
        PROVE  feaTable[todo[c][i]] # None /\ feaTable[todo[c][i]].con = cur'[c][i]
    <3>1. CASE i = n
      BY <2>2, <2>3, <2>5, <3>1 DEF f
    <3>2. CASE i # n
      <4>1. i \in 1 .. Len(cur[c]) /\ cur'[c][i] = cur[c][i]
        BY <2>2, <2>4, <3>2
      <4> QED
        BY <1>2, <2>5, <4>1 DEF QueryOK
    <3> QED
      BY <3>1, <3>2
  <2>6. Len(cur'[c]) <= Len(todo[c])
    BY <2>1, <2>2, <2>4
  <2> QED
    BY <2>1, <2>2, <2>5, <2>6 DEF QueryOK
<1>4. CASE Decide(c)
  <2>1. /\ pc[c] = "match" /\ Len(cur[c]) = Len(todo[c])
        /\ UNCHANGED <<feaTable, todo, promised, cur>>
    BY <1>4 DEF Decide, tableVars
  <2>2. gp[c] = NoReply
    BY <1>2, <2>1 DEF QueryOK
  <2>3. CASE Cardinality(Hits(cur[c])) + promised[c] > HIT_THRES
    <3>1. pc'[c] = "copy"
      BY <1>0, <1>4, <2>3 DEF Decide, Goto, QueryTypes
    <3>2. PICK k \in Containers \cup {None} :
            /\ IF Hits(cur[c]) = {} THEN k = None ELSE IsBestCon(cur[c], k)
            /\ gp' = [gp EXCEPT ![c] = [from |-> k, slots |-> <<>>]]
      BY <1>4, <2>3 DEF Decide
    <3>3. gp'[c] = [from |-> k, slots |-> <<>>]
      BY <1>0, <3>2 DEF QueryTypes
    <3>4. gp'[c].from # None
      BY <3>1 DEF IInv, BestExists
    <3>5. IsBestCon(cur[c], gp'[c].from)
      <4>1. Hits(cur[c]) # {}
        BY <3>2, <3>3, <3>4
      <4> QED
        BY <3>2, <3>3, <4>1
    <3>6. Len(gp'[c].slots) < GP_SIZE
      BY <3>3, ConstantAssumption
    <3> QED
      BY <1>2, <2>1, <2>3, <3>1, <3>5, <3>6 DEF QueryOK
  <2>4. CASE ~ (Cardinality(Hits(cur[c])) + promised[c] > HIT_THRES)
    <3>1. pc'[c] = "send" /\ gp' = gp
      BY <1>0, <1>4, <2>4 DEF Decide, Goto, QueryTypes
    <3> QED
      BY <1>2, <2>1, <2>2, <3>1 DEF QueryOK
  <2> QED
    BY <2>3, <2>4
<1>5. CASE CopySlot(c)
  <2> DEFINE s == Len(gp[c].slots)
  <2>1. /\ pc[c] = "copy" /\ s < GP_SIZE /\ s \in Nat
        /\ pc' = [pc EXCEPT ![c] = IF s = GP_SIZE - 1 THEN "send" ELSE "copy"]
        /\ UNCHANGED <<feaTable, todo, promised, cur>>
    BY <1>0, <1>5 DEF CopySlot, SliceLen, Goto, tableVars, QueryTypes
  <2>2. PICK v \in SlotReads(gp[c].from, s) :
          gp' = [gp EXCEPT ![c] = [from |-> gp[c].from, slots |-> Append(gp[c].slots, v)]]
    BY <1>5 DEF CopySlot
  <2>3. gp'[c] = [from |-> gp[c].from, slots |-> Append(gp[c].slots, v)]
    BY <1>0, <2>2 DEF QueryTypes
  <2>4. gp'[c].from = gp[c].from /\ Len(gp'[c].slots) = s + 1
    <3>1. gp[c].slots \in Seq(Features \cup {Zero, Torn})
      BY <1>0 DEF QueryTypes
    <3>2. Len(Append(gp[c].slots, v)) = s + 1
      BY <3>1
    <3> QED
      BY <2>3, <3>2
  <2>5. pc'[c] = IF s = GP_SIZE - 1 THEN "send" ELSE "copy"
    BY <1>0, <2>1 DEF QueryTypes
  <2>6. CASE s = GP_SIZE - 1
    <3>1. pc'[c] = "send" /\ Len(gp'[c].slots) = GP_SIZE
      BY <2>1, <2>4, <2>5, <2>6, ConstantAssumption
    <3> QED
      BY <1>2, <2>1, <3>1 DEF QueryOK
  <2>7. CASE s # GP_SIZE - 1
    <3>1. pc'[c] = "copy" /\ Len(gp'[c].slots) < GP_SIZE
      BY <2>1, <2>4, <2>5, <2>7, ConstantAssumption
    <3> QED
      BY <1>2, <2>1, <2>4, <3>1 DEF QueryOK
  <2> QED
    BY <2>6, <2>7
<1>6. CASE SendReply(c)
  <2>1. pc'[c] = "idle" /\ cur'[c] = <<>> /\ gp'[c] = NoReply
    BY <1>0, <1>6 DEF SendReply, Goto, QueryTypes
  <2> QED
    BY <1>0, <2>1, NoQuery
<1>7. CASE ReceiveFeature(c)
  <2>1. pc[c] = "idle" /\ pc'[c] = "match" /\ cur'[c] = <<>> /\ gp' = gp
    BY <1>0, <1>7 DEF ReceiveFeature, Goto, QueryTypes
  <2>2. gp[c] = NoReply
    BY <1>2, <2>1 DEF QueryOK
  <2>3. Len(cur'[c]) = 0 /\ Len(todo'[c]) \in Nat
    BY <1>0, <2>1 DEF QueryTypes
  <2> QED
    BY <2>1, <2>2, <2>3 DEF QueryOK
<1> DEFINE Other == /\ UNCHANGED <<cur, gp>>
                    /\ pc[c] \notin {"match", "copy", "send"}
                    /\ pc'[c] \notin {"match", "copy", "send"}
<1>8. CASE Other
  BY <1>0, <1>2, <1>8, NoQuery DEF QueryOK
<1> USE <1>0 DEF QueryTypes, Goto, queryVars
<1>9. ReceiveSegment(c) \/ ReceiveEof(c) \/ LookupOpen(c) => Other
  BY DEF ReceiveSegment, ReceiveEof, LookupOpen
<1>10. Register(c) \/ FinishSegment(c) \/ EofRemove(c) \/ EofPush(c) => Other
  BY DEF Register, FinishSegment, EofRemove, EofPush
<1>11. PopContainer(c) => Other
  BY DEF PopContainer
<1>12. Probe(c) => Other
  BY DEF Probe
<1>13. Link(c) => Other
  BY DEF Link
<1>14. Bump(c) => Other
  BY DEF Bump, AfterFull
<1> QED
  BY <1>3, <1>4, <1>5, <1>6, <1>7, <1>8, <1>9, <1>10, <1>11, <1>12, <1>13, <1>14
     DEF Receive, Proceed

-----------------------------------------------------------------------------
(* A query's hits are features of the table.                                *)
LEMMA HitIsEntry ==
  ASSUME IInv, NEW d \in Conns, QueryOK(d),
         NEW i \in 1 .. Len(cur[d]), cur[d][i] # None
  PROVE  /\ todo[d][i] \in Features
         /\ feaTable[todo[d][i]] \in Entry
         /\ feaTable[todo[d][i]] # None
         /\ feaTable[todo[d][i]].con = cur[d][i]
<1>1. /\ todo[d] \in Seq(Features) /\ cur[d] \in Seq(Containers \cup {None})
      /\ feaTable \in [Features -> Entry \cup {None}]
  BY DEF IInv, OwnerInv, TypeOK
<1>2. Len(cur[d]) <= Len(todo[d]) /\ Len(cur[d]) \in Nat /\ Len(todo[d]) \in Nat
  BY <1>1 DEF QueryOK
<1>3. i \in 1 .. Len(todo[d])
  BY <1>2
<1>4. todo[d][i] \in Features
  BY <1>1, <1>3
<1>5. feaTable[todo[d][i]] # None /\ feaTable[todo[d][i]].con = cur[d][i]
  BY DEF QueryOK
<1> QED
  BY <1>1, <1>4, <1>5

LEMMA Appended ==
  ASSUME NEW S, NEW q \in Seq(S), NEW v, Append(q, v) \in Seq(S)
  PROVE  /\ Len(Append(q, v)) = Len(q) + 1
         /\ Append(q, v)[Len(q) + 1] = v
         /\ \A i \in 1 .. Len(q) : Append(q, v)[i] = q[i]
OBVIOUS

(* The slots a handler copied stay true while others write.                 *)
LEMMA OtherCopy ==
  ASSUME IInv, IInv', SlotInv, Next, QueryTypes, NEW d \in Conns, QueryOK(d), CopyOK(d),
         pc'[d] = pc[d], todo'[d] = todo[d], cur'[d] = cur[d], gp'[d] = gp[d]
  PROVE  CopyOK(d)'
<1> SUFFICES ASSUME pc[d] \in {"copy", "send"}, gp[d].from # None
             PROVE  CopyOK(d)'
  BY DEF CopyOK
<1>1. /\ gp[d].from \in Containers
      /\ gp[d].slots \in Seq(Features \cup {Zero, Torn})
  BY DEF QueryTypes
<1>2. Len(gp[d].slots) \in Nat /\ Len(gp[d].slots) <= GP_SIZE
  BY <1>1, ConstantAssumption DEF QueryOK, NoReply
<1>3. ASSUME NEW s \in 1 .. Len(gp[d].slots)
      PROVE  gp[d].slots[s] \in Seen(gp[d].from, s - 1)'
  <2>1. s - 1 \in Slots
    BY <1>2, ConstantAssumption DEF Slots
  <2>2. gp[d].slots[s] \in Seen(gp[d].from, s - 1)
    BY DEF CopyOK, Seen
  <2> QED
    BY <1>1, <2>1, <2>2, ReadStays DEF IInv
<1>4. ASSUME NEW i \in 1 .. Len(cur[d]), cur[d][i] = gp[d].from
      PROVE  feaTable'[todo[d][i]] = feaTable[todo[d][i]]
  BY <1>4, HitIsEntry, EntryStep
<1> QED
  BY <1>3, <1>4 DEF CopyOK, Seen

LEMMA CopyStep == IInv /\ IInv' /\ SlotInv /\ QueryInv /\ CopyInv /\ Next => CopyInv'
<1> SUFFICES ASSUME IInv, IInv', SlotInv, QueryInv, CopyInv, Next,
                    NEW c \in Conns, Receive(c) \/ Proceed(c)
             PROVE  CopyInv'
  BY DEF Next
<1>0. QueryTypes /\ QueryTypes'
  BY DEF IInv, OwnerInv, TypeOK, QueryTypes
<1>1. \A d \in Conns \ {c} : CopyOK(d)'
  <2> SUFFICES ASSUME NEW d \in Conns \ {c}  PROVE  CopyOK(d)'
    OBVIOUS
  <2>1. QueryOK(d) /\ CopyOK(d)
    BY DEF QueryInv, CopyInv
  <2> QED
    BY <1>0, <2>1, OthersWait, OtherCopy
<1>2. QueryOK(c) /\ CopyOK(c)
  BY DEF QueryInv, CopyInv
<1> SUFFICES CopyOK(c)'
  BY <1>1 DEF CopyInv
<1>3. CASE CopySlot(c)
  <2>k. PICK k : k = gp[c].from
    OBVIOUS
  <2>n. PICK n : n = Len(gp[c].slots)
    OBVIOUS
  <2>1. /\ pc[c] = "copy" /\ k # None
        /\ UNCHANGED <<feaTable, todo, cur>>
    BY <1>3, <2>k DEF CopySlot, Goto, tableVars
  <2>2. PICK v \in SlotReads(k, n) :
          gp' = [gp EXCEPT ![c] = [from |-> k, slots |-> Append(gp[c].slots, v)]]
    BY <1>3, <2>k, <2>n DEF CopySlot
  <2>3. gp'[c] = [from |-> k, slots |-> Append(gp[c].slots, v)]
    BY <1>0, <2>2 DEF QueryTypes
  <2>4. /\ k \in Containers /\ gp[c].slots \in Seq(Features \cup {Zero, Torn})
        /\ gp'[c].slots \in Seq(Features \cup {Zero, Torn})
        /\ n \in Slots
    BY <1>0, <1>2, <2>1, <2>k, <2>n, ConstantAssumption DEF QueryTypes, QueryOK, Slots
  <2>5. /\ Len(gp'[c].slots) = n + 1
        /\ gp'[c].slots[n + 1] = v
        /\ \A s \in 1 .. n : gp'[c].slots[s] = gp[c].slots[s]
    BY <2>3, <2>4, <2>n, Appended
  <2>6. ASSUME NEW s \in 1 .. n + 1  PROVE  gp'[c].slots[s] \in Seen(k, s - 1)'
    <3>1. s - 1 \in Slots /\ (s \in 1 .. n \/ s = n + 1)
      <4>1. n \in Nat /\ n <= GP_SIZE - 1 /\ GP_SIZE \in Nat
        BY <2>4, ConstantAssumption DEF Slots
      <4> QED
        BY <4>1 DEF Slots
    <3>2. gp'[c].slots[s] \in Seen(k, s - 1)
      <4>1. CASE s \in 1 .. n
        BY <1>2, <2>1, <2>5, <2>k, <2>n, <4>1 DEF CopyOK, Seen
      <4>2. CASE s = n + 1
        <5>1. s - 1 = n
          BY <2>4, <4>2 DEF Slots
        <5> QED
          BY <2>5, <4>2, <5>1 DEF Seen
      <4> QED
        BY <3>1, <4>1, <4>2
    <3> QED
      BY <2>4, <3>1, <3>2, ReadStays DEF IInv
  <2>7. ASSUME NEW i \in 1 .. Len(cur[c]), cur[c][i] = k,
               feaTable[todo[c][i]].slot < n + 1
        PROVE  gp'[c].slots[feaTable[todo[c][i]].slot + 1] = todo[c][i]
    <3> DEFINE f == todo[c][i]
    <3>1. /\ f \in Features /\ feaTable[f] \in Entry /\ feaTable[f] # None
          /\ feaTable[f].con = k
      BY <1>2, <2>1, <2>7, HitIsEntry
    <3>2. feaTable[f].slot \in Nat
      BY <3>1 DEF Entry, Slots
    <3>3. CASE feaTable[f].slot < n
      <4>1. gp[c].slots[feaTable[f].slot + 1] = f
        BY <1>2, <2>1, <2>7, <2>k, <2>n, <3>3 DEF CopyOK
      <4>2. feaTable[f].slot + 1 \in 1 .. n
        BY <2>4, <3>2, <3>3 DEF Slots
      <4> QED
        BY <2>5, <4>1, <4>2
    <3>4. CASE feaTable[f].slot = n
      <4>1. data[k][n] = f
        BY <3>1, <3>4 DEF IInv, DataInv, KeysIntact
      <4>2. v = f
        BY <3>1, <4>1, ConstantAssumption DEF SlotReads
      <4> QED
        BY <2>5, <3>4, <4>2
    <3>5. feaTable[f].slot < n \/ feaTable[f].slot = n
      BY <2>4, <2>7, <3>2 DEF Slots
    <3> QED
      BY <3>3, <3>4, <3>5
  <2>8. gp'[c].from = k
    BY <2>3
  <2> QED
    BY <2>1, <2>5, <2>6, <2>7, <2>8 DEF CopyOK, Seen
<1>4. CASE Decide(c)
  <2>1. CASE Cardinality(Hits(cur[c])) + promised[c] > HIT_THRES
    <3>1. gp'[c].slots = <<>>
      BY <1>0, <1>4, <2>1 DEF Decide, QueryTypes
    <3>2. UNCHANGED <<feaTable, todo, cur>>
      BY <1>4 DEF Decide, tableVars
    <3>3. ASSUME NEW i \in 1 .. Len(cur[c]), cur[c][i] # None
          PROVE  ~ (feaTable[todo[c][i]].slot < 0)
      BY <1>2, <3>3, HitIsEntry, ConstantAssumption DEF Entry, Slots
    <3> QED
      BY <3>1, <3>2, <3>3 DEF CopyOK
  <2>2. CASE ~ (Cardinality(Hits(cur[c])) + promised[c] > HIT_THRES)
    <3>1. gp'[c] = NoReply
      BY <1>2, <1>4, <2>2 DEF Decide, Goto, QueryOK
    <3> QED
      BY <3>1 DEF CopyOK, NoReply
  <2> QED
    BY <2>1, <2>2
<1> DEFINE Other == pc'[c] \notin {"copy", "send"}
<1>5. CASE Other
  BY <1>5 DEF CopyOK
<1> USE <1>0 DEF QueryTypes, Goto
<1>6. ReceiveSegment(c) \/ ReceiveEof(c) \/ ReceiveFeature(c) \/ LookupOpen(c) => Other
  BY DEF ReceiveSegment, ReceiveEof, ReceiveFeature, LookupOpen
<1>7. Register(c) \/ FinishSegment(c) \/ EofRemove(c) \/ EofPush(c) => Other
  BY DEF Register, FinishSegment, EofRemove, EofPush
<1>8. PopContainer(c) => Other
  BY DEF PopContainer
<1>9. Probe(c) => Other
  BY DEF Probe
<1>10. Link(c) => Other
  BY DEF Link
<1>11. Bump(c) => Other
  BY DEF Bump, AfterFull
<1>12. Match(c) \/ SendReply(c) => Other
  BY DEF Match, SendReply
<1> QED
  BY <1>3, <1>4, <1>5, <1>6, <1>7, <1>8, <1>9, <1>10, <1>11, <1>12 DEF Receive, Proceed

-----------------------------------------------------------------------------
LEMMA InitFull == Init => FullInv
<1> SUFFICES ASSUME Init  PROVE  FullInv
  OBVIOUS
<1>1. IInv
  BY InitIInv
<1> USE ConstantAssumption DEF Init
<1>2. SlotInv
  BY DEF SlotInv, Unwritten, Slots
<1>3. QueryInv
  BY DEF QueryInv, QueryOK
<1>4. CopyInv
  BY DEF CopyInv, CopyOK
<1> QED
  BY <1>1, <1>2, <1>3, <1>4 DEF FullInv

LEMMA StutterFull == FullInv /\ UNCHANGED vars => FullInv'
<1> SUFFICES ASSUME FullInv, UNCHANGED vars  PROVE  FullInv'
  OBVIOUS
<1>1. IInv'
  BY StutterIInv DEF FullInv
<1> USE DEF vars, tableVars, openVars, heapVars, queryVars
<1>2. SlotInv'
  BY DEF FullInv, SlotInv
<1>3. QueryInv'
  BY DEF FullInv, QueryInv, QueryOK
<1>4. CopyInv'
  BY DEF FullInv, CopyInv, CopyOK, SlotReads
<1> QED
  BY <1>1, <1>2, <1>3, <1>4 DEF FullInv

(* Ownership, the slots and the queries together are inductive.             *)
THEOREM QueriesInductive == Spec => []FullInv
<1>1. FullInv /\ IInv' /\ [Next]_vars => FullInv'
  <2> SUFFICES ASSUME FullInv, IInv', Next  PROVE  FullInv'
    BY StutterFull
  <2>1. SlotInv'
    BY SlotStep DEF FullInv, IInv
  <2>2. QueryInv' /\ CopyInv'
    BY QueryStep, CopyStep DEF FullInv
  <2> QED
    BY <2>1, <2>2 DEF FullInv
<1> QED
  BY <1>1, InitFull, Inductive, PTL DEF Spec

(* A slice holds every queried feature that was found in its container, and *)
(* only features that have, or are being given, their slot of it, although  *)
(* it is copied under no lock (feature.c:200).                              *)
THEOREM SlicesAnswerQueries == Spec => []SliceAnswers
<1>1. FullInv => SliceAnswers
  <2> SUFFICES ASSUME FullInv, NEW c \in Conns, pc[c] = "send", gp[c].from # None
               PROVE  /\ \A i \in HitsIn(cur[c], gp[c].from) :
                           \E s \in DOMAIN gp[c].slots : gp[c].slots[s] = todo[c][i]
                      /\ \A s \in DOMAIN gp[c].slots :
                           gp[c].slots[s] \in SlotReads(gp[c].from, s - 1) \cup {Zero, Torn}
    BY DEF SliceAnswers
  <2>1. IInv /\ QueryOK(c) /\ CopyOK(c)
    BY DEF FullInv, QueryInv, CopyInv
  <2>2. /\ gp[c].slots \in Seq(Features \cup {Zero, Torn})
        /\ cur[c] \in Seq(Containers \cup {None})
    BY <2>1 DEF IInv, OwnerInv, TypeOK
  <2>3. Len(gp[c].slots) = GP_SIZE /\ DOMAIN gp[c].slots = 1 .. Len(gp[c].slots)
    BY <2>1, <2>2 DEF QueryOK, NoReply
  <2>4. ASSUME NEW i \in HitsIn(cur[c], gp[c].from)
        PROVE  \E s \in DOMAIN gp[c].slots : gp[c].slots[s] = todo[c][i]
    <3>1. i \in 1 .. Len(cur[c]) /\ cur[c][i] = gp[c].from
      BY <2>2 DEF HitsIn
    <3>2. feaTable[todo[c][i]].slot \in Slots
      BY <2>1, <3>1, HitIsEntry DEF Entry
    <3>3. /\ feaTable[todo[c][i]].slot < Len(gp[c].slots)
          /\ feaTable[todo[c][i]].slot + 1 \in 1 .. Len(gp[c].slots)
      BY <2>3, <3>2, ConstantAssumption DEF Slots
    <3>4. gp[c].slots[feaTable[todo[c][i]].slot + 1] = todo[c][i]
      BY <2>1, <3>1, <3>3 DEF CopyOK
    <3> QED
      BY <2>3, <3>3, <3>4
  <2> QED
    BY <2>1, <2>3, <2>4 DEF CopyOK
<1> QED
  BY <1>1, QueriesInductive, PTL

-----------------------------------------------------------------------------
(* The abstract index.  A function that changes in one place:               *)
LEMMA OneChanged ==
  ASSUME NEW S, NEW f, NEW g, f = [x \in S |-> f[x]], g = [x \in S |-> g[x]],
         NEW c \in S, \A d \in S \ {c} : g[d] = f[d]
  PROVE  /\ g = [f EXCEPT ![c] = g[c]]
         /\ g[c] = f[c] => g = f
<1>1. \A d \in S : g[d] = [f EXCEPT ![c] = g[c]][d]
  OBVIOUS
<1>2. [f EXCEPT ![c] = g[c]] = [x \in S |-> [f EXCEPT ![c] = g[c]][x]]
  OBVIOUS
<1> QED
  BY <1>1, <1>2

PhaseOf(p) ==
  IF p \in {"match", "copy"} THEN "asked" ELSE IF p = "send" THEN "answered" ELSE "none"
AskedOf(p, list) == IF PhaseOf(p) = "none" THEN <<>> ELSE list
Sent(slots) == {f \in Features : \E s \in DOMAIN slots : slots[s] = f}
ReplyOf(p, g) == IF p # "send" THEN [from |-> None, features |-> {}]
                 ELSE [from |-> g.from, features |-> Sent(g.slots)]

(* What c does is seen of c alone.                                          *)
LEMMA QueryView ==
  ASSUME QueryTypes, NEW c \in Conns, Receive(c) \/ Proceed(c)
  PROVE  /\ absPhase' = [absPhase EXCEPT ![c] = PhaseOf(pc'[c])]
         /\ absAsked' = [absAsked EXCEPT ![c] = AskedOf(pc'[c], todo'[c])]
         /\ absReply' = [absReply EXCEPT ![c] = ReplyOf(pc'[c], gp'[c])]
         /\ absPhase[c] = PhaseOf(pc[c])
         /\ absAsked[c] = AskedOf(pc[c], todo[c])
         /\ absReply[c] = ReplyOf(pc[c], gp[c])
         /\ PhaseOf(pc'[c]) = PhaseOf(pc[c]) => absPhase' = absPhase
         /\ AskedOf(pc'[c], todo'[c]) = AskedOf(pc[c], todo[c]) => absAsked' = absAsked
         /\ ReplyOf(pc'[c], gp'[c]) = ReplyOf(pc[c], gp[c]) => absReply' = absReply
<1>1. \A d \in Conns \ {c} : pc'[d] = pc[d] /\ todo'[d] = todo[d] /\ gp'[d] = gp[d]
  BY OthersWait
<1>2. /\ absPhase = [d \in Conns |-> PhaseOf(pc[d])]
      /\ absPhase' = [d \in Conns |-> PhaseOf(pc'[d])]
  BY DEF absPhase, PhaseOf
<1>3. /\ absAsked = [d \in Conns |-> AskedOf(pc[d], todo[d])]
      /\ absAsked' = [d \in Conns |-> AskedOf(pc'[d], todo'[d])]
  BY <1>2 DEF absAsked, AskedOf
<1>4. /\ absReply = [d \in Conns |-> ReplyOf(pc[d], gp[d])]
      /\ absReply' = [d \in Conns |-> ReplyOf(pc'[d], gp'[d])]
  BY DEF absReply, ReplyOf, Sent
<1> HIDE DEF PhaseOf, AskedOf, ReplyOf
<1>5. /\ absPhase' = [absPhase EXCEPT ![c] = absPhase'[c]]
      /\ absPhase'[c] = absPhase[c] => absPhase' = absPhase
  <2>1. \A d \in Conns \ {c} : absPhase'[d] = absPhase[d]
    BY <1>1, <1>2
  <2> QED
    BY <1>2, <2>1, OneChanged
<1>6. /\ absAsked' = [absAsked EXCEPT ![c] = absAsked'[c]]
      /\ absAsked'[c] = absAsked[c] => absAsked' = absAsked
  <2>1. \A d \in Conns \ {c} : absAsked'[d] = absAsked[d]
    BY <1>1, <1>3
  <2> QED
    BY <1>3, <2>1, OneChanged
<1>7. /\ absReply' = [absReply EXCEPT ![c] = absReply'[c]]
      /\ absReply'[c] = absReply[c] => absReply' = absReply
  <2>1. \A d \in Conns \ {c} : absReply'[d] = absReply[d]
    BY <1>1, <1>4
  <2> QED
    BY <1>4, <2>1, OneChanged
<1> QED
  BY <1>2, <1>3, <1>4, <1>5, <1>6, <1>7

Writer(S) == CHOOSE d \in S : TRUE
SliceOf(f) == IF feaTable[f] # None THEN feaTable[f].con
              ELSE IF Linking(f) # {} THEN con[Writer(Linking(f))] ELSE None

LEMMA SliceView ==
  /\ absSliceOf = [f \in Features |-> SliceOf(f)]
  /\ absSliceOf' = [f \in Features |-> SliceOf(f)']
BY DEF absSliceOf, SliceOf, Writer

(* A step that neither starts nor ends the writing of a slot stores nothing. *)
LEMMA SameSlices ==
  ASSUME UNCHANGED feaTable,
         \A d \in Conns : /\ pc'[d] = "link" <=> pc[d] = "link"
                          /\ pc[d] = "link" => con'[d] = con[d] /\ todo'[d] = todo[d]
  PROVE  absSliceOf' = absSliceOf
<1>1. ASSUME NEW f \in Features  PROVE  Linking(f)' = Linking(f)
  BY DEF Linking
<1>2. ASSUME NEW f \in Features, Linking(f) # {}
      PROVE  con'[Writer(Linking(f))] = con[Writer(Linking(f))]
  <2>1. Writer(Linking(f)) \in Linking(f)
    BY <1>2 DEF Writer
  <2> QED
    BY <2>1 DEF Linking
<1>3. ASSUME NEW f \in Features  PROVE  SliceOf(f)' = SliceOf(f)
  BY <1>1, <1>2 DEF SliceOf
<1> QED
  BY <1>3, SliceView

(* The feature that is being written belongs to the writer's container, one  *)
(* whose lock is free to nobody's.                                           *)
LEMMA LinkedSlice ==
  ASSUME IInv, NEW c \in Conns, pc[c] = "link"
  PROVE  Head(todo[c]) \in Features /\ absSliceOf[Head(todo[c])] = con[c]
<1>1. Head(todo[c]) \in Features
  BY HeadTail DEF IInv, OwnerInv, HandlerInv, TypeOK
<1>2. feaTable[Head(todo[c])] = None
  BY DEF IInv, DataInv, LockInv
<1>3. Linking(Head(todo[c])) = {c}
  <2>1. \A d \in Linking(Head(todo[c])) : d = c
    BY DEF IInv, DataInv, LockInv, Linking
  <2> QED
    BY <2>1 DEF Linking
<1>4. (CHOOSE d \in Linking(Head(todo[c])) : TRUE) = c
  BY <1>3
<1> QED
  BY <1>1, <1>2, <1>3, <1>4 DEF absSliceOf

LEMMA UnlockedSlice ==
  ASSUME IInv, NEW f \in Features, feaLock[SubOf[f]] = None
  PROVE  absSliceOf[f] = IF feaTable[f] = None THEN None ELSE feaTable[f].con
<1>1. Linking(f) = {}
  BY ConstantAssumption DEF IInv, DataInv, LockInv, Linking
<1> QED
  BY <1>1 DEF absSliceOf

(* A feature read from a slot is a member of that slot's container.         *)
LEMMA ReadMember ==
  ASSUME IInv, SlotInv, NEW k \in Containers, NEW s \in Slots,
         NEW f \in Features, f \in SlotReads(k, s)
  PROVE  absSliceOf[f] = k
<1>0. feaTable[f] # None => absSliceOf[f] = feaTable[f].con
  BY DEF absSliceOf
<1>1. CASE data[k][s] = Torn
  <2>1. PICK w \in Conns : pc[w] = "link" /\ con[w] = k /\ f = Head(todo[w])
    BY <1>1, ConstantAssumption DEF SlotReads
  <2> QED
    BY <2>1, LinkedSlice
<1>2. CASE data[k][s] # Torn
  <2>1. f = data[k][s] /\ f # Zero
    BY <1>2, ConstantAssumption DEF SlotReads
  <2>2. s \in Nat /\ used[k] \in Nat
    BY ConstantAssumption DEF IInv, OwnerInv, TypeOK, Slots
  <2>3. ~ (s > used[k])
    BY <2>1 DEF IInv, DataInv, SlotsPacked
  <2>4. CASE s < used[k]
    <3>1. feaTable[f] = [con |-> k, slot |-> s]
      BY <2>1, <2>4 DEF IInv, DataInv, SlotsPacked
    <3>2. feaTable[f] # None
      BY <3>1, ConstantAssumption DEF Slots
    <3> QED
      BY <1>0, <3>1, <3>2
  <2>5. CASE s = used[k]
    <3>1. used[k] < GP_SIZE
      BY <2>5, ConstantAssumption DEF Slots
    <3>2. PICK w \in Conns : pc[w] \in {"link", "bump"} /\ con[w] = k
      BY <2>1, <2>5, <3>1 DEF SlotInv
    <3>3. pc[w] = "bump"
      BY <1>2, <2>5, <3>2 DEF SlotInv
    <3>4. feaTable[Head(todo[w])] = [con |-> k, slot |-> used[k]]
      BY <3>2, <3>3 DEF IInv, DataInv, LockInv
    <3>5. Head(todo[w]) \in Features
      BY <3>3, HeadTail DEF IInv, OwnerInv, HandlerInv, TypeOK
    <3>6. feaTable[Head(todo[w])] # None
      BY <2>5, <3>4, ConstantAssumption DEF Slots
    <3>7. Head(todo[w]) = f
      <4>1. data[feaTable[Head(todo[w])].con][feaTable[Head(todo[w])].slot] = Head(todo[w])
        BY <3>5, <3>6 DEF IInv, DataInv, KeysIntact
      <4> QED
        BY <2>1, <2>5, <3>4, <4>1
    <3> QED
      BY <1>0, <3>4, <3>6, <3>7
  <2> QED
    BY <2>2, <2>3, <2>4, <2>5
<1> QED
  BY <1>1, <1>2

(* A container that a handler is about to write has room for a member: its  *)
(* members have the slots below used_slot.                                  *)
LEMMA MembersFit ==
  ASSUME IInv, NEW c \in Conns, pc[c] = "probe"
  PROVE  Cardinality({f \in Features : absSliceOf[f] = con[c]}) < GP_SIZE
<1> DEFINE k == con[c]
<1> DEFINE members == {f \in Features : absSliceOf[f] = k}
<1> DEFINE slotOf == [f \in members |-> feaTable[f].slot]
<1>1. k \in Containers /\ k # None /\ used[k] \in Nat /\ used[k] < GP_SIZE
  BY ConstantAssumption DEF IInv, OwnerInv, HandlerInv, Holding, TypeOK
<1>2. \A d \in Conns : pc[d] \in {"link", "bump"} => con[d] # k
  BY <1>1 DEF IInv, OwnerInv, Apart
<1>3. ASSUME NEW f \in members
      PROVE  /\ feaTable[f] # None /\ feaTable[f].con = k
             /\ feaTable[f].slot \in 0 .. used[k] - 1
             /\ data[k][feaTable[f].slot] = f
  <2>1. feaTable[f] # None /\ feaTable[f].con = k
    <3>1. CASE feaTable[f] # None
      BY <3>1, SliceView DEF SliceOf
    <3>2. CASE feaTable[f] = None
      <4>1. Linking(f) # {} /\ con[Writer(Linking(f))] = k
        BY <1>1, <3>2, SliceView DEF SliceOf
      <4>2. Writer(Linking(f)) \in Linking(f)
        BY <4>1 DEF Writer
      <4> QED
        BY <1>2, <4>1, <4>2 DEF Linking
    <3> QED
      BY <3>1, <3>2
  <2>2. feaTable[f].slot < used[k]
    BY <1>2, <2>1 DEF IInv, DataInv, KeysBelow
  <2>3. feaTable[f].slot \in Nat
    BY <2>1, ConstantAssumption DEF IInv, OwnerInv, TypeOK, Entry, Slots
  <2>4. data[k][feaTable[f].slot] = f
    BY <2>1 DEF IInv, DataInv, KeysIntact
  <2> QED
    BY <1>1, <2>1, <2>2, <2>3, <2>4
<1>4. slotOf \in Injection(members, 0 .. used[k] - 1)
  BY <1>3 DEF Injection, IsInjective
<1>5. IsFiniteSet(0 .. used[k] - 1) /\ Cardinality(0 .. used[k] - 1) = used[k]
  BY <1>1, FS_Interval
<1> HIDE DEF slotOf, members
<1>6. IsFiniteSet(members) /\ Cardinality(members) <= used[k]
  BY <1>4, <1>5, FS_Injection
<1>7. Cardinality(members) \in Nat
  BY <1>6, FS_CardinalityType
<1> QED
  BY <1>1, <1>6, <1>7, ConstantAssumption DEF members

-----------------------------------------------------------------------------
(* An instance has a copy of the library's definition of its own.           *)
LEMMA SameCardinality == ASSUME NEW S  PROVE  Abstract!Cardinality(S) = Cardinality(S)
BY DEF Abstract!Cardinality, Cardinality

(* The feature is stored when its writer takes the lock.                    *)
LEMMA ProbeImplements ==
  ASSUME FullInv, NEW c \in Conns, Probe(c), ~ IsThere(Head(todo[c]))
  PROVE  \E f \in Features, k \in Containers : Abstract!Store(f, k)
<1>0. IInv /\ QueryTypes
  BY DEF FullInv, IInv, OwnerInv, TypeOK, QueryTypes
<1>k. PICK k : k = con[c]
  OBVIOUS
<1>f. PICK f : f = Head(todo[c])
  OBVIOUS
<1>1. /\ pc[c] = "probe" /\ todo[c] # <<>>
      /\ feaLock[SubOf[f]] = None /\ feaTable[f] = None
      /\ pc' = [pc EXCEPT ![c] = "link"]
      /\ UNCHANGED <<feaTable, con, todo, promised, cur, gp>>
  BY <1>f DEF Probe, IsThere, Goto, queryVars
<1>2. f \in Features /\ k \in Containers
  BY <1>0, <1>1, <1>k, <1>f, HeadTail, ConstantAssumption
     DEF IInv, OwnerInv, HandlerInv, Holding, TypeOK
<1>3. absSliceOf[f] = None
  BY <1>0, <1>1, <1>2, UnlockedSlice
<1>4. Cardinality({g \in Features : absSliceOf[g] = k}) < GP_SIZE
  BY <1>0, <1>1, <1>k, MembersFit
<1>5. absSliceOf' = [absSliceOf EXCEPT ![f] = k]
  <2>1. \A g \in Features \ {f} : absSliceOf'[g] = absSliceOf[g]
    <3> SUFFICES ASSUME NEW g \in Features, g # f  PROVE  SliceOf(g)' = SliceOf(g)
      BY SliceView
    <3>1. \A d \in Conns : pc'[d] = "link" /\ Head(todo'[d]) = g <=>
                             pc[d] = "link" /\ Head(todo[d]) = g
      BY <1>0, <1>1, <1>f DEF QueryTypes
    <3>2. Linking(g)' = Linking(g)
      BY <3>1 DEF Linking
    <3> QED
      BY <1>1, <3>2 DEF SliceOf
  <2>2. absSliceOf'[f] = k
    <3>1. Linking(f)' = {c}
      <4>1. Linking(f) = {}
        BY <1>0, <1>1, <1>2, ConstantAssumption DEF IInv, DataInv, LockInv, Linking
      <4>2. \A d \in Conns : pc'[d] = "link" /\ Head(todo'[d]) = f <=> d = c
        BY <1>0, <1>1, <1>f, <4>1 DEF QueryTypes, Linking
      <4> QED
        BY <4>2 DEF Linking
    <3>2. Writer({c}) = c
      BY DEF Writer
    <3>3. SliceOf(f)' = k
      BY <1>1, <1>k, <3>1, <3>2 DEF SliceOf
    <3> QED
      BY <1>2, <3>3, SliceView
  <2> QED
    BY <1>2, <2>1, <2>2, SliceView, OneChanged
<1>6. absPhase' = absPhase /\ absAsked' = absAsked /\ absReply' = absReply
  <2>1. pc'[c] = "link"
    BY <1>0, <1>1 DEF QueryTypes
  <2>2. /\ PhaseOf(pc'[c]) = PhaseOf(pc[c])
        /\ AskedOf(pc'[c], todo'[c]) = AskedOf(pc[c], todo[c])
        /\ ReplyOf(pc'[c], gp'[c]) = ReplyOf(pc[c], gp[c])
    BY <1>1, <2>1 DEF PhaseOf, AskedOf, ReplyOf
  <2>3. Proceed(c)
    BY DEF Proceed
  <2> QED
    BY <1>0, <2>2, <2>3, QueryView
<1>7. promised' = promised /\ cur' = cur
  BY <1>1
<1>8. Abstract!Cardinality(Abstract!Members(k)) < GP_SIZE
  BY <1>4, SameCardinality DEF Abstract!Members
<1>9. Abstract!Store(f, k)
  BY <1>3, <1>5, <1>6, <1>7, <1>8 DEF Abstract!Store
<1> QED
  BY <1>2, <1>9

(* A query begins.                                                          *)
LEMMA ReceiveImplements ==
  ASSUME FullInv, NEW c \in Conns, ReceiveFeature(c)
  PROVE  Abstract!Ask(c)
<1>0. QueryTypes /\ QueryOK(c)
  BY DEF FullInv, IInv, OwnerInv, TypeOK, QueryTypes, QueryInv
<1>1. /\ pc[c] = "idle" /\ pc' = [pc EXCEPT ![c] = "match"]
      /\ cur' = [cur EXCEPT ![c] = <<>>]
      /\ UNCHANGED <<feaTable, con, gp>>
  BY DEF ReceiveFeature, Goto, tableVars
<1>2. PICK b \in Batches, h \in Promises : /\ todo' = [todo EXCEPT ![c] = b]
                                           /\ promised' = [promised EXCEPT ![c] = h]
  BY DEF ReceiveFeature
<1>3. pc'[c] = "match" /\ todo'[c] = b /\ cur[c] = <<>>
  BY <1>0, <1>1, <1>2 DEF QueryTypes, QueryOK
<1>4. cur' = cur
  BY <1>0, <1>1, <1>3 DEF QueryTypes
<1>5. absSliceOf' = absSliceOf
  <2>1. \A d \in Conns : /\ pc'[d] = "link" <=> pc[d] = "link"
                         /\ pc[d] = "link" => con'[d] = con[d] /\ todo'[d] = todo[d]
    BY <1>0, <1>1, <1>2 DEF QueryTypes
  <2> QED
    BY <1>1, <2>1, SameSlices
<1>6. /\ absPhase[c] = "none"
      /\ absPhase' = [absPhase EXCEPT ![c] = "asked"]
      /\ absAsked' = [absAsked EXCEPT ![c] = b]
      /\ absReply' = absReply
  <2>1. /\ PhaseOf(pc[c]) = "none" /\ PhaseOf(pc'[c]) = "asked"
        /\ AskedOf(pc'[c], todo'[c]) = b
        /\ ReplyOf(pc'[c], gp'[c]) = ReplyOf(pc[c], gp[c])
    BY <1>1, <1>3 DEF PhaseOf, AskedOf, ReplyOf
  <2>2. Receive(c)
    BY DEF Receive
  <2> QED
    BY <1>0, <2>1, <2>2, QueryView
<1> QED
  BY <1>2, <1>4, <1>5, <1>6 DEF Abstract!Ask, Promises

(* A lookup: nobody is writing the feature, for its lock is free.           *)
LEMMA MatchImplements ==
  ASSUME FullInv, NEW c \in Conns, Match(c)
  PROVE  Abstract!Look(c)
<1>0. IInv /\ QueryTypes
  BY DEF FullInv, IInv, OwnerInv, TypeOK, QueryTypes
<1>f. PICK f : f = todo[c][Len(cur[c]) + 1]
  OBVIOUS
<1> DEFINE value == IF feaTable[f] = None THEN None ELSE feaTable[f].con
<1>1. /\ pc[c] = "match" /\ Len(cur[c]) < Len(todo[c])
      /\ feaLock[SubOf[f]] = None
      /\ cur' = [cur EXCEPT ![c] = Append(@, value)]
      /\ UNCHANGED <<feaTable, con, todo, promised, gp>>
      /\ pc' = pc
  BY <1>0, <1>f DEF Match, Goto, tableVars, QueryTypes
<1>2. f \in Features
  <2>1. Len(cur[c]) \in Nat /\ Len(todo[c]) \in Nat /\ todo[c] \in Seq(Features)
    BY <1>0 DEF QueryTypes
  <2>2. Len(cur[c]) + 1 \in 1 .. Len(todo[c])
    BY <1>1, <2>1
  <2> QED
    BY <1>f, <2>1, <2>2
<1>3. absSliceOf[f] = value
  BY <1>0, <1>1, <1>2, UnlockedSlice
<1>4. absSliceOf' = absSliceOf
  BY <1>1, SameSlices
<1>5. /\ absPhase[c] = "asked" /\ absAsked[c] = todo[c]
      /\ absPhase' = absPhase /\ absAsked' = absAsked /\ absReply' = absReply
  <2>1. Proceed(c)
    BY DEF Proceed
  <2> QED
    BY <1>0, <1>1, <2>1, QueryView DEF PhaseOf, AskedOf
<1>6. cur' = [cur EXCEPT ![c] = Append(@, absSliceOf[absAsked[c][Len(@) + 1]])]
  BY <1>1, <1>3, <1>5, <1>f
<1> QED
  BY <1>1, <1>4, <1>5, <1>6 DEF Abstract!Look

(* The reply leaves and the query is forgotten.                             *)
LEMMA SendImplements ==
  ASSUME FullInv, NEW c \in Conns, SendReply(c)
  PROVE  Abstract!Deliver(c)
<1>0. QueryTypes
  BY DEF FullInv, IInv, OwnerInv, TypeOK, QueryTypes
<1>1. /\ pc[c] = "send" /\ pc' = [pc EXCEPT ![c] = "idle"]
      /\ todo' = [todo EXCEPT ![c] = <<>>]
      /\ promised' = [promised EXCEPT ![c] = 0]
      /\ cur' = [cur EXCEPT ![c] = <<>>]
      /\ UNCHANGED <<feaTable, con>>
  BY DEF SendReply, Goto, tableVars
<1>2. pc'[c] = "idle"
  BY <1>0, <1>1 DEF QueryTypes
<1>3. absSliceOf' = absSliceOf
  <2>1. \A d \in Conns : /\ pc'[d] = "link" <=> pc[d] = "link"
                         /\ pc[d] = "link" => con'[d] = con[d] /\ todo'[d] = todo[d]
    BY <1>0, <1>1 DEF QueryTypes
  <2> QED
    BY <1>1, <2>1, SameSlices
<1>4. /\ absPhase[c] = "answered"
      /\ absPhase' = [absPhase EXCEPT ![c] = "none"]
      /\ absAsked' = [absAsked EXCEPT ![c] = <<>>]
      /\ absReply' = [absReply EXCEPT ![c] = Abstract!NoAnswer]
  <2>1. /\ PhaseOf(pc[c]) = "answered" /\ PhaseOf(pc'[c]) = "none"
        /\ AskedOf(pc'[c], todo'[c]) = <<>>
        /\ ReplyOf(pc'[c], gp'[c]) = Abstract!NoAnswer
    BY <1>1, <1>2 DEF PhaseOf, AskedOf, ReplyOf, Abstract!NoAnswer
  <2>2. Proceed(c)
    BY DEF Proceed
  <2> QED
    BY <1>0, <2>1, <2>2, QueryView
<1> QED
  BY <1>1, <1>3, <1>4 DEF Abstract!Deliver

(* Fewer hits than a slice takes: the answer has none.                      *)
LEMMA AbstractHits ==
  ASSUME NEW c \in Conns
  PROVE  /\ Abstract!Hits(c) = Hits(cur[c])
         /\ \A k : Abstract!Matched(c, k) = HitsIn(cur[c], k)
         /\ Abstract!Cardinality(Abstract!Hits(c)) = Cardinality(Hits(cur[c]))
BY SameCardinality DEF Abstract!Hits, Abstract!Matched, Hits, HitsIn

LEMMA DecideImplements ==
  ASSUME FullInv, NEW c \in Conns, Decide(c)
  PROVE  Abstract!Answer(c) \/ UNCHANGED Abstract!vars
<1>0. QueryTypes /\ QueryOK(c)
  BY DEF FullInv, IInv, OwnerInv, TypeOK, QueryTypes, QueryInv
<1>1. /\ pc[c] = "match" /\ Len(cur[c]) = Len(todo[c])
      /\ UNCHANGED <<feaTable, con, todo, promised, cur>>
      /\ \E p \in {"copy", "send"} : pc' = [pc EXCEPT ![c] = p]
  BY DEF Decide, Goto, tableVars
<1>2. absSliceOf' = absSliceOf
  <2>1. \A d \in Conns : /\ pc'[d] = "link" <=> pc[d] = "link"
                         /\ pc[d] = "link" => con'[d] = con[d] /\ todo'[d] = todo[d]
    BY <1>0, <1>1 DEF QueryTypes
  <2> QED
    BY <1>1, <2>1, SameSlices
<1>3. Proceed(c)
  BY DEF Proceed
<1>4. absPhase[c] = "asked" /\ absAsked[c] = todo[c] /\ absAsked' = absAsked
  <2>1. AskedOf(pc'[c], todo'[c]) = AskedOf(pc[c], todo[c])
    BY <1>0, <1>1 DEF QueryTypes, AskedOf, PhaseOf
  <2> QED
    BY <1>0, <1>1, <1>3, <2>1, QueryView DEF PhaseOf, AskedOf
<1>5. CASE Cardinality(Hits(cur[c])) + promised[c] > HIT_THRES
  <2>1. pc'[c] = "copy"
    BY <1>0, <1>5 DEF Decide, Goto, QueryTypes
  <2>2. absPhase' = absPhase /\ absReply' = absReply
    BY <1>0, <1>1, <1>3, <2>1, QueryView DEF PhaseOf, ReplyOf
  <2> QED
    BY <1>1, <1>2, <1>4, <2>2 DEF Abstract!vars
<1>6. CASE ~ (Cardinality(Hits(cur[c])) + promised[c] > HIT_THRES)
  <2>1. pc'[c] = "send" /\ gp'[c] = NoReply
    BY <1>0, <1>1, <1>6 DEF Decide, Goto, QueryTypes, QueryOK
  <2>2. Sent(<<>>) = {}
    BY DEF Sent
  <2>3. absPhase' = [absPhase EXCEPT ![c] = "answered"] /\ absReply' = absReply
    <3>1. ReplyOf("send", NoReply) = [from |-> None, features |-> {}]
      BY <2>2 DEF ReplyOf, NoReply
    <3>2. ReplyOf("match", gp[c]) = [from |-> None, features |-> {}]
      BY DEF ReplyOf
    <3>3. PhaseOf("send") = "answered"
      BY DEF PhaseOf
    <3> QED
      <4>1. /\ PhaseOf(pc'[c]) = "answered"
            /\ ReplyOf(pc'[c], gp'[c]) = ReplyOf(pc[c], gp[c])
        BY <1>1, <2>1, <3>1, <3>2, <3>3
      <4> QED
        BY <1>0, <1>3, <4>1, QueryView
  <2>4. ~ (Abstract!Cardinality(Abstract!Hits(c)) + promised[c] > HIT_THRES)
    BY <1>6, AbstractHits
  <2> QED
    BY <1>1, <1>2, <1>4, <2>3, <2>4 DEF Abstract!Answer
<1> QED
  BY <1>5, <1>6

(* No container was found more often than the best one.                     *)
LEMMA BestIsMost ==
  ASSUME NEW found \in Seq(Containers \cup {None}), NEW k, IsBestCon(found, k),
         NEW i \in Hits(found)
  PROVE  Cardinality(HitsIn(found, found[i])) <= Cardinality(HitsIn(found, k))
<1>1. \A j : /\ IsFiniteSet(HitsIn(found, j))
             /\ Cardinality(HitsIn(found, j)) \in Nat
  <2> SUFFICES ASSUME NEW j
               PROVE  /\ IsFiniteSet(HitsIn(found, j))
                      /\ Cardinality(HitsIn(found, j)) \in Nat
    OBVIOUS
  <2>1. IsFiniteSet(1 .. Len(found))
    BY FS_Interval
  <2>2. HitsIn(found, j) \subseteq 1 .. Len(found)
    BY DEF HitsIn
  <2> QED
    BY <2>1, <2>2, FS_Subset, FS_CardinalityType
<1>2. \/ Cardinality(HitsIn(found, found[i])) < Cardinality(HitsIn(found, k))
      \/ Cardinality(HitsIn(found, found[i])) = Cardinality(HitsIn(found, k))
  BY DEF IsBestCon
<1> QED
  BY <1>1, <1>2

(* The copy of the last slot is the answer: everything found in the chosen  *)
(* container is sent, and nothing that is not a member of it.               *)
LEMMA CopyImplements ==
  ASSUME FullInv, FullInv', NEW c \in Conns, CopySlot(c)
  PROVE  Abstract!Answer(c) \/ UNCHANGED Abstract!vars
<1>0. IInv /\ SlotInv /\ QueryTypes /\ QueryOK(c) /\ CopyOK(c) /\ CopyOK(c)'
  BY DEF FullInv, IInv, OwnerInv, TypeOK, QueryTypes, QueryInv, CopyInv
<1>k. PICK k : k = gp[c].from
  OBVIOUS
<1>n. PICK n : n = Len(gp[c].slots)
  OBVIOUS
<1>1. /\ pc[c] = "copy" /\ n < GP_SIZE /\ k # None
      /\ UNCHANGED <<feaTable, con, todo, promised, cur>>
      /\ pc' = [pc EXCEPT ![c] = IF n = GP_SIZE - 1 THEN "send" ELSE "copy"]
  BY <1>k, <1>n DEF CopySlot, Goto, tableVars, SliceLen
<1>2. PICK v \in SlotReads(k, n) :
        gp' = [gp EXCEPT ![c] = [from |-> k, slots |-> Append(gp[c].slots, v)]]
  BY <1>k, <1>n DEF CopySlot
<1>3. gp'[c] = [from |-> k, slots |-> Append(gp[c].slots, v)]
  BY <1>0, <1>2 DEF QueryTypes
<1>4. absSliceOf' = absSliceOf
  <2>1. \A d \in Conns : /\ pc'[d] = "link" <=> pc[d] = "link"
                         /\ pc[d] = "link" => con'[d] = con[d] /\ todo'[d] = todo[d]
    BY <1>0, <1>1 DEF QueryTypes
  <2> QED
    BY <1>1, <2>1, SameSlices
<1>5. Proceed(c)
  BY DEF Proceed
<1>6. pc'[c] \in {"copy", "send"}
  BY <1>0, <1>1 DEF QueryTypes
<1>7. absPhase[c] = "asked" /\ absAsked[c] = todo[c] /\ absAsked' = absAsked
  BY <1>0, <1>1, <1>5, <1>6, QueryView DEF PhaseOf, AskedOf
<1>8. CASE n # GP_SIZE - 1
  <2>1. pc'[c] = "copy"
    BY <1>0, <1>1, <1>8 DEF QueryTypes
  <2>2. absPhase' = absPhase /\ absReply' = absReply
    BY <1>0, <1>1, <1>5, <2>1, QueryView DEF PhaseOf, ReplyOf
  <2> QED
    BY <1>1, <1>4, <1>7, <2>2 DEF Abstract!vars
<1>9. CASE n = GP_SIZE - 1
  <2>s. PICK sent : sent = Sent(gp'[c].slots)
    OBVIOUS
  <2>1. pc'[c] = "send"
    BY <1>0, <1>1, <1>9 DEF QueryTypes
  <2>2. /\ absPhase' = [absPhase EXCEPT ![c] = "answered"]
        /\ absReply' = [absReply EXCEPT ![c] = [from |-> k, features |-> sent]]
    <3>1. /\ PhaseOf(pc'[c]) = "answered"
          /\ ReplyOf(pc'[c], gp'[c]) = [from |-> k, features |-> sent]
      BY <1>3, <2>1, <2>s DEF PhaseOf, ReplyOf
    <3> QED
      BY <1>0, <1>5, <3>1, QueryView
  <2>3. /\ k \in Containers /\ n \in Nat /\ n + 1 = GP_SIZE
        /\ gp[c].slots \in Seq(Features \cup {Zero, Torn})
        /\ gp'[c].slots \in Seq(Features \cup {Zero, Torn})
    <3>1. gp'[c].slots \in Seq(Features \cup {Zero, Torn})
      BY DEF FullInv, IInv, OwnerInv, TypeOK
    <3> QED
      BY <1>0, <1>1, <1>k, <1>n, <1>9, <3>1, ConstantAssumption DEF QueryTypes
  <2>4. /\ Len(gp'[c].slots) = n + 1
        /\ gp'[c].slots[n + 1] = v
        /\ \A s \in 1 .. n : gp'[c].slots[s] = gp[c].slots[s]
    BY <1>3, <1>n, <2>3, Appended
  <2>5. Abstract!Cardinality(Abstract!Hits(c)) + promised[c] > HIT_THRES
    BY <1>0, <1>1, AbstractHits DEF QueryOK
  <2>6. ASSUME NEW i \in Abstract!Hits(c)
        PROVE  Abstract!Cardinality(Abstract!Matched(c, cur[c][i]))
                 <= Abstract!Cardinality(Abstract!Matched(c, k))
    <3>1. IsBestCon(cur[c], k) /\ cur[c] \in Seq(Containers \cup {None})
      BY <1>0, <1>1, <1>k DEF QueryOK, QueryTypes
    <3>2. i \in Hits(cur[c])
      BY AbstractHits
    <3> QED
      BY <3>1, <3>2, AbstractHits, SameCardinality, BestIsMost
  <2>7. {absAsked[c][i] : i \in Abstract!Matched(c, k)} \subseteq sent
    <3> SUFFICES ASSUME NEW i \in HitsIn(cur[c], k)  PROVE  todo[c][i] \in sent
      BY <1>7, AbstractHits
    <3>1. i \in 1 .. Len(cur[c]) /\ cur[c][i] = k
      BY <1>0 DEF HitsIn, QueryTypes
    <3>2. todo[c][i] \in Features /\ feaTable[todo[c][i]].slot \in Slots
      BY <1>0, <1>1, <3>1, HitIsEntry DEF Entry
    <3>3. /\ feaTable[todo[c][i]].slot < n + 1
          /\ feaTable[todo[c][i]].slot + 1 \in 1 .. n + 1
      BY <2>3, <3>2, ConstantAssumption DEF Slots
    <3>4. gp'[c].slots[feaTable[todo[c][i]].slot + 1] = todo[c][i]
      <4>1. gp'[c].from = k /\ cur' = cur /\ todo' = todo /\ feaTable' = feaTable
        BY <1>1, <1>3
      <4> QED
        BY <1>0, <1>1, <2>1, <2>4, <3>1, <3>3, <4>1 DEF CopyOK
    <3>5. feaTable[todo[c][i]].slot + 1 \in DOMAIN gp'[c].slots
      BY <2>3, <2>4, <3>3
    <3> QED
      BY <2>s, <3>2, <3>4, <3>5 DEF Sent
  <2>8. sent \subseteq Abstract!Members(k)
    <3> SUFFICES ASSUME NEW f \in sent
                 PROVE  f \in Features /\ absSliceOf[f] = k
      BY DEF Abstract!Members
    <3>1. PICK s \in 1 .. n + 1 : gp'[c].slots[s] = f
      <4>1. DOMAIN gp'[c].slots = 1 .. n + 1
        BY <2>3, <2>4
      <4> QED
        BY <2>s, <4>1 DEF Sent
    <3>2. f \in Features
      BY <2>s DEF Sent
    <3>3. s - 1 \in Slots /\ (s \in 1 .. n \/ s = n + 1)
      <4>1. n \in Nat /\ n = GP_SIZE - 1 /\ GP_SIZE \in Nat
        BY <1>9, <2>3, ConstantAssumption
      <4> QED
        BY <4>1 DEF Slots
    <3>4. f \in SlotReads(k, s - 1)
      <4>1. CASE s \in 1 .. n
        <5>1. f \in SlotReads(k, s - 1) \cup {Zero, Torn}
          BY <1>0, <1>1, <1>k, <1>n, <2>4, <3>1, <4>1 DEF CopyOK
        <5> QED
          BY <3>2, <5>1, ConstantAssumption
      <4>2. CASE s = n + 1
        <5>1. s - 1 = n
          BY <2>3, <4>2
        <5> QED
          BY <2>4, <3>1, <4>2, <5>1
      <4> QED
        BY <3>3, <4>1, <4>2
    <3> QED
      BY <1>0, <2>3, <3>2, <3>3, <3>4, ReadMember
  <2>9. sent \in SUBSET Features
    BY <2>s DEF Sent
  <2>10. Len(cur[c]) = Len(absAsked[c])
    BY <1>0, <1>1, <1>7 DEF QueryOK
  <2> QED
    BY <1>1, <1>4, <1>7, <2>2, <2>3, <2>5, <2>6, <2>7, <2>8, <2>9, <2>10
       DEF Abstract!Answer
<1> QED
  BY <1>8, <1>9

(* Nothing else of what handlers do is seen of the index.                    *)
LEMMA HiddenStep ==
  ASSUME FullInv, NEW c \in Conns, Receive(c) \/ Proceed(c),
         PhaseOf(pc[c]) = "none", PhaseOf(pc'[c]) = "none",
         pc[c] # "link" => feaTable' = feaTable,
         pc[c] # "link" => pc'[c] # "link",
         pc[c] = "link" => Link(c),
         UNCHANGED <<promised, cur, gp>>
  PROVE  UNCHANGED Abstract!vars
<1>0. IInv /\ QueryTypes
  BY DEF FullInv, IInv, OwnerInv, TypeOK, QueryTypes
<1>1. absPhase' = absPhase /\ absAsked' = absAsked /\ absReply' = absReply
  <2>1. pc[c] # "send" /\ pc'[c] # "send"
    BY DEF PhaseOf
  <2>2. ReplyOf(pc'[c], gp'[c]) = ReplyOf(pc[c], gp[c])
    BY <2>1 DEF ReplyOf
  <2>3. AskedOf(pc'[c], todo'[c]) = AskedOf(pc[c], todo[c])
    BY DEF AskedOf
  <2> QED
    BY <1>0, <2>2, <2>3, QueryView
<1>2. \A d \in Conns \ {c} : pc'[d] = pc[d] /\ con'[d] = con[d] /\ todo'[d] = todo[d]
  BY <1>0, OthersWait
<1>3. CASE pc[c] # "link"
  BY <1>1, <1>2, <1>3, SameSlices DEF Abstract!vars
<1>4. CASE pc[c] = "link"
  <2>f. PICK f : f = Head(todo[c])
    OBVIOUS
  <2>1. /\ pc'[c] = "bump"
        /\ feaTable' = [feaTable EXCEPT ![f] = [con |-> con[c], slot |-> used[con[c]]]]
        /\ UNCHANGED <<con, todo>>
    BY <1>0, <1>4, <2>f DEF Link, Goto, QueryTypes
  <2>2. f \in Features /\ SliceOf(f) = con[c]
    BY <1>0, <1>4, <2>f, LinkedSlice, SliceView
  <2>3. SliceOf(f)' = con[c]
    <3>1. [con |-> con[c], slot |-> used[con[c]]] # None
      <4>1. con[c] \in Containers /\ used[con[c]] \in Slots
        BY <1>0, <1>4, ConstantAssumption
           DEF IInv, OwnerInv, HandlerInv, Holding, TypeOK, Slots
      <4> QED
        BY <4>1, ConstantAssumption DEF Slots
    <3>2. feaTable'[f] = [con |-> con[c], slot |-> used[con[c]]]
      BY <1>0, <2>1, <2>2 DEF IInv, OwnerInv, TypeOK
    <3> QED
      BY <3>1, <3>2 DEF SliceOf
  <2>4. ASSUME NEW g \in Features, g # f  PROVE  SliceOf(g)' = SliceOf(g)
    <3>1. \A d \in Conns : pc'[d] = "link" /\ Head(todo'[d]) = g <=>
                             pc[d] = "link" /\ Head(todo[d]) = g
      BY <1>2, <1>4, <2>1, <2>4, <2>f
    <3>2. Linking(g)' = Linking(g)
      BY <3>1 DEF Linking
    <3>3. feaTable'[g] = feaTable[g]
      BY <1>0, <2>1, <2>4 DEF IInv, OwnerInv, TypeOK
    <3> QED
      BY <2>1, <3>2, <3>3 DEF SliceOf
  <2>5. absSliceOf' = absSliceOf
    <3>1. \A g \in Features : SliceOf(g)' = SliceOf(g)
      BY <2>2, <2>3, <2>4
    <3> QED
      BY <3>1, SliceView
  <2> QED
    BY <1>1, <2>5 DEF Abstract!vars
<1> QED
  BY <1>3, <1>4

LEMMA StepImplements ==
  ASSUME FullInv, FullInv', [Next]_vars
  PROVE  [Abstract!Next]_(Abstract!vars)
<1>1. CASE UNCHANGED vars
  <2>1. UNCHANGED <<feaTable, pc, con, todo, promised, cur, gp>>
    BY <1>1 DEF vars
  <2>2. absSliceOf' = absSliceOf
    BY <2>1, SameSlices
  <2>3. absPhase' = absPhase /\ absAsked' = absAsked /\ absReply' = absReply
    BY <2>1 DEF absPhase, absAsked, absReply
  <2> QED
    BY <2>1, <2>2, <2>3 DEF Abstract!vars
<1>2. ASSUME NEW c \in Conns, Receive(c) \/ Proceed(c)
      PROVE  \/ UNCHANGED Abstract!vars
             \/ \E f \in Features, k \in Containers : Abstract!Store(f, k)
             \/ Abstract!Ask(c) \/ Abstract!Look(c) \/ Abstract!Answer(c)
             \/ Abstract!Deliver(c)
  <2>0. pc \in [Conns -> PCs]
    BY DEF FullInv, IInv, OwnerInv, TypeOK
  <2> DEFINE Hidden == /\ PhaseOf(pc[c]) = "none" /\ PhaseOf(pc'[c]) = "none"
                       /\ pc[c] # "link" /\ pc'[c] # "link" /\ feaTable' = feaTable
                       /\ UNCHANGED <<promised, cur, gp>>
  <2>1. CASE Hidden
    BY <1>2, <2>1, HiddenStep
  <2>2. CASE Probe(c)
    <3>1. CASE IsThere(Head(todo[c]))
      <4>1. pc[c] = "probe" /\ pc'[c] = "probe" /\ feaTable' = feaTable
            /\ UNCHANGED <<promised, cur, gp>>
        BY <2>0, <2>2, <3>1 DEF Probe, Goto, queryVars
      <4> QED
        BY <2>1, <4>1 DEF PhaseOf
    <3>2. CASE ~ IsThere(Head(todo[c]))
      BY <2>2, <3>2, ProbeImplements
    <3> QED
      BY <3>1, <3>2
  <2>3. CASE Link(c)
    <3>1. /\ pc[c] = "link" /\ pc'[c] = "bump"
          /\ UNCHANGED <<promised, cur, gp>>
      BY <2>0, <2>3 DEF Link, Goto, queryVars
    <3> QED
      BY <1>2, <2>3, <3>1, HiddenStep DEF PhaseOf
  <2> USE <2>0 DEF Goto, tableVars, queryVars, PhaseOf
  <2>4. ReceiveSegment(c) \/ ReceiveEof(c) \/ LookupOpen(c) => Hidden
    BY DEF ReceiveSegment, ReceiveEof, LookupOpen
  <2>5. PopContainer(c) => Hidden
    BY DEF PopContainer
  <2>6. Register(c) \/ FinishSegment(c) \/ EofRemove(c) \/ EofPush(c) => Hidden
    BY DEF Register, FinishSegment, EofRemove, EofPush
  <2>7. Bump(c) => Hidden
    BY DEF Bump, AfterFull
  <2> QED
    BY <1>2, <2>1, <2>2, <2>3, <2>4, <2>5, <2>6, <2>7, ReceiveImplements,
       MatchImplements, DecideImplements, CopyImplements, SendImplements
       DEF Receive, Proceed
<1> QED
  BY <1>1, <1>2 DEF Next, Abstract!Next

LEMMA InitImplements == Init => Abstract!Init
<1> SUFFICES ASSUME Init  PROVE  Abstract!Init
  OBVIOUS
<1>1. \A f \in Features : Linking(f) = {}
  BY DEF Init, Linking
<1>2. absSliceOf = [f \in Features |-> None]
  BY <1>1 DEF Init, absSliceOf
<1>3. absPhase = [c \in Conns |-> "none"]
  BY DEF Init, absPhase
<1>4. absAsked = [c \in Conns |-> <<>>]
  BY <1>3 DEF absAsked
<1>5. absReply = [c \in Conns |-> Abstract!NoAnswer]
  BY DEF Init, absReply, Abstract!NoAnswer
<1> QED
  BY <1>2, <1>3, <1>4, <1>5 DEF Init, Abstract!Init

(* The feature index, with its sub-table locks, keys that are slots and     *)
(* copies under no lock, is an atomic index of slices: a feature is stored  *)
(* once and for ever in a slice with room for it, and a query that hits     *)
(* often enough is answered with the best slice (feature.c:180-343).        *)
THEOREM IndexIsAtomic == Spec => ImplementsSliceIndex
<1>1. FullInv /\ FullInv' /\ [Next]_vars => [Abstract!Next]_(Abstract!vars)
  BY StepImplements
<1> QED
  BY <1>1, InitImplements, QueriesInductive, PTL
     DEF Spec, ImplementsSliceIndex, Abstract!Spec

-----------------------------------------------------------------------------
(* The index behind the client's connections.  The node answers an EOF on   *)
(* one that never carries a segment, so that it finds no container there.  *)
Filling == {"lookup", "pop", "register", "probe", "link", "bump"}
WiringInv == \A c \in Conns :
  /\ openTable[c] # None \/ pc[c] \in Filling => "segment" \in Carries[c]
  /\ pc[c] \notin {"eof_remove", "eof_push"}

LEMMA SegmentsApart ==
  ASSUME NEW c \in Conns, "segment" \in Carries[c]
  PROVE  "eof" \notin Carries[c]
<1>1. SUFFICES ASSUME "eof" \in Carries[c] PROVE FALSE
  OBVIOUS
<1>2. "segment" \in ClientCarries[c] /\ "eof" \in ClientCarries[c]
  BY <1>1, WiringAssumption
<1>3. PICK cl \in Clients : c = SegFd[cl]
  BY <1>2 DEF ClientCarries
<1>4. PICK other \in Clients : c = FeaFd[other]
  BY <1>2 DEF ClientCarries, EofFd
<1> QED BY <1>3, <1>4, WiringAssumption

(* Only a handler that registers a container changes what its connection    *)
(* has open.                                                               *)
LEMMA WiringStep ==
  ASSUME IInv, WiringInv, Next
  PROVE  /\ WiringInv'
         /\ \A c \in Conns : openTable[c] # None =>
              openTable'[c] = openTable[c] \/ struct[openTable[c]] = "freed"
<1>1. PICK c \in Conns : Receive(c) \/ Proceed(c)
  BY DEF Next
<1>2. TypeOK /\ HandlerInv
  BY DEF IInv, OwnerInv
<1>3. ~ReceiveEof(c) \/ openTable[c] = None
  BY SegmentsApart DEF ReceiveEof, WiringInv
<1>4. /\ pc \in [Conns -> PCs] /\ openTable \in [Conns -> Containers \cup {None}]
      /\ pc[c] \notin {"eof_remove", "eof_push"}
      /\ pc[c] \in Filling => "segment" \in Carries[c]
  BY <1>2 DEF TypeOK, WiringInv
<1>5. \A d \in Conns : d # c => pc'[d] = pc[d]
  BY <1>1, <1>4 DEF Receive, Proceed, ReceiveSegment, ReceiveEof, ReceiveFeature, LookupOpen,
     PopContainer, Register, Probe, Link, Bump, FinishSegment, EofRemove, EofPush, Match,
     Decide, CopySlot, SendReply, Goto
<1>6. /\ pc'[c] \notin {"eof_remove", "eof_push"}
      /\ pc'[c] \in Filling => "segment" \in Carries[c]
  <2>1. CASE Receive(c)
    BY <1>3, <1>4, <2>1 DEF Receive, ReceiveSegment, ReceiveEof, ReceiveFeature, Goto, Filling
  <2>2. CASE LookupOpen(c) \/ PopContainer(c) \/ Register(c)
    BY <1>4, <2>2 DEF LookupOpen, PopContainer, Register, Goto, Filling
  <2>3. CASE Probe(c) \/ Link(c) \/ Bump(c)
    BY <1>4, <2>3 DEF Probe, Link, Bump, Goto, Filling, AfterFull
  <2>4. CASE FinishSegment(c) \/ EofRemove(c) \/ EofPush(c) \/ SendReply(c)
    BY <1>4, <2>4 DEF FinishSegment, EofRemove, EofPush, SendReply, Goto, Filling
  <2>5. CASE Match(c) \/ Decide(c) \/ CopySlot(c)
    BY <1>4, <2>5 DEF Match, Decide, CopySlot, Goto, Filling
  <2> QED BY <1>1, <2>1, <2>2, <2>3, <2>4, <2>5 DEF Proceed
<1>7. \/ openTable' = openTable
      \/ /\ openTable' = [openTable EXCEPT ![c] = con[c]] /\ pc[c] = "register"
  BY <1>1, <1>4 DEF Receive, Proceed, ReceiveSegment, ReceiveEof, ReceiveFeature, LookupOpen,
     PopContainer, Register, Probe, Link, Bump, FinishSegment, EofRemove, EofPush, Match,
     Decide, CopySlot, SendReply, Goto, openVars
<1>8. \A d \in Conns : d # c => openTable'[d] = openTable[d]
  BY <1>4, <1>7
<1>9. openTable'[c] = openTable[c] \/ pc[c] = "register"
  BY <1>7
<1>10. WiringInv'
  <2> SUFFICES ASSUME NEW d \in Conns
               PROVE  /\ openTable'[d] # None \/ pc'[d] \in Filling => "segment" \in Carries[d]
                      /\ pc'[d] \notin {"eof_remove", "eof_push"}
    BY DEF WiringInv
  <2>1. CASE d = c
    BY <1>4, <1>6, <1>9, <2>1 DEF WiringInv, Filling
  <2>2. CASE d # c
    BY <1>5, <1>8, <2>2 DEF WiringInv
  <2> QED BY <2>1, <2>2
<1>11. pc[c] = "register" /\ openTable[c] # None => struct[openTable[c]] = "freed"
  BY <1>2 DEF HandlerInv
<1> QED BY <1>8, <1>9, <1>10, <1>11

(* With the client's connections a container stays with the stream that      *)
(* opened it until it is full: no slice mixes two streams                  *)
(* (client/main.c:73, server/main.c:71).                                   *)
THEOREM SlicesOfOneStream == Spec => OneStreamSlices
<1> DEFINE Keeps == \A c \in Conns : openTable[c] # None =>
                      openTable'[c] = openTable[c] \/ struct[openTable[c]] = "freed"
<1>1. Init => WiringInv
  BY DEF Init, WiringInv, Filling
<1>2. IInv /\ WiringInv /\ [Next]_vars => WiringInv'
  <2>1. WiringInv /\ UNCHANGED vars => WiringInv'
    BY DEF WiringInv, vars
  <2> QED BY <2>1, WiringStep
<1>3. IInv /\ WiringInv /\ [Next]_vars => [Keeps]_vars
  BY WiringStep
<1> QED
  BY <1>1, <1>2, <1>3, Inductive, PTL DEF Spec, OneStreamSlices
=============================================================================
