------------------------------ MODULE LruCache ------------------------------
(***************************************************************************)
(* lcache[target] of a client with SSDEDUP == ON (client/route.c,          *)
(* update_lcache; client/main.c, init_lcache and free_lcache): a list that *)
(* orders the cached fingerprints by their last use, and a hash table that *)
(* finds them.  Both hold pointers to the same blocks; the table owns them *)
(* and frees a block with its entry.  This is one layer of ClientFile,     *)
(* which has the specification.                                            *)
(***************************************************************************)
EXTENDS FeatureCache, Naturals, Sequences, FiniteSets

CONSTANTS
  Features,     \* fingerprints used as features
  Blocks,       \* blocks malloc can hand out
  LCACHE_SIZE,
  Free          \* the content of a block that is not allocated

ASSUME CacheAssumption ==
  /\ LCACHE_SIZE \in Nat \ {0}
  /\ Free \notin Features

VARIABLES
  list,    \* lcache.list: blocks, the one used last at the end
  table,   \* lcache.table: the blocks that are its keys and values
  size,    \* lcache.size
  mem,     \* the content of each block
  todo     \* features of the message that are still to be entered

cacheVars == <<list, table, size, mem, todo>>

CacheInit ==
  /\ list = <<>>
  /\ table = {}
  /\ size = 0
  /\ mem = [b \in Blocks |-> Free]
  /\ todo = <<>>

KeepsPlace(s, b) == s                        \* fault: a hit moves nothing
ToEnd(s, b) == Append(Without(s, b), b)      \* g_list_remove, g_list_append

KeepBlock(content, b) == content             \* fault: no key_destroy_func
Freed(content, b) == [content EXCEPT ![b] = Free] \* free, by g_hash_table_remove

NeverFull == FALSE                           \* fault: nothing is evicted
Full == size = LCACHE_SIZE

FoundByPointer(f) == {}                      \* fault: default hash functions
(* The entry a lookup of f finds: the table compares contents.             *)
Found(f) == {b \in table : mem[b] = f}

Enter(features) ==
  /\ todo = <<>>
  /\ todo' = features
  /\ UNCHANGED <<list, table, size, mem>>

(* A cached feature moves to the end of the list.                          *)
Hit(b) ==
  /\ todo # <<>>
  /\ b \in Found(Head(todo))
  /\ list' = ToEnd(list, b)
  /\ todo' = Tail(todo)
  /\ UNCHANGED <<table, size, mem>>

(* Another one is copied into a new block b and entered; the head of a full *)
(* list is looked up by its content, removed from the table, and freed.     *)
Miss(b) ==
  /\ todo # <<>>
  /\ Found(Head(todo)) = {}
  /\ mem[b] = Free
  /\ LET entered == [mem EXCEPT ![b] = Head(todo)]
     IN  IF Full
           THEN \E victim \in {v \in table \cup {b} : entered[v] = entered[Head(list)]} :
                  /\ table' = (table \cup {b}) \ {victim}
                  /\ mem' = Freed(entered, victim)
                  /\ list' = Append(Tail(list), b)
                  /\ UNCHANGED size
           ELSE /\ table' = table \cup {b}
                /\ mem' = entered
                /\ list' = Append(list, b)
                /\ size' = size + 1
  /\ todo' = Tail(todo)

(* free_lcache, at the end of the client; its next run begins with          *)
(* init_lcache.                                                            *)
FreeCache ==
  /\ todo = <<>>
  /\ list' = <<>>
  /\ table' = {}
  /\ size' = 0
  /\ mem' = [b \in Blocks |-> IF b \in table THEN Free ELSE mem[b]]
  /\ UNCHANGED todo

UpdateLcache == \E b \in Blocks : Hit(b) \/ Miss(b)

-----------------------------------------------------------------------------
(* The type of every variable.                                             *)
CacheTypeOK ==
  /\ list \in Seq(Blocks)
  /\ table \subseteq Blocks
  /\ size \in 0 .. LCACHE_SIZE
  /\ mem \in [Blocks -> Features \cup {Free}]
  /\ todo \in Seq(Features)

(* List and table are never out of step, although each is updated in its    *)
(* own way: the list holds exactly the table's blocks, each once, and as    *)
(* many as size says; nothing in them was freed, and nothing else leaks.    *)
ListIsTable ==
  /\ {list[i] : i \in DOMAIN list} = table
  /\ Len(list) = size
  /\ \A i, j \in DOMAIN list : list[i] = list[j] => i = j
  /\ \A b \in Blocks : b \in table <=> mem[b] # Free

(* The table's keys stay different: evicting one entry by its content never *)
(* frees another one's block.                                               *)
KeysDiffer == \A a, b \in table : mem[a] = mem[b] => a = b

-----------------------------------------------------------------------------
Abstract == INSTANCE LruSet WITH
  Size <- LCACHE_SIZE, recent <- [i \in DOMAIN list |-> mem[list[i]]], asked <- todo

(* The cache holds the LCACHE_SIZE features used last, in that order, each   *)
(* use counted.                                                            *)
ImplementsLruSet == Abstract!Spec
=============================================================================
