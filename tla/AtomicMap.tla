------------------------------ MODULE AtomicMap ------------------------------
(***************************************************************************)
(* What a concurrent hash table promises its callers: every operation acts *)
(* on one map in a single step between its call and its return.  Only size *)
(* is weaker: it returns some number between the size the map had when the *)
(* call began and the size it has now (for a map nothing is removed from). *)
(***************************************************************************)
EXTENDS Naturals, FiniteSets

CONSTANTS Threads, Keys, Vals, Ops, None

VARIABLES
  map,     \* the value of each key, or None
  phase,   \* of each thread's operation: "idle", "called" or "done"
  op, key, val, \* the operation and its arguments
  floor,   \* the map's size when the operation was called
  result   \* what the operation returns

vars == <<map, phase, op, key, val, floor, result>>

Size == Cardinality({k \in Keys : map[k] # None})

Init ==
  /\ map = [k \in Keys |-> None]
  /\ phase = [t \in Threads |-> "idle"]
  /\ op = [t \in Threads |-> None]
  /\ key = [t \in Threads |-> None]
  /\ val = [t \in Threads |-> None]
  /\ floor = [t \in Threads |-> 0]
  /\ result = [t \in Threads |-> None]

KeyArgs(o) == IF o = "size" THEN {None} ELSE Keys
ValArgs(o) == IF o \in {"insert", "try_insert"} THEN Vals ELSE {None}

Call(t) ==
  \E o \in Ops : \E k \in KeyArgs(o), v \in ValArgs(o) :
    /\ phase[t] = "idle"
    /\ phase' = [phase EXCEPT ![t] = "called"]
    /\ op' = [op EXCEPT ![t] = o]
    /\ key' = [key EXCEPT ![t] = k]
    /\ val' = [val EXCEPT ![t] = v]
    /\ floor' = [floor EXCEPT ![t] = Size]
    /\ UNCHANGED <<map, result>>

Finishes(t, r) ==
  /\ phase[t] = "called"
  /\ phase' = [phase EXCEPT ![t] = "done"]
  /\ result' = [result EXCEPT ![t] = r]
  /\ UNCHANGED <<op, key, val, floor>>

Insert(t) ==          \* TRUE when the key is new
  /\ op[t] = "insert"
  /\ Finishes(t, IF map[key[t]] = None THEN 1 ELSE 0)
  /\ map' = [map EXCEPT ![key[t]] = val[t]]

TryInsert(t) ==       \* TRUE when the key is there, whose value then stays
  /\ op[t] = "try_insert"
  /\ Finishes(t, IF map[key[t]] # None THEN 1 ELSE 0)
  /\ map' = IF map[key[t]] = None THEN [map EXCEPT ![key[t]] = val[t]] ELSE map

Lookup(t) ==
  /\ op[t] = "lookup"
  /\ Finishes(t, map[key[t]])
  /\ UNCHANGED map

Remove(t) ==
  /\ op[t] = "remove"
  /\ Finishes(t, IF map[key[t]] # None THEN 1 ELSE 0)
  /\ map' = [map EXCEPT ![key[t]] = None]

Count(t) ==
  /\ op[t] = "size"
  /\ \E n \in floor[t] .. Size : Finishes(t, n)
  /\ UNCHANGED map

Return(t) ==
  /\ phase[t] = "done"
  /\ phase' = [phase EXCEPT ![t] = "idle"]
  /\ op' = [op EXCEPT ![t] = None]
  /\ key' = [key EXCEPT ![t] = None]
  /\ val' = [val EXCEPT ![t] = None]
  /\ floor' = [floor EXCEPT ![t] = 0]
  /\ result' = [result EXCEPT ![t] = None]
  /\ UNCHANGED map

Next == \E t \in Threads :
  Call(t) \/ Insert(t) \/ TryInsert(t) \/ Lookup(t) \/ Remove(t) \/ Count(t) \/ Return(t)

Spec == Init /\ [][Next]_vars
=============================================================================
