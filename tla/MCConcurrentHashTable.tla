------------------------ MODULE MCConcurrentHashTable ------------------------
(* An instance of ConcurrentHashTable for TLC.                             *)
EXTENDS ConcurrentHashTable, TLC

CONSTANTS x, y, z, u, v, t1, t2, t3

TwoSubs == [k \in Keys |-> IF k = z THEN 1 ELSE 0]

(* fp_table and fea_table; open_fea_con.table.                             *)
ServerTables == {{"try_insert", "lookup", "size"}, {"insert", "lookup", "remove"}}

Symmetry == Permutations(Threads) \cup Permutations(Vals)
=============================================================================
