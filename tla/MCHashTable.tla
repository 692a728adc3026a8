---------------------------- MODULE MCHashTable ----------------------------
(***************************************************************************)
(* Three keys in two buckets: two of them collide.                         *)
(***************************************************************************)
EXTENDS HashTableSpec

CONSTANTS ka, kb, kc

MCHashFun == [k \in HashKeys |-> IF k = kc THEN 1 ELSE 0]
=============================================================================
