------------------------------ MODULE MCHashMap ------------------------------
(***************************************************************************)
(* Four keys, two to a bucket: the first and the last entry of a chain are *)
(* deleted and inserted again in every order.  With three keys in a bucket *)
(* an entry in the middle can be deleted.                                  *)
(***************************************************************************)
EXTENDS HashMap, TLC

CONSTANTS e1, e2, e3, e4, v1, v2

MCKeys    == 1..4
MCEntries == {e1, e2, e3, e4}
MCValues  == {v1, v2}
MCBuckets == 0..1

TwoEach  == [k \in MCKeys |-> k % 2]
ThreeOne == [k \in MCKeys |-> IF k = 4 THEN 1 ELSE 0]

Symmetry == Permutations(MCEntries) \cup Permutations(MCValues)
===============================================================================
