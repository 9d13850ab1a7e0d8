----------------------------- MODULE MCLinkedList -----------------------------
(***************************************************************************)
(* Two lists over four nodes: a node in the middle of a list can be        *)
(* removed, freed nodes are used again, and malloc runs out of memory.     *)
(***************************************************************************)
EXTENDS LinkedList, TLC

CONSTANTS l1, l2, n1, n2, n3, n4, d1, d2

MCLists == {l1, l2}
MCNodes == {n1, n2, n3, n4}
MCData  == {d1, d2}

Symmetry == Permutations(MCNodes)
===============================================================================
