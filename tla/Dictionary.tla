------------------------------ MODULE Dictionary ------------------------------
(***************************************************************************)
(* What hashmap.h promises: a map from keys to values that refuses a key   *)
(* it holds, and the list of its keys in the order they came.              *)
(***************************************************************************)
EXTENDS Integers, Sequences

Seqs == INSTANCE SequencesExt

CONSTANTS Keys, Values

VARIABLES
    binding,   \* the value of each key of the map
    order      \* the keys, oldest first

vars == <<binding, order>>

Init == binding = <<>> /\ order = <<>>

Insert(k, v) ==
    /\ k \notin DOMAIN binding
    /\ binding' = [j \in DOMAIN binding \cup {k} |->
                     IF j = k THEN v ELSE binding[j]]
    /\ order' = Append(order, k)

Delete(k) ==
    /\ k \in DOMAIN binding
    /\ binding' = [j \in DOMAIN binding \ {k} |-> binding[j]]
    /\ \E j \in 1..Len(order) : order[j] = k /\ order' = Seqs!RemoveAt(order, j)

Clear == binding' = <<>> /\ order' = <<>>

Next ==
    \/ Clear
    \/ \E k \in Keys, v \in Values : Insert(k, v)
    \/ \E k \in Keys : Delete(k)

Spec == Init /\ [][Next]_vars
===============================================================================
