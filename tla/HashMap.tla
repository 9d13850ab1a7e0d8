------------------------------- MODULE HashMap -------------------------------
(***************************************************************************)
(* The chained hash map of hashmap.c, under the symbol tables, the locals  *)
(* of a frame and the spill names: buckets of linked entries, the list of  *)
(* keys the map keeps beside them, and its size.  Entries is the memory    *)
(* create_entry takes entries from; it never runs out, for a map holds a   *)
(* key once.  An operation on a map that reaches a freed entry reads freed *)
(* memory: the model stops there.                                          *)
(***************************************************************************)
EXTENDS Integers, Sequences, FiniteSets

Seqs == INSTANCE SequencesExt

CONSTANTS Keys, Values, Buckets, Hash, Entries, NULL

ASSUME MapAssumption ==
    /\ Hash \in [Keys -> Buckets]
    /\ IsFiniteSet(Keys) /\ IsFiniteSet(Entries)
    /\ Cardinality(Entries) >= Cardinality(Keys)
    /\ NULL \notin Entries \cup Values

VARIABLES
    buckets,            \* the first entry of each bucket
    key, value, next,   \* of each entry
    unused,             \* the entries that are not allocated
    keys,               \* map->keys: its nodes point at the entries' keys
    size

entries == <<key, value, next, unused>>
vars    == <<buckets, entries, keys, size>>

Pointers == Entries \cup {NULL}

\* The entries that follow e, e first, NULL after the last.
From(e) ==
    LET at[k \in 1..(Cardinality(Entries) + 1)] ==
            IF k = 1 THEN e
            ELSE IF at[k - 1] = NULL THEN NULL ELSE next[at[k - 1]]
    IN  at
Following(e) == {From(e)[k] : k \in DOMAIN From(e)} \ {NULL}
Chain(b)     == Following(buckets[b])

Holding(k) == {e \in Chain(Hash[k]) : key[e] = k}

\* Mutant: only the first entry is compared.
MutantContains(k) ==
    buckets[Hash[k]] # NULL /\ key[buckets[Hash[k]]] = k

\* contains_key and hash_map_contains; hash_map_get for a key of the map.
Contains(k) == Holding(k) # {}

\* Mutant: the first entry of the bucket, whatever its key.
MutantGet(k) == value[buckets[Hash[k]]]

Get(k) ==
    LET chain == From(buckets[Hash[k]])
        first == CHOOSE j \in DOMAIN chain :
                   /\ chain[j] \in Holding(k)
                   /\ \A i \in 1..(j - 1) : chain[i] \notin Holding(k)
    IN  value[chain[first]]

Intact == \A b \in Buckets : Chain(b) \cap unused = {}

Init ==
    /\ buckets = [b \in Buckets |-> NULL]
    /\ key \in [Entries -> {NULL}]
    /\ value \in [Entries -> {NULL}]
    /\ next \in [Entries -> {NULL}]
    /\ unused = Entries
    /\ keys = <<>>
    /\ size = 0

\* A new entry goes to an empty bucket, or to the end of its bucket's chain.
HashMapInsert(k, v) ==
    /\ Intact
    /\ ~Contains(k)
    /\ \E e \in unused :
         /\ unused' = unused \ {e}
         /\ key' = [key EXCEPT ![e] = k]
         /\ value' = [value EXCEPT ![e] = v]
         /\ \/ /\ buckets[Hash[k]] = NULL
               /\ buckets' = [buckets EXCEPT ![Hash[k]] = e]
               /\ next' = [next EXCEPT ![e] = NULL]
            \/ \E last \in Chain(Hash[k]) :
                 /\ next[last] = NULL
                 /\ next' = [next EXCEPT ![e] = NULL, ![last] = e]
                 /\ UNCHANGED buckets
         /\ keys' = Append(keys, e)
    /\ size' = size + 1

RefuseInsert(k) == Intact /\ Contains(k) /\ UNCHANGED vars

(***************************************************************************)
(* destroy_entry frees an entry and those that follow it.  What was in     *)
(* them is forgotten: the next allocation overwrites it.                   *)
(***************************************************************************)
DestroyEntries(es) ==
    /\ unused' = unused \cup es
    /\ key' = [d \in Entries |-> IF d \in es THEN NULL ELSE key[d]]
    /\ value' = [d \in Entries |-> IF d \in es THEN NULL ELSE value[d]]

\* Mutant: the bucket is emptied.
MutantDeleteFirst(k, e) ==
    /\ buckets[Hash[k]] = e
    /\ buckets' = [buckets EXCEPT ![Hash[k]] = NULL]
    /\ next' = [next EXCEPT ![e] = NULL]
    /\ DestroyEntries({e})

\* The first entry is unlinked from the chain before it is destroyed ...
DeleteFirst(k, e) ==
    /\ buckets[Hash[k]] = e
    /\ buckets' = [buckets EXCEPT ![Hash[k]] = next[e]]
    /\ next' = [next EXCEPT ![e] = NULL]
    /\ DestroyEntries({e})

\* ... another one is not, and the entries after it are destroyed, too.
DeleteLater(k, e) ==
    /\ \E before \in Chain(Hash[k]) :
         /\ next[before] = e
         /\ next' = [d \in Entries |->
                      IF d = before THEN next[e]
                      ELSE IF d \in Following(e) THEN NULL ELSE next[d]]
    /\ DestroyEntries(Following(e))
    /\ UNCHANGED buckets

\* linked_list_remove of the node that linked_list_find finds for e's key.
RemoveKey(e) ==
    \E j \in 1..Len(keys) : keys[j] = e /\ keys' = Seqs!RemoveAt(keys, j)

HashMapDelete(k) ==
    /\ Intact
    /\ \E e \in Holding(k) :
         /\ DeleteFirst(k, e) \/ DeleteLater(k, e)
         /\ RemoveKey(e)
    /\ size' = size - 1

RefuseDelete(k) == Intact /\ ~Contains(k) /\ UNCHANGED vars

\* Mutant: the next map starts with the size of the last.
MutantDestroyHashMap ==
    /\ Intact
    /\ DestroyEntries(UNION {Chain(b) : b \in Buckets})
    /\ next' = [d \in Entries |-> NULL]
    /\ buckets' = [b \in Buckets |-> NULL]
    /\ keys' = <<>>
    /\ UNCHANGED size

\* destroy_hash_map; a map is created empty before it is used again.
DestroyHashMap ==
    /\ Intact
    /\ DestroyEntries(UNION {Chain(b) : b \in Buckets})
    /\ next' = [d \in Entries |-> NULL]
    /\ buckets' = [b \in Buckets |-> NULL]
    /\ keys' = <<>>
    /\ size' = 0

Next ==
    \/ \E k \in Keys, v \in Values : HashMapInsert(k, v)
    \/ \E k \in Keys : RefuseInsert(k) \/ HashMapDelete(k) \/ RefuseDelete(k)
    \/ DestroyHashMap

Spec == Init /\ [][Next]_vars

-------------------------------------------------------------------------------
(* Properties *)

TypeOK ==
    /\ buckets \in [Buckets -> Pointers]
    /\ key \in [Entries -> Keys \cup {NULL}]
    /\ value \in [Entries -> Values \cup {NULL}]
    /\ next \in [Entries -> Pointers]
    /\ unused \subseteq Entries
    /\ keys \in Seq(Entries)
    /\ size \in 0..Cardinality(Keys)

\* Every bucket's chain ends, the entries in it hash to it and have different
\* keys: a lookup finds what an insertion left, wherever the entry moved since.
ChainsSound ==
    \A b \in Buckets :
        /\ From(buckets[b])[Cardinality(Entries) + 1] = NULL
        /\ \A e \in Chain(b) : Hash[key[e]] = b
        /\ \A e, f \in Chain(b) : key[e] = key[f] => e = f

\* The list of keys and the size tell what the buckets hold, and every entry of
\* the list is allocated: symbol tables enumerate their keys through this list.
KeysListed ==
    /\ {keys[j] : j \in 1..Len(keys)} = UNION {Chain(b) : b \in Buckets}
    /\ \A j \in 1..Len(keys) : keys[j] \notin unused
    /\ size = Len(keys)

\* The map is the dictionary of hashmap.h.
Present == {k \in Keys : Contains(k)}
Abstract == INSTANCE Dictionary WITH
    binding <- [k \in Present |-> Get(k)],
    order <- [j \in 1..Len(keys) |-> key[keys[j]]]
KeepsDictionary == Abstract!Spec

\* hashmap.h, lines 66-68: hash_map_delete deletes the entry associated with the
\* key, so it frees no entry the map still holds.
DeletesOneEntry == Intact
===============================================================================
