------------------------------ MODULE LinkedList ------------------------------
(***************************************************************************)
(* The doubly linked lists of linked_list.c, which hold the operations of  *)
(* a segment, the work lists of the passes and the keys of a hash map: one *)
(* heap of nodes, shared by several lists.                                 *)
(*                                                                         *)
(* malloc returns any node that is not in use, with whatever it held       *)
(* before, and NULL when there is none: the finite set Nodes is the memory.*)
(* linked_list_copy_to is one step per element; the others are one step.   *)
(***************************************************************************)
EXTENDS Integers, Sequences, FiniteSets

CONSTANTS Lists, Nodes, Data, NULL

ASSUME HeapAssumption == NULL \notin Nodes /\ NULL \notin Data /\ IsFiniteSet(Nodes)

VARIABLES
    head, tail, size,   \* of each list
    next, prev, data,   \* of each node
    unused,             \* the nodes malloc may return
    copy,               \* linked_list_copy_to: the cursor and the two lists
    crashed             \* a NULL pointer was dereferenced

heap == <<next, prev, data, unused>>
vars == <<head, tail, size, heap, copy, crashed>>

Pointers  == Nodes \cup {NULL}
NotCopying == [lln |-> NULL]

\* The nodes of a list, from the front: At(l)[k] is the k-th.
At(l) ==
    LET at[k \in 1..Cardinality(Nodes)] ==
            IF k = 1 THEN head[l]
            ELSE IF at[k - 1] = NULL THEN NULL ELSE next[at[k - 1]]
    IN  at
NodesOf(l) == {At(l)[k] : k \in 1..size[l]}

Init ==
    /\ head = [l \in Lists |-> NULL]
    /\ tail = [l \in Lists |-> NULL]
    /\ size = [l \in Lists |-> 0]
    /\ next \in [Nodes -> {NULL}]
    /\ prev \in [Nodes -> {NULL}]
    /\ data \in [Nodes -> {NULL}]
    /\ unused = Nodes
    /\ copy = NotCopying
    /\ crashed = FALSE

-------------------------------------------------------------------------------
Running == copy = NotCopying /\ ~crashed

\* linked_list_append with the node malloc returned.
AppendNode(l, n, d) ==
    /\ unused' = unused \ {n}
    /\ data' = [data EXCEPT ![n] = d]
    /\ IF tail[l] # NULL
         THEN /\ next' = [next EXCEPT ![n] = NULL, ![tail[l]] = n]
              /\ prev' = [prev EXCEPT ![n] = tail[l]]
              /\ UNCHANGED head
         ELSE /\ next' = [next EXCEPT ![n] = NULL]
              /\ prev' = [prev EXCEPT ![n] = NULL]
              /\ head' = [head EXCEPT ![l] = n]
    /\ tail' = [tail EXCEPT ![l] = n]
    /\ size' = [size EXCEPT ![l] = @ + 1]

\* malloc returned NULL: the operations that test for it do nothing.
OutOfMemory == unused = {} /\ UNCHANGED <<head, tail, size, heap>>

AppendTo(l, d) ==
    \/ \E n \in unused : AppendNode(l, n, d)
    \/ OutOfMemory

LinkedListAppend(l, d) ==
    /\ Running
    /\ AppendTo(l, d)
    /\ UNCHANGED <<copy, crashed>>

\* The list without its first node, which stays allocated.
DropFront(l) ==
    /\ IF size[l] = 1
         THEN /\ head' = [head EXCEPT ![l] = NULL]
              /\ tail' = [tail EXCEPT ![l] = NULL]
              /\ UNCHANGED prev
         ELSE /\ prev' = [prev EXCEPT ![next[head[l]]] = NULL]
              /\ head' = [head EXCEPT ![l] = next[head[l]]]
              /\ UNCHANGED tail
    /\ size' = [size EXCEPT ![l] = @ - 1]
    /\ UNCHANGED next

LinkedListPopFront(l) ==
    /\ Running
    /\ size[l] # 0
    /\ DropFront(l)
    /\ UNCHANGED <<data, unused, copy, crashed>>

\* Mutant: any allocated node.
MutantBelongs(l, node) == node \notin unused

\* The precondition of the operations that take a node of a list: linked_list_remove
\* tests it by looking for the node's data.
Belongs(l, node) == node \in NodesOf(l)

LinkedListRemove(l, node) ==
    /\ Running
    /\ Belongs(l, node)
    /\ \/ head[l] = node /\ DropFront(l)
       \/ /\ head[l] # node /\ tail[l] = node
          /\ tail' = [tail EXCEPT ![l] = prev[node]]
          /\ next' = [next EXCEPT ![prev[node]] = NULL]
          /\ size' = [size EXCEPT ![l] = @ - 1]
          /\ UNCHANGED <<head, prev>>
       \/ /\ head[l] # node /\ tail[l] # node
          /\ next' = [next EXCEPT ![prev[node]] = next[node]]
          /\ prev' = [prev EXCEPT ![next[node]] = prev[node]]
          /\ size' = [size EXCEPT ![l] = @ - 1]
          /\ UNCHANGED <<head, tail>>
    /\ unused' = unused \cup {node}
    /\ UNCHANGED <<data, copy, crashed>>

\* Mutant: the old head keeps its prev.
MutantPutFrontNode(l, n, d) ==
    /\ unused' = unused \ {n}
    /\ data' = [data EXCEPT ![n] = d]
    /\ prev' = [prev EXCEPT ![n] = NULL]
    /\ next' = [next EXCEPT ![n] = head[l]]
    /\ head' = [head EXCEPT ![l] = n]
    /\ size' = [size EXCEPT ![l] = @ + 1]
    /\ UNCHANGED tail

PutFrontNode(l, n, d) ==
    /\ unused' = unused \ {n}
    /\ data' = [data EXCEPT ![n] = d]
    /\ prev' = [prev EXCEPT ![n] = NULL, ![head[l]] = n]
    /\ next' = [next EXCEPT ![n] = head[l]]
    /\ head' = [head EXCEPT ![l] = n]
    /\ size' = [size EXCEPT ![l] = @ + 1]
    /\ UNCHANGED tail

\* Mutant: appends whatever the size.
MutantLinkedListPutFront(l, d) ==
    /\ Running
    /\ AppendTo(l, d)
    /\ UNCHANGED <<copy, crashed>>

LinkedListPutFront(l, d) ==
    /\ Running
    /\ \/ size[l] = 0 /\ AppendTo(l, d)
       \/ size[l] # 0 /\ \E n \in unused : PutFrontNode(l, n, d)
       \/ size[l] # 0 /\ OutOfMemory
    /\ UNCHANGED <<copy, crashed>>

\* linked_list_put_next tests neither malloc's result nor that lln has a next.
LinkedListPutNext(l, lln, d) ==
    /\ Running
    /\ Belongs(l, lln)
    /\ \/ \E n \in unused :
            /\ next[lln] # NULL
            /\ data' = [data EXCEPT ![n] = d]
            /\ prev' = [prev EXCEPT ![next[lln]] = n, ![n] = lln]
            /\ next' = [next EXCEPT ![lln] = n, ![n] = next[lln]]
            /\ size' = [size EXCEPT ![l] = @ + 1]
            /\ unused' = unused \ {n}
            /\ UNCHANGED crashed
       \/ /\ unused = {} \/ next[lln] = NULL
          /\ crashed' = TRUE
          /\ UNCHANGED <<size, heap>>
    /\ UNCHANGED <<head, tail, copy>>

\* linked_list_delete frees the nodes; the list is made anew before it is used.
LinkedListDelete(l) ==
    /\ Running
    /\ unused' = unused \cup NodesOf(l)
    /\ head' = [head EXCEPT ![l] = NULL]
    /\ tail' = [tail EXCEPT ![l] = NULL]
    /\ size' = [size EXCEPT ![l] = 0]
    /\ UNCHANGED <<next, prev, data, copy, crashed>>

\* linked_list_copy_to: the loop appends to another list.
LinkedListCopyTo(source, dest) ==
    /\ Running
    /\ source # dest
    /\ head[source] # NULL
    /\ copy' = [lln |-> head[source], source |-> source, dest |-> dest]
    /\ UNCHANGED <<head, tail, size, heap, crashed>>

\* Mutant: the cursor moves, the data is read from the head.
MutantCopyNext ==
    /\ copy # NotCopying
    /\ AppendTo(copy.dest, data[head[copy.source]])
    /\ copy' = IF next[copy.lln] = NULL THEN NotCopying
                                        ELSE [copy EXCEPT !.lln = next[copy.lln]]
    /\ UNCHANGED crashed

CopyNext ==
    /\ copy # NotCopying
    /\ AppendTo(copy.dest, data[copy.lln])
    /\ copy' = IF next[copy.lln] = NULL THEN NotCopying
                                        ELSE [copy EXCEPT !.lln = next[copy.lln]]
    /\ UNCHANGED crashed

Stopped == crashed /\ UNCHANGED vars

Next ==
    \/ \E l \in Lists, d \in Data :
         LinkedListAppend(l, d) \/ LinkedListPutFront(l, d)
    \/ \E l \in Lists : LinkedListPopFront(l) \/ LinkedListDelete(l)
    \/ \E l \in Lists, node \in Nodes : LinkedListRemove(l, node)
    \/ \E l \in Lists, lln \in Nodes, d \in Data : LinkedListPutNext(l, lln, d)
    \/ \E source, dest \in Lists : LinkedListCopyTo(source, dest)
    \/ CopyNext
    \/ Stopped

Spec == Init /\ [][Next]_vars

-------------------------------------------------------------------------------
(* Properties *)

TypeOK ==
    /\ head \in [Lists -> Pointers] /\ tail \in [Lists -> Pointers]
    /\ size \in [Lists -> 0..Cardinality(Nodes)]
    /\ next \in [Nodes -> Pointers] /\ prev \in [Nodes -> Pointers]
    /\ data \in [Nodes -> Data \cup {NULL}]
    /\ unused \subseteq Nodes
    /\ copy = NotCopying \/ copy \in [lln : Nodes, source : Lists, dest : Lists]
    /\ crashed \in BOOLEAN

\* The two directions of a list agree: size nodes lead from head to tail, each
\* is the prev of the one after it, and next is NULL exactly at the tail.  The
\* passes walk forward by next; removal relinks by prev.
WellLinked ==
    \A l \in Lists :
        /\ \A k \in 1..size[l] : At(l)[k] # NULL
        /\ \A k \in 1..(size[l] - 1) : prev[At(l)[k + 1]] = At(l)[k]
        /\ IF size[l] = 0
             THEN head[l] = NULL /\ tail[l] = NULL
             ELSE /\ prev[head[l]] = NULL
                  /\ tail[l] = At(l)[size[l]]
                  /\ next[tail[l]] = NULL

\* No list reaches a node that was freed, and no node is in two lists: what one
\* list frees or relinks is never read through another.
NoSharing ==
    /\ \A l \in Lists : NodesOf(l) \cap unused = {}
    /\ \A l, m \in Lists : l # m => NodesOf(l) \cap NodesOf(m) = {}

\* The lists are the sequences linked_list.h promises, through every operation,
\* memory that runs out and nodes that are used again.
Contents(l) == [k \in 1..size[l] |-> data[At(l)[k]]]
Rest ==
    IF copy = NotCopying THEN <<>>
    ELSE LET s == copy.source
             k == CHOOSE j \in 1..size[s] : At(s)[j] = copy.lln
         IN  SubSeq(Contents(s), k, size[s])
Abstract == INSTANCE AbstractList WITH
    contents <- [l \in Lists |-> Contents(l)],
    rest <- Rest,
    dest <- IF copy = NotCopying THEN NULL ELSE copy.dest,
    memory <- unused # {}
KeepsSequences == Abstract!Spec

\* Each operation does to the sequences what its own comment in linked_list.h
\* says: append inserts after the last element, put_front before the first,
\* put_next after the given one, pop_front takes the first and remove the given
\* one, copy_to appends the elements of its source in order.
AsPromised ==
    /\ \A l \in Lists, d \in Data :
          /\ LinkedListAppend(l, d) => Abstract!PutLast(l, d)
          /\ LinkedListPutFront(l, d) => Abstract!PutFront(l, d)
          /\ \A k \in 1..size[l] :
                LinkedListPutNext(l, At(l)[k], d) => crashed' \/ Abstract!PutNext(l, k, d)
    /\ \A l \in Lists :
          /\ LinkedListPopFront(l) => Abstract!PopFront(l)
          /\ LinkedListDelete(l) => Abstract!Clear(l)
          /\ \A k \in 1..size[l] :
                LinkedListRemove(l, At(l)[k]) => Abstract!Remove(l, k)
    /\ \A l, m \in Lists : LinkedListCopyTo(l, m) => Abstract!StartCopy(l, m)
    /\ CopyNext => Abstract!CopyNext
OperationsAsPromised == [][AsPromised]_vars
===============================================================================
