--------------------------- MODULE LinkedListProofs ---------------------------
(***************************************************************************)
(* Proofs about the lists of linked_list.c, for any number of lists and of *)
(* nodes.  The invariant says that there is a path for every list: the     *)
(* sequence of its nodes, which next follows to the tail, prev follows to  *)
(* the head, and no other list or free node is on.  An operation inserts a *)
(* node into the path of one list, or removes one; the rest of the heap is *)
(* as it was.  Data along the paths are the sequences linked_list.h        *)
(* promises.                                                               *)
(***************************************************************************)
EXTENDS LinkedList, ChainFacts, FiniteSetTheorems

(***************************************************************************)
(* The sequence p holds the nodes of list l, in both directions.           *)
(***************************************************************************)
IsPath(p, l) ==
    /\ p \in [1..size[l] -> Nodes]
    /\ \A i, j \in 1..size[l] : p[i] = p[j] => i = j
    /\ head[l] = IF size[l] = 0 THEN NULL ELSE p[1]
    /\ tail[l] = IF size[l] = 0 THEN NULL ELSE p[size[l]]
    /\ \A k \in 1..size[l] : next[p[k]] = IF k = size[l] THEN NULL ELSE p[k + 1]
    /\ \A k \in 1..size[l] : prev[p[k]] = IF k = 1 THEN NULL ELSE p[k - 1]

HeapTypes ==
    /\ head \in [Lists -> Pointers] /\ tail \in [Lists -> Pointers]
    /\ size \in [Lists -> Nat]
    /\ next \in [Nodes -> Pointers] /\ prev \in [Nodes -> Pointers]
    /\ data \in [Nodes -> Data \cup {NULL}]
    /\ unused \subseteq Nodes

Types ==
    /\ HeapTypes
    /\ copy = NotCopying \/ copy \in [lln : Nodes, source : Lists, dest : Lists]
    /\ crashed \in BOOLEAN

\* The nodes of a path belong to it alone: they are allocated, and hold data.
Owned(path) ==
    /\ \A l, m \in Lists : \A i \in 1..size[l], j \in 1..size[m] :
          path[l][i] = path[m][j] => l = m
    /\ \A l \in Lists : \A i \in 1..size[l] :
          path[l][i] \notin unused /\ data[path[l][i]] \in Data

Sound(path) ==
    /\ \A l \in Lists : IsPath(path[l], l)
    /\ Owned(path)

\* A copy reads from a node of its source and appends to another list.
CopySound(path) ==
    copy # NotCopying =>
        /\ copy.source # copy.dest
        /\ \E i \in 1..size[copy.source] : path[copy.source][i] = copy.lln

IInv == Types /\ \E path : Sound(path) /\ CopySound(path)

InsertedAt(p, n, i, node) ==
    [k \in 1..(n + 1) |-> IF k <= i THEN p[k] ELSE IF k = i + 1 THEN node ELSE p[k - 1]]
RemovedAt(p, n, i) ==
    [k \in 1..(n - 1) |-> IF k < i THEN p[k] ELSE p[k + 1]]
With(path, l, p) == [m \in Lists |-> IF m = l THEN p ELSE path[m]]

(***************************************************************************)
(* What an operation on list l leaves alone: the other lists.              *)
(***************************************************************************)
OthersKept(path, l) ==
    \A m \in Lists \ {l} :
        /\ size'[m] = size[m] /\ head'[m] = head[m] /\ tail'[m] = tail[m]
        /\ \A i \in 1..size[m] :
              /\ next'[path[m][i]] = next[path[m][i]]
              /\ prev'[path[m][i]] = prev[path[m][i]]
              /\ data'[path[m][i]] = data[path[m][i]]
              /\ path[m][i] \notin unused'

(***************************************************************************)
(* An operation on one list keeps the paths of the others.                 *)
(***************************************************************************)
LEMMA OneListChanges ==
    ASSUME NEW path, Sound(path), NEW l \in Lists, OthersKept(path, l),
           NEW p, IsPath(p, l)',
           \A k \in 1..size'[l] :
              /\ p[k] \notin unused' /\ data'[p[k]] \in Data
              /\ \A m \in Lists \ {l} : \A i \in 1..size[m] : path[m][i] # p[k]
    PROVE  Sound(With(path, l, p))'
<1> DEFINE q == With(path, l, p)
<1>1. ASSUME NEW m \in Lists \ {l} PROVE IsPath(q[m], m)'
    <2>1. q[m] = path[m] /\ IsPath(path[m], m)
        BY DEF With, Sound
    <2>2. path[m] \in [1..size[m] -> Nodes]
        BY <2>1 DEF IsPath
    <2> HIDE DEF q
    <2> QED BY <2>1, <2>2 DEF IsPath, OthersKept
<1>2. IsPath(q[l], l)'
    BY DEF With
<1>3. Owned(q)'
    <2>1. ASSUME NEW m \in Lists, NEW i \in 1..size'[m]
          PROVE  q[m][i] \notin unused' /\ data'[q[m][i]] \in Data
        BY DEF With, Sound, Owned, OthersKept
    <2>2. ASSUME NEW m \in Lists, NEW o \in Lists, NEW i \in 1..size'[m],
                 NEW j \in 1..size'[o], q[m][i] = q[o][j], m # o
          PROVE  FALSE
        <3>1. CASE m = l
            BY <2>2, <3>1 DEF With, OthersKept
        <3>2. CASE o = l
            BY <2>2, <3>2 DEF With, OthersKept
        <3>3. CASE m # l /\ o # l
            BY <2>2, <3>3 DEF With, OthersKept, Sound, Owned
        <3> QED BY <3>1, <3>2, <3>3
    <2> QED BY <2>1, <2>2 DEF Owned
<1> QED BY <1>1, <1>2, <1>3 DEF Sound

(***************************************************************************)
(* node, with data d, becomes the node after the i-th of list l.           *)
(***************************************************************************)
Inserted(p, l, i, node, d) ==
    /\ unused' = unused \ {node}
    /\ data' = [data EXCEPT ![node] = d]
    /\ size' = [size EXCEPT ![l] = @ + 1]
    /\ head' = IF i = 0 THEN [head EXCEPT ![l] = node] ELSE head
    /\ tail' = IF i = size[l] THEN [tail EXCEPT ![l] = node] ELSE tail
    /\ next' \in [Nodes -> Pointers] /\ prev' \in [Nodes -> Pointers]
    /\ next'[node] = IF i = size[l] THEN NULL ELSE p[i + 1]
    /\ prev'[node] = IF i = 0 THEN NULL ELSE p[i]
    /\ \A n \in Nodes \ {node} :
          /\ next'[n] = IF i > 0 /\ n = p[i] THEN node ELSE next[n]
          /\ prev'[n] = IF i < size[l] /\ n = p[i + 1] THEN node ELSE prev[n]

(***************************************************************************)
(* After an insertion the path with the new node is the path of the list.  *)
(***************************************************************************)
LEMMA InsertKeeps ==
    ASSUME HeapTypes, NEW path, Sound(path), NEW l \in Lists, NEW i \in 0..size[l],
           NEW node \in unused, NEW d \in Data, Inserted(path[l], l, i, node, d),
           NEW q, q = InsertedAt(path[l], size[l], i, node)
    PROVE  Sound(With(path, l, q))'
<1> DEFINE p == path[l]
           n == size[l]
<1>1. n \in Nat /\ i \in 0..n /\ size'[l] = n + 1
    BY DEF HeapTypes, Inserted
<1>2. IsPath(p, l) /\ node \in Nodes
    BY DEF Sound, HeapTypes
<1>3. \A k \in 1..n : p[k] \in Nodes /\ p[k] # node
    <2>1. \A k \in 1..n : p[k] \in Nodes
        BY <1>2 DEF IsPath
    <2>2. \A k \in 1..n : p[k] \notin unused
        BY DEF Sound, Owned
    <2> QED BY <2>1, <2>2
<1>4. \A j, k \in 1..n : p[j] = p[k] => j = k
    BY <1>2 DEF IsPath
<1>5. OthersKept(path, l)
    <2> SUFFICES ASSUME NEW m \in Lists \ {l}
                 PROVE  /\ size'[m] = size[m] /\ head'[m] = head[m] /\ tail'[m] = tail[m]
                        /\ \A j \in 1..size[m] :
                              /\ next'[path[m][j]] = next[path[m][j]]
                              /\ prev'[path[m][j]] = prev[path[m][j]]
                              /\ data'[path[m][j]] = data[path[m][j]]
                              /\ path[m][j] \notin unused'
        BY DEF OthersKept
    <2>1. IsPath(path[m], m) /\ size[m] \in Nat
        BY DEF Sound, HeapTypes
    <2>2. size'[m] = size[m] /\ head'[m] = head[m] /\ tail'[m] = tail[m]
        BY DEF Inserted, HeapTypes
    <2>3. ASSUME NEW j \in 1..size[m]
          PROVE  path[m][j] \in Nodes /\ path[m][j] # node /\ path[m][j] \notin unused
        BY <2>1 DEF Sound, Owned, IsPath
    <2>4. ASSUME NEW j \in 1..size[m], NEW k \in 1..n PROVE path[m][j] # p[k]
        BY DEF Sound, Owned
    <2>5. ASSUME NEW j \in 1..size[m]
          PROVE  /\ next'[path[m][j]] = next[path[m][j]]
                 /\ prev'[path[m][j]] = prev[path[m][j]]
        BY <2>3, <2>4, <1>1 DEF Inserted
    <2>6. ASSUME NEW j \in 1..size[m]
          PROVE  data'[path[m][j]] = data[path[m][j]] /\ path[m][j] \notin unused'
        BY <2>3 DEF Inserted, HeapTypes
    <2> QED BY <2>2, <2>5, <2>6
<1>6. /\ q \in [1..(n + 1) -> Nodes]
      /\ \A k \in 1..i : q[k] = p[k]
      /\ q[i + 1] = node
      /\ \A k \in (i + 1)..n : q[k + 1] = p[k]
      /\ \A k \in (i + 2)..(n + 1) : q[k] = p[k - 1]
    <2>1. q = [k \in 1..(n + 1) |->
                 IF k <= i THEN p[k] ELSE IF k = i + 1 THEN node ELSE p[k - 1]]
        BY DEF InsertedAt
    <2> HIDE DEF p, n
    <2>2. ASSUME NEW k \in 1..(n + 1) PROVE q[k] \in Nodes
        <3>1. CASE k <= i
            BY <1>1, <1>3, <2>1, <3>1
        <3>2. CASE k > i + 1
            <4>1. k - 1 \in 1..n
                BY <1>1, <3>2
            <4> QED BY <1>1, <1>3, <2>1, <3>2, <4>1
        <3> QED BY <1>1, <1>2, <2>1, <3>1, <3>2
    <2>3. q \in [1..(n + 1) -> Nodes]
        BY <2>1, <2>2
    <2>4. \A k \in 1..i : q[k] = p[k]
        BY <1>1, <2>1
    <2>5. q[i + 1] = node
        BY <1>1, <2>1
    <2>6. \A k \in (i + 1)..n : q[k + 1] = p[k]
        BY <1>1, <2>1
    <2>7. \A k \in (i + 2)..(n + 1) : q[k] = p[k - 1]
        BY <1>1, <2>1
    <2> QED BY <2>3, <2>4, <2>5, <2>6, <2>7
<1> HIDE DEF p, n
<1>7. \A j, k \in 1..(n + 1) : q[j] = q[k] => j = k
    <2> SUFFICES ASSUME NEW j \in 1..(n + 1), NEW k \in 1..(n + 1), q[j] = q[k], j < k
                 PROVE  FALSE
        BY <1>1
    <2>1. CASE k <= i
        BY <1>1, <1>4, <1>6, <2>1
    <2>2. CASE k = i + 1
        BY <1>1, <1>3, <1>6, <2>2
    <2>3. CASE k > i + 1
        <3>1. k \in (i + 2)..(n + 1) /\ k - 1 \in 1..n /\ q[k] = p[k - 1]
            BY <1>1, <1>6, <2>3
        <3>2. CASE j <= i
            BY <1>1, <1>4, <1>6, <3>1, <3>2, <2>3
        <3>3. CASE j = i + 1
            BY <1>3, <1>6, <3>1, <3>3
        <3>4. CASE j > i + 1
            <4>1. j \in (i + 2)..(n + 1) /\ j - 1 \in 1..n /\ q[j] = p[j - 1]
                BY <1>1, <1>6, <3>4
            <4> QED BY <1>1, <1>4, <3>1, <4>1
        <3> QED BY <1>1, <3>2, <3>3, <3>4
    <2> QED BY <1>1, <2>1, <2>2, <2>3
<1>8. head'[l] = q[1] /\ tail'[l] = q[n + 1]
    <2>1. /\ head[l] = IF n = 0 THEN NULL ELSE p[1]
          /\ tail[l] = IF n = 0 THEN NULL ELSE p[n]
        BY <1>2 DEF n, p, IsPath
    <2>2. /\ head'[l] = IF i = 0 THEN node ELSE head[l]
          /\ tail'[l] = IF i = n THEN node ELSE tail[l]
        BY DEF n, Inserted, HeapTypes
    <2>3. i > 0 => q[1] = p[1]
        BY <1>1, <1>6
    <2>4. i < n => q[n + 1] = p[n]
        BY <1>1, <1>6
    <2> QED BY <1>1, <1>6, <2>1, <2>2, <2>3, <2>4
<1>9. ASSUME NEW k \in 1..(n + 1)
      PROVE  /\ next'[q[k]] = IF k = n + 1 THEN NULL ELSE q[k + 1]
             /\ prev'[q[k]] = IF k = 1 THEN NULL ELSE q[k - 1]
    <2>1. /\ next'[node] = IF i = n THEN NULL ELSE p[i + 1]
          /\ prev'[node] = IF i = 0 THEN NULL ELSE p[i]
          /\ \A j \in 1..n :
                /\ next'[p[j]] = IF i > 0 /\ p[j] = p[i] THEN node ELSE next[p[j]]
                /\ prev'[p[j]] = IF i < n /\ p[j] = p[i + 1] THEN node ELSE prev[p[j]]
        BY <1>3 DEF Inserted, p, n
    <2>2. \A j \in 1..n : /\ next'[p[j]] = IF j = i THEN node ELSE next[p[j]]
                          /\ prev'[p[j]] = IF j = i + 1 THEN node ELSE prev[p[j]]
        BY <1>1, <1>4, <2>1
    <2>3. \A j \in 1..n : /\ next[p[j]] = IF j = n THEN NULL ELSE p[j + 1]
                          /\ prev[p[j]] = IF j = 1 THEN NULL ELSE p[j - 1]
        BY <1>2 DEF IsPath, p, n
    <2>4. CASE k = i + 1
        <3>1. i < n => q[k + 1] = p[i + 1]
            BY <1>1, <1>6, <2>4
        <3>2. i > 0 => q[k - 1] = p[i]
            BY <1>1, <1>6, <2>4
        <3> QED BY <1>1, <1>6, <2>1, <2>4, <3>1, <3>2
    <2>5. CASE k < i + 1
        <3>1. k \in 1..n /\ q[k] = p[k]
            BY <1>1, <1>6, <2>5
        <3>2. k # 1 => q[k - 1] = p[k - 1]
            BY <1>1, <1>6, <3>1, <2>5
        <3>3. k # i => k # n /\ q[k + 1] = p[k + 1]
            BY <1>1, <1>6, <3>1, <2>5
        <3>4. k # n + 1 /\ k # i + 1
            BY <1>1, <2>5
        <3> QED BY <1>1, <1>6, <2>2, <2>3, <2>5, <3>1, <3>2, <3>3, <3>4
    <2>6. CASE k > i + 1
        <3>1. k - 1 \in 1..n /\ k \in (i + 2)..(n + 1) /\ q[k] = p[k - 1]
            BY <1>1, <1>6, <2>6
        <3>2. next'[p[k - 1]] = IF k - 1 = n THEN NULL ELSE p[k]
            BY <1>1, <2>2, <2>3, <2>6, <3>1
        <3>3. prev'[p[k - 1]] = IF k - 1 = i + 1 THEN node ELSE p[k - 2]
            BY <1>1, <2>2, <2>3, <2>6, <3>1
        <3>4. k # n + 1 => q[k + 1] = p[k]
            BY <1>1, <1>6, <3>1
        <3>5. k - 1 # i + 1 => q[k - 1] = p[k - 2]
            BY <1>1, <1>6, <3>1
        <3> QED BY <1>1, <1>6, <2>6, <3>1, <3>2, <3>3, <3>4, <3>5
    <2> QED BY <1>1, <2>4, <2>5, <2>6
<1>10. IsPath(q, l)'
    BY <1>1, <1>6, <1>7, <1>8, <1>9 DEF IsPath
<1>11. ASSUME NEW k \in 1..size'[l]
       PROVE  /\ q[k] \notin unused' /\ data'[q[k]] \in Data
              /\ \A m \in Lists \ {l} : \A j \in 1..size[m] : path[m][j] # q[k]
    <2>1. q[k] = node \/ \E j \in 1..n : q[k] = p[j]
        <3>1. CASE k <= i
            BY <1>1, <1>6, <3>1
        <3>2. CASE k = i + 1
            BY <1>6, <3>2
        <3>3. CASE k > i + 1
            BY <1>1, <1>6, <3>3
        <3> QED BY <1>1, <3>1, <3>2, <3>3
    <2>2. CASE q[k] = node
        <3>1. \A m \in Lists \ {l} : \A j \in 1..size[m] : path[m][j] # node
            BY DEF Sound, Owned
        <3>2. node \notin unused' /\ data'[node] \in Data
            BY <1>2 DEF Inserted, HeapTypes
        <3> QED BY <2>2, <3>1, <3>2
    <2>3. CASE \E j \in 1..n : q[k] = p[j]
        BY <2>3, <1>3 DEF Inserted, HeapTypes, Sound, Owned, p, n
    <2> QED BY <2>1, <2>2, <2>3
<1> QED BY <1>5, <1>10, <1>11, OneListChanges

(***************************************************************************)
(* The i-th node of list l leaves it.                                      *)
(***************************************************************************)
Removed(p, l, i) ==
    /\ unused' \subseteq unused \cup {p[i]}
    /\ data' = data
    /\ size' = [size EXCEPT ![l] = @ - 1]
    /\ head' = IF i > 1 THEN head
               ELSE [head EXCEPT ![l] = IF size[l] = 1 THEN NULL ELSE p[2]]
    /\ tail' = IF i < size[l] THEN tail
               ELSE [tail EXCEPT ![l] = IF size[l] = 1 THEN NULL ELSE p[size[l] - 1]]
    /\ next' \in [Nodes -> Pointers] /\ prev' \in [Nodes -> Pointers]
    /\ \A n \in Nodes \ {p[i]} :
          /\ next'[n] = IF i > 1 /\ n = p[i - 1]
                          THEN IF i = size[l] THEN NULL ELSE p[i + 1]
                          ELSE next[n]
          /\ prev'[n] = IF i < size[l] /\ n = p[i + 1]
                          THEN IF i = 1 THEN NULL ELSE p[i - 1]
                          ELSE prev[n]

(***************************************************************************)
(* After a removal the path without the node is the path of the list.      *)
(***************************************************************************)
LEMMA RemoveKeeps ==
    ASSUME HeapTypes, NEW path, Sound(path), NEW l \in Lists, NEW i \in 1..size[l],
           Removed(path[l], l, i), NEW q, q = RemovedAt(path[l], size[l], i)
    PROVE  Sound(With(path, l, q))'
<1> DEFINE p == path[l]
           n == size[l]
<1>1. n \in Nat /\ i \in 1..n /\ size'[l] = n - 1
    BY DEF HeapTypes, Removed
<1>2. IsPath(p, l)
    BY DEF Sound
<1>3. \A k \in 1..n : p[k] \in Nodes
    BY <1>2 DEF IsPath
<1>4. \A j, k \in 1..n : p[j] = p[k] => j = k
    BY <1>2 DEF IsPath
<1>5. OthersKept(path, l)
    <2> SUFFICES ASSUME NEW m \in Lists \ {l}
                 PROVE  /\ size'[m] = size[m] /\ head'[m] = head[m] /\ tail'[m] = tail[m]
                        /\ \A j \in 1..size[m] :
                              /\ next'[path[m][j]] = next[path[m][j]]
                              /\ prev'[path[m][j]] = prev[path[m][j]]
                              /\ data'[path[m][j]] = data[path[m][j]]
                              /\ path[m][j] \notin unused'
        BY DEF OthersKept
    <2>1. IsPath(path[m], m) /\ size[m] \in Nat
        BY DEF Sound, HeapTypes
    <2>2. size'[m] = size[m] /\ head'[m] = head[m] /\ tail'[m] = tail[m]
        BY DEF Removed, HeapTypes
    <2>3. ASSUME NEW j \in 1..size[m]
          PROVE  path[m][j] \in Nodes /\ path[m][j] \notin unused
        BY <2>1 DEF Sound, Owned, IsPath
    <2>4. ASSUME NEW j \in 1..size[m], NEW k \in 1..n PROVE path[m][j] # p[k]
        BY DEF Sound, Owned
    <2>5. ASSUME NEW j \in 1..size[m]
          PROVE  /\ next'[path[m][j]] = next[path[m][j]]
                 /\ prev'[path[m][j]] = prev[path[m][j]]
        <3>1. path[m][j] \in Nodes \ {p[i]}
            BY <1>1, <2>3, <2>4
        <3>2. /\ i > 1 => path[m][j] # p[i - 1]
              /\ i < n => path[m][j] # p[i + 1]
            BY <1>1, <2>4
        <3> QED BY <3>1, <3>2 DEF Removed
    <2>6. ASSUME NEW j \in 1..size[m]
          PROVE  data'[path[m][j]] = data[path[m][j]] /\ path[m][j] \notin unused'
        BY <1>1, <2>3, <2>4 DEF Removed, HeapTypes
    <2> QED BY <2>2, <2>5, <2>6
<1>6. /\ q \in [1..(n - 1) -> Nodes]
      /\ \A k \in 1..(i - 1) : q[k] = p[k]
      /\ \A k \in i..(n - 1) : q[k] = p[k + 1]
    BY <1>1, <1>3 DEF RemovedAt
<1> HIDE DEF p, n
<1>7. \A j, k \in 1..(n - 1) : q[j] = q[k] => j = k
    <2> SUFFICES ASSUME NEW j \in 1..(n - 1), NEW k \in 1..(n - 1), q[j] = q[k], j < k
                 PROVE  FALSE
        BY <1>1
    <2>1. CASE k < i
        BY <1>1, <1>4, <1>6, <2>1
    <2>2. CASE k >= i
        <3>1. k + 1 \in 1..n /\ q[k] = p[k + 1]
            BY <1>1, <1>6, <2>2
        <3>2. CASE j < i
            BY <1>1, <1>4, <1>6, <3>1, <3>2
        <3>3. CASE j >= i
            <4>1. j + 1 \in 1..n /\ q[j] = p[j + 1]
                BY <1>1, <1>6, <3>3
            <4> QED BY <1>1, <1>4, <3>1, <4>1
        <3> QED BY <1>1, <3>2, <3>3
    <2> QED BY <1>1, <2>1, <2>2
<1>8. /\ head'[l] = IF n - 1 = 0 THEN NULL ELSE q[1]
      /\ tail'[l] = IF n - 1 = 0 THEN NULL ELSE q[n - 1]
    <2>1. /\ head[l] = IF n = 0 THEN NULL ELSE p[1]
          /\ tail[l] = IF n = 0 THEN NULL ELSE p[n]
        BY <1>2 DEF n, p, IsPath
    <2>2. /\ head'[l] = IF i > 1 THEN head[l] ELSE IF n = 1 THEN NULL ELSE p[2]
          /\ tail'[l] = IF i < n THEN tail[l] ELSE IF n = 1 THEN NULL ELSE p[n - 1]
        BY DEF n, p, Removed, HeapTypes
    <2>3. n # 1 => q[1] = IF i > 1 THEN p[1] ELSE p[2]
        BY <1>1, <1>6
    <2>4. n # 1 => q[n - 1] = IF i < n THEN p[n] ELSE p[n - 1]
        BY <1>1, <1>6
    <2> QED BY <1>1, <2>1, <2>2, <2>3, <2>4
<1>9. ASSUME NEW k \in 1..(n - 1)
      PROVE  /\ next'[q[k]] = IF k = n - 1 THEN NULL ELSE q[k + 1]
             /\ prev'[q[k]] = IF k = 1 THEN NULL ELSE q[k - 1]
    <2>1. \A j \in (1..n) \ {i} :
            /\ next'[p[j]] = IF i > 1 /\ p[j] = p[i - 1]
                               THEN IF i = n THEN NULL ELSE p[i + 1] ELSE next[p[j]]
            /\ prev'[p[j]] = IF i < n /\ p[j] = p[i + 1]
                               THEN IF i = 1 THEN NULL ELSE p[i - 1] ELSE prev[p[j]]
        BY <1>1, <1>3, <1>4 DEF Removed, p, n
    <2>2. \A j \in (1..n) \ {i} :
            /\ next'[p[j]] = IF j = i - 1
                               THEN IF i = n THEN NULL ELSE p[i + 1] ELSE next[p[j]]
            /\ prev'[p[j]] = IF j = i + 1
                               THEN IF i = 1 THEN NULL ELSE p[i - 1] ELSE prev[p[j]]
        BY <1>1, <1>4, <2>1
    <2>3. \A j \in 1..n : /\ next[p[j]] = IF j = n THEN NULL ELSE p[j + 1]
                          /\ prev[p[j]] = IF j = 1 THEN NULL ELSE p[j - 1]
        BY <1>2 DEF IsPath, p, n
    <2>4. CASE k < i
        <3>1. k \in (1..n) \ {i} /\ q[k] = p[k]
            BY <1>1, <1>6, <2>4
        <3>2. k # 1 => q[k - 1] = p[k - 1]
            BY <1>1, <1>6, <3>1, <2>4
        <3>3. k # i - 1 => k # n - 1 /\ q[k + 1] = p[k + 1]
            BY <1>1, <1>6, <3>1, <2>4
        <3>4. k = i - 1 => (k = n - 1 <=> i = n) /\ (i < n => q[k + 1] = p[i + 1])
            BY <1>1, <1>6, <3>1, <2>4
        <3>5. next'[p[k]] = IF k = n - 1 THEN NULL ELSE q[k + 1]
            BY <1>1, <2>2, <2>3, <2>4, <3>1, <3>3, <3>4
        <3>6. prev'[p[k]] = IF k = 1 THEN NULL ELSE q[k - 1]
            BY <1>1, <2>2, <2>3, <2>4, <3>1, <3>2
        <3> QED BY <3>1, <3>5, <3>6
    <2>5. CASE k >= i
        <3>1. k + 1 \in (1..n) \ {i} /\ q[k] = p[k + 1]
            BY <1>1, <1>6, <2>5
        <3>2. k # n - 1 => q[k + 1] = p[k + 2]
            BY <1>1, <1>6, <3>1, <2>5
        <3>3. k # 1 => q[k - 1] = IF k = i THEN p[i - 1] ELSE p[k]
            BY <1>1, <1>6, <3>1, <2>5
        <3>4. next'[p[k + 1]] = IF k = n - 1 THEN NULL ELSE p[k + 2]
            BY <1>1, <2>2, <2>3, <2>5, <3>1
        <3>5. prev'[p[k + 1]] = IF k = 1 THEN NULL ELSE q[k - 1]
            BY <1>1, <2>2, <2>3, <2>5, <3>1, <3>3
        <3> QED BY <3>1, <3>2, <3>4, <3>5
    <2> QED BY <1>1, <2>4, <2>5
<1>10. IsPath(q, l)'
    BY <1>1, <1>6, <1>7, <1>8, <1>9 DEF IsPath
<1>11. ASSUME NEW k \in 1..size'[l]
       PROVE  /\ q[k] \notin unused' /\ data'[q[k]] \in Data
              /\ \A m \in Lists \ {l} : \A j \in 1..size[m] : path[m][j] # q[k]
    <2>1. \E j \in (1..n) \ {i} : q[k] = p[j]
        <3>1. CASE k < i
            BY <1>1, <1>6, <3>1
        <3>2. CASE k >= i
            BY <1>1, <1>6, <3>2
        <3> QED BY <1>1, <3>1, <3>2
    <2>2. PICK j \in (1..n) \ {i} : q[k] = p[j]
        BY <2>1
    <2>3. p[j] # p[i] /\ p[j] \notin unused /\ data[p[j]] \in Data
        BY <1>1, <1>4 DEF Sound, Owned, p, n
    <2>4. \A m \in Lists \ {l} : \A o \in 1..size[m] : path[m][o] # p[j]
        BY DEF Sound, Owned, p, n
    <2> QED BY <2>2, <2>3, <2>4 DEF Removed, p
<1> QED BY <1>5, <1>10, <1>11, OneListChanges

(***************************************************************************)
(* The model's walk along next meets the nodes of the path.                *)
(***************************************************************************)
LEMMA AtIsPath ==
    \A path : HeapTypes /\ Sound(path) =>
       \A l \in Lists :
          /\ size[l] \in 0..Cardinality(Nodes)
          /\ \A k \in 1..size[l] : At(l)[k] = path[l][k]
          /\ NodesOf(l) = {path[l][k] : k \in 1..size[l]}
<1> SUFFICES ASSUME NEW path, HeapTypes, Sound(path), NEW l \in Lists
             PROVE  /\ size[l] \in 0..Cardinality(Nodes)
                    /\ \A k \in 1..size[l] : At(l)[k] = path[l][k]
                    /\ NodesOf(l) = {path[l][k] : k \in 1..size[l]}
    OBVIOUS
<1>1. IsPath(path[l], l) /\ size[l] \in Nat
    BY DEF Sound, HeapTypes
<1>2. Cardinality(Nodes) \in Nat
    BY HeapAssumption, FS_CardinalityType
<1>3. size[l] <= Cardinality(Nodes)
    <2>1. path[l] \in Injection(1..size[l], Nodes)
        BY <1>1 DEF IsPath, Injection, IsInjective
    <2>2. Cardinality(1..size[l]) <= Cardinality(Nodes)
        BY <2>1, HeapAssumption, FS_Injection
    <2>3. Cardinality(1..size[l]) = size[l]
        BY <1>1, FS_Interval
    <2> QED BY <2>2, <2>3
<1>4. Leads(path[l], size[l], head[l], next, NULL)
    BY <1>1, HeapAssumption DEF IsPath, Leads
<1>5. At(l) = Walk(head[l], next, NULL, Cardinality(Nodes))
    BY DEF At, Walk
<1>6. At(l) = [k \in 1..Cardinality(Nodes) |->
                 IF k <= size[l] THEN path[l][k] ELSE NULL]
    BY <1>1, <1>2, <1>3, <1>4, <1>5, WalkFollows
<1>7. \A k \in 1..size[l] : At(l)[k] = path[l][k]
    BY <1>1, <1>2, <1>3, <1>6
<1> QED BY <1>1, <1>2, <1>3, <1>7 DEF NodesOf

(***************************************************************************)
(* linked_list_append puts the new node after the last one.                *)
(***************************************************************************)
LEMMA AppendInserts ==
    ASSUME HeapTypes, NEW path, Sound(path), NEW l \in Lists, NEW n \in unused,
           NEW d \in Data, AppendNode(l, n, d)
    PROVE  Inserted(path[l], l, size[l], n, d)
<1>1. IsPath(path[l], l) /\ size[l] \in Nat /\ n \in Nodes
    BY DEF Sound, HeapTypes
<1>2. \A k \in 1..size[l] : path[l][k] \in Nodes /\ path[l][k] # n
    BY <1>1 DEF Sound, Owned, IsPath
<1>3. CASE size[l] = 0
    <2>1. tail[l] = NULL
        BY <1>1, <1>3 DEF IsPath
    <2>2. /\ next' = [next EXCEPT ![n] = NULL] /\ prev' = [prev EXCEPT ![n] = NULL]
          /\ head' = [head EXCEPT ![l] = n] /\ tail' = [tail EXCEPT ![l] = n]
          /\ size' = [size EXCEPT ![l] = @ + 1]
          /\ unused' = unused \ {n} /\ data' = [data EXCEPT ![n] = d]
        BY <2>1 DEF AppendNode
    <2> QED BY <1>1, <1>3, <2>2 DEF Inserted, HeapTypes, Pointers
<1>4. CASE size[l] # 0
    <2>1. size[l] \in 1..size[l] /\ tail[l] = path[l][size[l]]
        BY <1>1, <1>4 DEF IsPath
    <2>2. tail[l] \in Nodes /\ tail[l] # n /\ tail[l] # NULL
        BY <1>2, <2>1, HeapAssumption
    <2> QED BY <1>1, <1>4, <2>1, <2>2 DEF AppendNode, Inserted, HeapTypes, Pointers
<1> QED BY <1>3, <1>4

(***************************************************************************)
(* linked_list_put_front puts the new node before the first one.           *)
(***************************************************************************)
LEMMA PutFrontInserts ==
    ASSUME HeapTypes, NEW path, Sound(path), NEW l \in Lists, NEW n \in unused,
           NEW d \in Data, size[l] # 0, PutFrontNode(l, n, d)
    PROVE  Inserted(path[l], l, 0, n, d)
<1>1. IsPath(path[l], l) /\ size[l] \in Nat /\ n \in Nodes
    BY DEF Sound, HeapTypes
<1>2. \A k \in 1..size[l] : path[l][k] \in Nodes /\ path[l][k] # n
    BY <1>1 DEF Sound, Owned, IsPath
<1>3. head[l] = path[l][1] /\ head[l] \in Nodes /\ head[l] # n
    BY <1>1, <1>2 DEF IsPath
<1> QED BY <1>1, <1>3 DEF PutFrontNode, Inserted, HeapTypes, Pointers

(***************************************************************************)
(* linked_list_put_next puts the new node after its argument.              *)
(***************************************************************************)
LEMMA PutNextInserts ==
    ASSUME HeapTypes, NEW path, Sound(path), NEW l \in Lists, NEW n \in unused,
           NEW d \in Data, NEW i \in 1..size[l], NEW lln, lln = path[l][i],
           next[lln] # NULL,
           data' = [data EXCEPT ![n] = d],
           prev' = [prev EXCEPT ![next[lln]] = n, ![n] = lln],
           next' = [next EXCEPT ![lln] = n, ![n] = next[lln]],
           size' = [size EXCEPT ![l] = @ + 1],
           unused' = unused \ {n}, head' = head, tail' = tail
    PROVE  Inserted(path[l], l, i, n, d)
<1>1. IsPath(path[l], l) /\ size[l] \in Nat /\ n \in Nodes
    BY DEF Sound, HeapTypes
<1>2. \A k \in 1..size[l] : path[l][k] \in Nodes /\ path[l][k] # n
    BY <1>1 DEF Sound, Owned, IsPath
<1>3. i # size[l] /\ next[lln] = path[l][i + 1]
    BY <1>1 DEF IsPath
<1>4. lln \in Nodes /\ lln # n /\ next[lln] \in Nodes /\ next[lln] # n
    BY <1>1, <1>2, <1>3
<1> QED BY <1>1, <1>3, <1>4 DEF Inserted, HeapTypes, Pointers

(***************************************************************************)
(* Popping, and removing the head, take the first node.                    *)
(***************************************************************************)
LEMMA DropFrontRemoves ==
    ASSUME HeapTypes, NEW path, Sound(path), NEW l \in Lists, size[l] # 0,
           DropFront(l), data' = data, unused' \subseteq unused \cup {head[l]}
    PROVE  Removed(path[l], l, 1)
<1>1. IsPath(path[l], l) /\ size[l] \in Nat
    BY DEF Sound, HeapTypes
<1>2. \A k \in 1..size[l] : path[l][k] \in Nodes
    BY <1>1 DEF IsPath
<1>3. head[l] = path[l][1]
    BY <1>1 DEF IsPath
<1>4. CASE size[l] = 1
    BY <1>1, <1>3, <1>4 DEF DropFront, Removed, HeapTypes, Pointers
<1>5. CASE size[l] # 1
    <2>1. next[head[l]] = path[l][2] /\ path[l][2] \in Nodes
        BY <1>1, <1>2, <1>3, <1>5 DEF IsPath
    <2> QED BY <1>1, <1>3, <1>5, <2>1 DEF DropFront, Removed, HeapTypes, Pointers
<1> QED BY <1>4, <1>5

(***************************************************************************)
(* linked_list_remove takes the node it is called with, be it the head,    *)
(* the tail or one between them.                                           *)
(***************************************************************************)
LEMMA RemoveRemoves ==
    ASSUME HeapTypes, NEW path, Sound(path), NEW l \in Lists, NEW i \in 1..size[l],
           LinkedListRemove(l, path[l][i])
    PROVE  Removed(path[l], l, i)
<1> DEFINE p == path[l]
           node == p[i]
<1>1. IsPath(p, l) /\ size[l] \in Nat
    BY DEF Sound, HeapTypes
<1>2. \A k \in 1..size[l] : p[k] \in Nodes
    BY <1>1 DEF IsPath
<1>3. /\ head[l] = p[1] /\ tail[l] = p[size[l]]
      /\ head[l] = node <=> i = 1
      /\ tail[l] = node <=> i = size[l]
    BY <1>1 DEF IsPath
<1>4. data' = data /\ unused' = unused \cup {node}
    BY DEF LinkedListRemove
<1>5. CASE head[l] = node
    <2>1. DropFront(l)
        BY <1>5 DEF LinkedListRemove
    <2> QED BY <1>3, <1>4, <1>5, <2>1, <1>1, DropFrontRemoves
<1>6. CASE head[l] # node /\ tail[l] = node
    <2>1. i > 1 /\ prev[node] = p[i - 1] /\ p[i - 1] \in Nodes
        BY <1>1, <1>2, <1>3, <1>6 DEF IsPath
    <2>2. /\ tail' = [tail EXCEPT ![l] = prev[node]]
          /\ next' = [next EXCEPT ![prev[node]] = NULL]
          /\ size' = [size EXCEPT ![l] = @ - 1]
          /\ head' = head /\ prev' = prev
        BY <1>6 DEF LinkedListRemove
    <2>3. i = size[l] /\ size[l] # 1
        BY <1>1, <1>3, <1>6, <2>1
    <2>4. next' \in [Nodes -> Pointers] /\ prev' \in [Nodes -> Pointers]
        BY <2>2 DEF HeapTypes, Pointers
    <2>5. ASSUME NEW n \in Nodes
          PROVE  next'[n] = IF n = p[i - 1] THEN NULL ELSE next[n]
        BY <2>1, <2>2 DEF HeapTypes
    <2> HIDE DEF p
    <2>6. /\ size' = [size EXCEPT ![l] = @ - 1] /\ head' = head /\ prev' = prev
          /\ tail' = [tail EXCEPT ![l] = p[size[l] - 1]]
        BY <2>1, <2>2, <2>3
    <2>7. Removed(p, l, i)
        BY <1>1, <1>4, <2>1, <2>3, <2>4, <2>5, <2>6 DEF Removed
    <2> QED BY <2>7 DEF p
<1>7. CASE head[l] # node /\ tail[l] # node
    <2>1. i > 1 /\ prev[node] = p[i - 1] /\ p[i - 1] \in Nodes
        BY <1>1, <1>2, <1>3, <1>7 DEF IsPath
    <2>2. i < size[l] /\ next[node] = p[i + 1] /\ p[i + 1] \in Nodes
        BY <1>1, <1>2, <1>3, <1>7 DEF IsPath
    <2>3. /\ next' = [next EXCEPT ![prev[node]] = next[node]]
          /\ prev' = [prev EXCEPT ![next[node]] = prev[node]]
          /\ size' = [size EXCEPT ![l] = @ - 1]
          /\ head' = head /\ tail' = tail
        BY <1>7 DEF LinkedListRemove
    <2> QED BY <1>1, <1>4, <2>1, <2>2, <2>3 DEF Removed, HeapTypes, Pointers
<1> QED BY <1>5, <1>6, <1>7

(***************************************************************************)
(* An insertion leaves every pointer in the heap.                          *)
(***************************************************************************)
LEMMA InsertTypes ==
    ASSUME HeapTypes, NEW path, Sound(path), NEW l \in Lists, NEW i \in 0..size[l],
           NEW node \in unused, NEW d \in Data, Inserted(path[l], l, i, node, d)
    PROVE  HeapTypes'
BY DEF HeapTypes, Inserted, Pointers

(***************************************************************************)
(* A removal leaves every pointer in the heap.                             *)
(***************************************************************************)
LEMMA RemoveTypes ==
    ASSUME HeapTypes, NEW path, Sound(path), NEW l \in Lists, NEW i \in 1..size[l],
           Removed(path[l], l, i)
    PROVE  HeapTypes'
<1>1. IsPath(path[l], l) /\ size[l] \in Nat
    BY DEF Sound, HeapTypes
<1>2. \A k \in 1..size[l] : path[l][k] \in Nodes
    BY <1>1 DEF IsPath
<1>3. head' \in [Lists -> Pointers] /\ tail' \in [Lists -> Pointers]
    <2>1. size[l] # 1 => path[l][2] \in Nodes /\ path[l][size[l] - 1] \in Nodes
        BY <1>1, <1>2
    <2> QED BY <2>1 DEF HeapTypes, Removed, Pointers
<1>4. size' \in [Lists -> Nat]
    BY <1>1 DEF HeapTypes, Removed
<1>5. unused' \subseteq Nodes
    BY <1>1, <1>2 DEF HeapTypes, Removed
<1> QED BY <1>3, <1>4, <1>5 DEF HeapTypes, Removed

(***************************************************************************)
(* A path for list l that is as good as the old ones.                      *)
(***************************************************************************)
Repaired(path, l) ==
    /\ HeapTypes'
    /\ \E q : Sound(q)' /\ \A m \in Lists \ {l} : q[m] = path[m]

(***************************************************************************)
(* An insertion leaves the lists with paths.                               *)
(***************************************************************************)
LEMMA InsertRepairs ==
    ASSUME HeapTypes, NEW path, Sound(path), NEW l \in Lists, NEW i \in 0..size[l],
           NEW node \in unused, NEW d \in Data, Inserted(path[l], l, i, node, d)
    PROVE  Repaired(path, l)
<1>1. PICK p : p = InsertedAt(path[l], size[l], i, node)
    OBVIOUS
<1>2. Sound(With(path, l, p))'
    BY <1>1, InsertKeeps
<1>3. PICK q : q = With(path, l, p)
    OBVIOUS
<1>4. Sound(q)' /\ \A m \in Lists \ {l} : q[m] = path[m]
    BY <1>2, <1>3 DEF With
<1> QED BY <1>4, InsertTypes DEF Repaired

(***************************************************************************)
(* A removal leaves the lists with paths.                                  *)
(***************************************************************************)
LEMMA RemoveRepairs ==
    ASSUME HeapTypes, NEW path, Sound(path), NEW l \in Lists, NEW i \in 1..size[l],
           Removed(path[l], l, i)
    PROVE  Repaired(path, l)
<1>1. PICK p : p = RemovedAt(path[l], size[l], i)
    OBVIOUS
<1>2. Sound(With(path, l, p))'
    BY <1>1, RemoveKeeps
<1>3. PICK q : q = With(path, l, p)
    OBVIOUS
<1>4. Sound(q)' /\ \A m \in Lists \ {l} : q[m] = path[m]
    BY <1>2, <1>3 DEF With
<1> QED BY <1>4, RemoveTypes DEF Repaired

(***************************************************************************)
(* A step that touches no list keeps the paths.                            *)
(***************************************************************************)
LEMMA UnchangedKeeps ==
    ASSUME HeapTypes, NEW path, Sound(path), UNCHANGED <<head, tail, size, heap>>
    PROVE  HeapTypes' /\ Sound(path)'
<1>1. HeapTypes'
    BY DEF HeapTypes, Pointers, heap
<1>2. Sound(path)'
    BY DEF Sound, IsPath, Owned, heap
<1> QED BY <1>1, <1>2

(***************************************************************************)
(* An append leaves the lists with paths, whether there is memory or not.  *)
(***************************************************************************)
LEMMA AppendRepairs ==
    ASSUME HeapTypes, NEW path, Sound(path), NEW l \in Lists, NEW d \in Data,
           AppendTo(l, d)
    PROVE  Repaired(path, l)
<1>1. ASSUME NEW n \in unused, AppendNode(l, n, d) PROVE Repaired(path, l)
    <2>1. Inserted(path[l], l, size[l], n, d)
        BY <1>1, AppendInserts
    <2>2. size[l] \in 0..size[l]
        BY DEF HeapTypes
    <2> QED BY <2>1, <2>2, InsertRepairs
<1>2. CASE OutOfMemory
    BY <1>2, UnchangedKeeps DEF OutOfMemory, Repaired
<1> QED BY <1>1, <1>2 DEF AppendTo

(***************************************************************************)
(* A deleted list is empty and its nodes are on no path.                   *)
(***************************************************************************)
LEMMA DeleteRepairs ==
    ASSUME HeapTypes, NEW path, Sound(path), NEW l \in Lists, LinkedListDelete(l)
    PROVE  Repaired(path, l)
<1>1. NodesOf(l) = {path[l][k] : k \in 1..size[l]}
    BY AtIsPath
<1>2. /\ unused' = unused \cup NodesOf(l)
      /\ head' = [head EXCEPT ![l] = NULL]
      /\ tail' = [tail EXCEPT ![l] = NULL]
      /\ size' = [size EXCEPT ![l] = 0]
      /\ next' = next /\ prev' = prev /\ data' = data
    BY DEF LinkedListDelete
<1>3. HeapTypes'
    <2>1. NodesOf(l) \subseteq Nodes
        <3>1. \A k \in 1..size[l] : path[l][k] \in Nodes
            BY DEF Sound, IsPath
        <3> QED BY <1>1, <3>1
    <2> QED BY <1>2, <2>1 DEF HeapTypes, Pointers
<1>4. PICK p : p = [k \in 1..0 |-> NULL]
    OBVIOUS
<1>5. size'[l] = 0 /\ head'[l] = NULL /\ tail'[l] = NULL
    BY <1>2 DEF HeapTypes
<1>6. IsPath(p, l)'
    BY <1>4, <1>5 DEF IsPath
<1>7. OthersKept(path, l)
    <2> SUFFICES ASSUME NEW m \in Lists \ {l}
                 PROVE  /\ size'[m] = size[m] /\ head'[m] = head[m] /\ tail'[m] = tail[m]
                        /\ \A j \in 1..size[m] : path[m][j] \notin unused'
        BY <1>2 DEF OthersKept
    <2>1. \A j \in 1..size[m] : path[m][j] \notin unused
        BY DEF Sound, Owned
    <2>2. \A j \in 1..size[m], k \in 1..size[l] : path[m][j] # path[l][k]
        BY DEF Sound, Owned
    <2> QED BY <1>1, <1>2, <2>1, <2>2 DEF HeapTypes
<1>8. \A k \in 1..size'[l] : FALSE
    BY <1>5
<1>9. Sound(With(path, l, p))'
    BY <1>6, <1>7, <1>8, OneListChanges
<1>10. PICK q : q = With(path, l, p)
    OBVIOUS
<1>11. Sound(q)' /\ \A m \in Lists \ {l} : q[m] = path[m]
    BY <1>9, <1>10 DEF With
<1> QED BY <1>3, <1>11 DEF Repaired

(***************************************************************************)
(* The invariant holds of the empty lists.                                 *)
(***************************************************************************)
LEMMA InitIInv == Init => IInv
<1> SUFFICES ASSUME Init PROVE IInv
    OBVIOUS
<1>1. Types
    BY DEF Init, Types, HeapTypes, Pointers, NotCopying
<1>2. PICK path : path = [l \in Lists |-> [k \in 1..0 |-> NULL]]
    OBVIOUS
<1>3. Sound(path)
    BY <1>2 DEF Init, Sound, IsPath, Owned
<1>4. CopySound(path)
    BY DEF Init, CopySound
<1>5. \E any : Sound(any) /\ CopySound(any)
    BY <1>3, <1>4, Zenon
<1> QED BY <1>1, <1>5, Zenon DEF IInv

(***************************************************************************)
(* Every operation of linked_list.c preserves the invariant.               *)
(***************************************************************************)
LEMMA NextIInv == IInv /\ [Next]_vars => IInv'
<1> SUFFICES ASSUME IInv, [Next]_vars PROVE IInv'
    OBVIOUS
<1> PICK path : Sound(path) /\ CopySound(path)
    BY Zenon DEF IInv
<1> Types
    BY Zenon DEF IInv
<1> HeapTypes
    BY Zenon DEF Types
<1>1. ASSUME NEW l \in Lists, Repaired(path, l), copy = NotCopying, copy' = copy,
             crashed' \in BOOLEAN
      PROVE  IInv'
    BY <1>1 DEF Repaired, IInv, Types, CopySound, NotCopying
<1>2. ASSUME NEW l \in Lists, NEW d \in Data, LinkedListAppend(l, d) PROVE IInv'
    <2>1. Repaired(path, l)
        BY <1>2, AppendRepairs DEF LinkedListAppend
    <2> QED BY <1>1, <1>2, <2>1 DEF LinkedListAppend, Running, Types
<1>3. ASSUME NEW l \in Lists, NEW d \in Data, LinkedListPutFront(l, d) PROVE IInv'
    <2>1. ASSUME AppendTo(l, d) PROVE Repaired(path, l)
        BY <2>1, AppendRepairs
    <2>2. ASSUME size[l] # 0, NEW n \in unused, PutFrontNode(l, n, d)
          PROVE  Repaired(path, l)
        <3>1. Inserted(path[l], l, 0, n, d)
            BY <2>2, PutFrontInserts
        <3>2. 0 \in 0..size[l]
            BY DEF HeapTypes
        <3> QED BY <3>1, <3>2, InsertRepairs
    <2>3. ASSUME OutOfMemory PROVE Repaired(path, l)
        BY <2>3, UnchangedKeeps DEF OutOfMemory, Repaired
    <2>4. Repaired(path, l)
        BY <1>3, <2>1, <2>2, <2>3 DEF LinkedListPutFront
    <2> QED BY <1>1, <1>3, <2>4 DEF LinkedListPutFront, Running, Types
<1>4. ASSUME NEW l \in Lists, LinkedListPopFront(l) PROVE IInv'
    <2>1. Removed(path[l], l, 1)
        BY <1>4, DropFrontRemoves DEF LinkedListPopFront
    <2>2. 1 \in 1..size[l]
        BY <1>4 DEF LinkedListPopFront, HeapTypes
    <2>3. Repaired(path, l)
        BY <2>1, <2>2, RemoveRepairs
    <2> QED BY <1>1, <1>4, <2>3 DEF LinkedListPopFront, Running, Types
<1>5. ASSUME NEW l \in Lists, LinkedListDelete(l) PROVE IInv'
    <2>1. Repaired(path, l)
        BY <1>5, DeleteRepairs
    <2> QED BY <1>1, <1>5, <2>1 DEF LinkedListDelete, Running, Types
<1>6. ASSUME NEW l \in Lists, NEW node \in Nodes, LinkedListRemove(l, node) PROVE IInv'
    <2>1. PICK i \in 1..size[l] : node = path[l][i]
        BY <1>6, AtIsPath DEF LinkedListRemove, Belongs
    <2>2. Removed(path[l], l, i)
        BY <1>6, <2>1, RemoveRemoves
    <2>3. Repaired(path, l)
        BY <2>2, RemoveRepairs
    <2> QED BY <1>1, <1>6, <2>3 DEF LinkedListRemove, Running, Types
<1>7. ASSUME NEW l \in Lists, NEW lln \in Nodes, NEW d \in Data,
             LinkedListPutNext(l, lln, d)
      PROVE  IInv'
    <2>1. PICK i \in 1..size[l] : lln = path[l][i]
        BY <1>7, AtIsPath DEF LinkedListPutNext, Belongs
    <2>2. ASSUME NEW n \in unused, next[lln] # NULL,
                 data' = [data EXCEPT ![n] = d],
                 prev' = [prev EXCEPT ![next[lln]] = n, ![n] = lln],
                 next' = [next EXCEPT ![lln] = n, ![n] = next[lln]],
                 size' = [size EXCEPT ![l] = @ + 1],
                 unused' = unused \ {n}, head' = head, tail' = tail
          PROVE  Repaired(path, l)
        <3>1. Inserted(path[l], l, i, n, d)
            BY <2>1, <2>2, PutNextInserts
        <3>2. i \in 0..size[l]
            BY DEF HeapTypes
        <3> QED BY <3>1, <3>2, InsertRepairs
    <2>3. ASSUME UNCHANGED <<head, tail, size, heap>> PROVE Repaired(path, l)
        BY <2>3, UnchangedKeeps DEF Repaired
    <2>4. Repaired(path, l)
        BY <1>7, <2>2, <2>3 DEF LinkedListPutNext, heap
    <2> QED BY <1>1, <1>7, <2>4 DEF LinkedListPutNext, Running, Types
<1>8. ASSUME NEW source \in Lists, NEW dest \in Lists, LinkedListCopyTo(source, dest)
      PROVE  IInv'
    <2>1. HeapTypes' /\ Sound(path)'
        BY <1>8, UnchangedKeeps DEF LinkedListCopyTo
    <2>2. IsPath(path[source], source) /\ size[source] \in Nat
        BY DEF Sound, HeapTypes
    <2>3. /\ head[source] # NULL /\ source # dest /\ crashed' = crashed
          /\ size' = size
          /\ copy' = [lln |-> head[source], source |-> source, dest |-> dest]
        BY <1>8 DEF LinkedListCopyTo
    <2>4. 1 \in 1..size[source] /\ path[source][1] = head[source] /\ head[source] \in Nodes
        BY <2>2, <2>3 DEF IsPath
    <2>5. copy' \in [lln : Nodes, source : Lists, dest : Lists]
        BY <2>3, <2>4
    <2>6. CopySound(path)'
        BY <2>3, <2>4 DEF CopySound
    <2> QED BY <2>1, <2>3, <2>5, <2>6 DEF IInv, Types
<1>9. CASE CopyNext
    <2>1. copy \in [lln : Nodes, source : Lists, dest : Lists] /\ copy # NotCopying
        BY <1>9 DEF CopyNext, Types
    <2>2. PICK i \in 1..size[copy.source] : path[copy.source][i] = copy.lln
        BY <2>1 DEF CopySound
    <2>3. copy.source # copy.dest
        BY <2>1 DEF CopySound
    <2>4. data[copy.lln] \in Data
        BY <2>1, <2>2 DEF Sound, Owned
    <2>5. Repaired(path, copy.dest)
        BY <1>9, <2>1, <2>4, AppendRepairs DEF CopyNext
    <2>6. PICK q : Sound(q)' /\ \A m \in Lists \ {copy.dest} : q[m] = path[m]
        BY <2>5 DEF Repaired
    <2>7. size'[copy.source] = size[copy.source]
        BY <1>9, <2>1, <2>3 DEF CopyNext, AppendTo, AppendNode, OutOfMemory, HeapTypes
    <2>8. IsPath(path[copy.source], copy.source) /\ size[copy.source] \in Nat
        BY <2>1 DEF Sound, HeapTypes
    <2>9. CASE next[copy.lln] = NULL
        BY <1>9, <2>5, <2>6, <2>9 DEF CopyNext, IInv, Types, Repaired, CopySound
    <2>10. CASE next[copy.lln] # NULL
        <3>1. copy' = [copy EXCEPT !.lln = next[copy.lln]]
            BY <1>9, <2>10 DEF CopyNext
        <3>2. i + 1 \in 1..size[copy.source] /\ next[copy.lln] = path[copy.source][i + 1]
            BY <2>2, <2>8, <2>10 DEF IsPath
        <3>3. path[copy.source][i + 1] \in Nodes
            BY <2>8, <3>2 DEF IsPath
        <3>4. /\ copy' \in [lln : Nodes, source : Lists, dest : Lists]
              /\ copy'.source = copy.source /\ copy'.dest = copy.dest
              /\ copy'.lln = path[copy.source][i + 1]
            BY <2>1, <3>1, <3>2, <3>3
        <3>5. q[copy.source] = path[copy.source]
            BY <2>1, <2>3, <2>6
        <3>6. CopySound(q)'
            BY <2>3, <2>7, <3>2, <3>4, <3>5 DEF CopySound
        <3> QED BY <1>9, <2>5, <2>6, <3>4, <3>6 DEF CopyNext, IInv, Types, Repaired
    <2> QED BY <2>9, <2>10
<1>10. CASE UNCHANGED vars
    <2>1. HeapTypes' /\ Sound(path)'
        BY <1>10, UnchangedKeeps DEF vars
    <2>2. size' = size /\ copy' = copy /\ crashed' = crashed
        BY <1>10 DEF vars
    <2> QED BY <2>1, <2>2 DEF IInv, Types, CopySound
<1> QED BY <1>2, <1>3, <1>4, <1>5, <1>6, <1>7, <1>8, <1>9, <1>10 DEF Next, Stopped

(***************************************************************************)
(* The invariant is an invariant.                                          *)
(***************************************************************************)
LEMMA Inductive == Spec => []IInv
BY InitIInv, NextIInv, PTL DEF Spec

(***************************************************************************)
(* What the invariant is for.                                              *)
(***************************************************************************)
LEMMA IInvImplies == IInv => TypeOK /\ WellLinked /\ NoSharing
<1> SUFFICES ASSUME IInv PROVE TypeOK /\ WellLinked /\ NoSharing
    OBVIOUS
<1> PICK path : Sound(path)
    BY Zenon DEF IInv
<1> Types
    BY Zenon DEF IInv
<1> HeapTypes
    BY Zenon DEF Types
<1>1. \A l \in Lists :
          /\ size[l] \in 0..Cardinality(Nodes)
          /\ \A k \in 1..size[l] : At(l)[k] = path[l][k]
          /\ NodesOf(l) = {path[l][k] : k \in 1..size[l]}
    BY AtIsPath
<1>2. TypeOK
    BY <1>1 DEF Types, HeapTypes, TypeOK
<1>3. ASSUME NEW l \in Lists
      PROVE  /\ \A k \in 1..size[l] : At(l)[k] # NULL
             /\ \A k \in 1..(size[l] - 1) : prev[At(l)[k + 1]] = At(l)[k]
             /\ IF size[l] = 0
                  THEN head[l] = NULL /\ tail[l] = NULL
                  ELSE /\ prev[head[l]] = NULL
                       /\ tail[l] = At(l)[size[l]]
                       /\ next[tail[l]] = NULL
    <2>1. IsPath(path[l], l) /\ size[l] \in Nat
        BY DEF Sound, HeapTypes
    <2>2. \A k \in 1..size[l] : At(l)[k] = path[l][k] /\ path[l][k] \in Nodes
        BY <1>1, <2>1 DEF IsPath
    <2>3. \A k \in 1..(size[l] - 1) : prev[At(l)[k + 1]] = At(l)[k]
        <3> TAKE k \in 1..(size[l] - 1)
        <3>1. k \in 1..size[l] /\ k + 1 \in 1..size[l] /\ k + 1 # 1 /\ k + 1 - 1 = k
            BY <2>1
        <3>2. prev[path[l][k + 1]] = path[l][k]
            BY <2>1, <3>1 DEF IsPath
        <3> QED BY <2>2, <3>1, <3>2
    <2>4. CASE size[l] = 0
        BY <2>1, <2>4 DEF IsPath
    <2>5. CASE size[l] # 0
        <3>1. 1 \in 1..size[l] /\ size[l] \in 1..size[l]
            BY <2>1, <2>5
        <3>2. /\ head[l] = path[l][1] /\ tail[l] = path[l][size[l]]
              /\ prev[path[l][1]] = NULL /\ next[path[l][size[l]]] = NULL
            BY <2>1, <2>5, <3>1 DEF IsPath
        <3> QED BY <2>2, <2>3, <2>5, <3>1, <3>2, HeapAssumption
    <2> QED BY <2>4, <2>5
<1>4. WellLinked
    BY <1>3 DEF WellLinked
<1>5. NoSharing
    <2>1. ASSUME NEW l \in Lists PROVE NodesOf(l) \cap unused = {}
        BY <1>1 DEF Sound, Owned
    <2>2. ASSUME NEW l \in Lists, NEW m \in Lists, l # m
          PROVE  NodesOf(l) \cap NodesOf(m) = {}
        BY <1>1, <2>2 DEF Sound, Owned
    <2> QED BY <2>1, <2>2 DEF NoSharing
<1> QED BY <1>2, <1>4, <1>5

(***************************************************************************)
(* Every variable stays in range, and no list has more nodes than there    *)
(* are.                                                                    *)
(***************************************************************************)
THEOREM TypesKept == Spec => []TypeOK
BY Inductive, IInvImplies, PTL

(***************************************************************************)
(* The two directions of every list agree, through every operation and in  *)
(* the middle of a copy: next leads from head to tail in size steps and    *)
(* prev leads back.                                                        *)
(***************************************************************************)
THEOREM LinksAgree == Spec => []WellLinked
BY Inductive, IInvImplies, PTL

(***************************************************************************)
(* No list reaches a node that was freed or that is in another list.       *)
(***************************************************************************)
THEOREM ListsApart == Spec => []NoSharing
BY Inductive, IInvImplies, PTL

-------------------------------------------------------------------------------
Mapped == [l \in Lists |-> Contents(l)]

(***************************************************************************)
(* The contents of a list are the data along its path.                     *)
(***************************************************************************)
LEMMA ContentsAre ==
    \A path : HeapTypes /\ Sound(path) =>
       /\ Mapped = [l \in Lists |-> [k \in 1..size[l] |-> data[path[l][k]]]]
       /\ \A l \in Lists : Mapped[l] \in Seq(Data) /\ Len(Mapped[l]) = size[l]
<1> SUFFICES ASSUME NEW path, HeapTypes, Sound(path)
             PROVE  /\ Mapped = [l \in Lists |-> [k \in 1..size[l] |-> data[path[l][k]]]]
                    /\ \A l \in Lists : Mapped[l] \in Seq(Data) /\ Len(Mapped[l]) = size[l]
    OBVIOUS
<1>1. ASSUME NEW l \in Lists
      PROVE  Contents(l) = [k \in 1..size[l] |-> data[path[l][k]]]
    <2>1. \A k \in 1..size[l] : At(l)[k] = path[l][k]
        BY AtIsPath
    <2> QED BY <2>1 DEF Contents
<1>2. Mapped = [l \in Lists |-> [k \in 1..size[l] |-> data[path[l][k]]]]
    BY <1>1 DEF Mapped
<1>3. ASSUME NEW l \in Lists PROVE Mapped[l] \in Seq(Data) /\ Len(Mapped[l]) = size[l]
    <2>1. size[l] \in Nat /\ \A k \in 1..size[l] : data[path[l][k]] \in Data
        BY DEF HeapTypes, Sound, Owned
    <2> QED BY <1>2, <2>1
<1> QED BY <1>2, <1>3

(***************************************************************************)
(* The same of the next state.                                             *)
(***************************************************************************)
LEMMA ContentsAreNext ==
    \A path : HeapTypes' /\ Sound(path)' =>
       /\ Mapped' = [l \in Lists |-> [k \in 1..size'[l] |-> data'[path[l][k]]]]
       /\ \A l \in Lists : Mapped'[l] \in Seq(Data) /\ Len(Mapped'[l]) = size'[l]
<1>1. (\A path : HeapTypes /\ Sound(path) =>
       /\ Mapped = [l \in Lists |-> [k \in 1..size[l] |-> data[path[l][k]]]]
       /\ \A l \in Lists : Mapped[l] \in Seq(Data) /\ Len(Mapped[l]) = size[l])'
    BY ContentsAre, PTL
<1> QED BY <1>1

(***************************************************************************)
(* InsertAfter of AbstractList, position by position.                      *)
(***************************************************************************)
LEMMA InsertAfterIs ==
    ASSUME NEW c \in Seq(Data), NEW i \in 0..Len(c), NEW d \in Data
    PROVE  Abstract!InsertAfter(c, i, d)
             = [k \in 1..(Len(c) + 1) |->
                  IF k <= i THEN c[k] ELSE IF k = i + 1 THEN d ELSE c[k - 1]]
<1> DEFINE front == SubSeq(c, 1, i)
           back == SubSeq(c, i + 1, Len(c))
<1>1. Len(c) \in Nat
    OBVIOUS
<1>2. /\ front \in Seq(Data) /\ Len(front) = i
      /\ \A k \in 1..i : front[k] = c[k]
    BY <1>1
<1>3. /\ back \in Seq(Data) /\ Len(back) = Len(c) - i
      /\ \A k \in 1..(Len(c) - i) : back[k] = c[k + i]
    BY <1>1
<1> HIDE DEF front, back
<1> DEFINE start == front \o <<d>>
           all == start \o back
<1>4. /\ start \in Seq(Data) /\ Len(start) = i + 1
      /\ \A k \in 1..(i + 1) : start[k] = IF k <= i THEN c[k] ELSE d
    BY <1>2
<1>5. Abstract!InsertAfter(c, i, d) = all
    BY DEF Abstract!InsertAfter, front, back
<1> HIDE DEF start
<1>6. /\ all \in Seq(Data) /\ Len(all) = Len(start) + Len(back)
      /\ \A k \in 1..(Len(start) + Len(back)) :
            all[k] = IF k <= Len(start) THEN start[k] ELSE back[k - Len(start)]
    BY <1>3, <1>4, ConcatProperties
<1> HIDE DEF all
<1>7. Len(all) = Len(c) + 1
    BY <1>1, <1>3, <1>4, <1>6
<1>8. ASSUME NEW k \in 1..(Len(c) + 1)
      PROVE  all[k] = IF k <= i THEN c[k] ELSE IF k = i + 1 THEN d ELSE c[k - 1]
    <2>1. all[k] = IF k <= i + 1 THEN start[k] ELSE back[k - (i + 1)]
        BY <1>1, <1>3, <1>4, <1>6
    <2>2. CASE k <= i + 1
        BY <1>4, <2>1, <2>2
    <2>3. CASE k > i + 1
        <3>1. k - (i + 1) \in 1..(Len(c) - i) /\ (k - (i + 1)) + i = k - 1
            BY <1>1, <2>3
        <3> QED BY <1>3, <2>1, <2>3, <3>1
    <2> QED BY <2>2, <2>3
<1>9. all = [k \in 1..Len(all) |-> all[k]]
    BY <1>6
<1> QED BY <1>5, <1>7, <1>8, <1>9

(***************************************************************************)
(* RemoveAt of AbstractList, position by position.                         *)
(***************************************************************************)
LEMMA RemoveAtIs ==
    ASSUME NEW c \in Seq(Data), NEW i \in 1..Len(c)
    PROVE  Abstract!RemoveAt(c, i)
             = [k \in 1..(Len(c) - 1) |-> IF k < i THEN c[k] ELSE c[k + 1]]
BY WithoutOne DEF Abstract!RemoveAt

-------------------------------------------------------------------------------
(***************************************************************************)
(* What a copy has still to do are the data from its cursor on.            *)
(***************************************************************************)
LEMMA RestIs ==
    \A path : Types /\ Sound(path) /\ CopySound(path) =>
       /\ copy = NotCopying => Rest = <<>>
       /\ copy # NotCopying =>
            \A i \in 1..size[copy.source] :
               path[copy.source][i] = copy.lln =>
                  Rest = SubSeq(Mapped[copy.source], i, size[copy.source])
<1> SUFFICES ASSUME NEW path, Types, Sound(path), copy # NotCopying,
                    NEW i \in 1..size[copy.source], path[copy.source][i] = copy.lln
             PROVE  Rest = SubSeq(Mapped[copy.source], i, size[copy.source])
    BY DEF Rest
<1> DEFINE s == copy.source
           found(j) == j \in 1..size[s] /\ At(s)[j] = copy.lln
           index == CHOOSE j \in 1..size[s] : At(s)[j] = copy.lln
<1>1. s \in Lists
    BY DEF Types
<1>2. \A k \in 1..size[s] : At(s)[k] = path[s][k]
    BY <1>1, AtIsPath DEF Types
<1>3. \A j, k \in 1..size[s] : path[s][j] = path[s][k] => j = k
    BY <1>1 DEF Sound, IsPath
<1>4. index = i
    <2>1. At(s)[i] = copy.lln
        BY <1>2
    <2>2. index \in 1..size[s] /\ At(s)[index] = copy.lln
        BY <2>1
    <2> QED BY <1>2, <1>3, <2>1, <2>2
<1>5. Mapped[s] = Contents(s)
    BY <1>1 DEF Mapped
<1>6. Rest = SubSeq(Contents(s), index, size[s])
    BY DEF Rest
<1> QED BY <1>4, <1>5, <1>6

(***************************************************************************)
(* The same of the next state.                                             *)
(***************************************************************************)
LEMMA RestIsNext ==
    \A path : Types' /\ Sound(path)' /\ CopySound(path)' =>
       /\ copy' = NotCopying => Rest' = <<>>
       /\ copy' # NotCopying =>
            \A i \in 1..size'[copy'.source] :
               path[copy'.source][i] = copy'.lln =>
                  Rest' = SubSeq(Mapped'[copy'.source], i, size'[copy'.source])
<1>1. (\A path : Types /\ Sound(path) /\ CopySound(path) =>
       /\ copy = NotCopying => Rest = <<>>
       /\ copy # NotCopying =>
            \A i \in 1..size[copy.source] :
               path[copy.source][i] = copy.lln =>
                  Rest = SubSeq(Mapped[copy.source], i, size[copy.source]))'
    BY RestIs, PTL
<1> QED BY <1>1 DEF NotCopying

(***************************************************************************)
(* An insertion inserts into the sequence of its list.                     *)
(***************************************************************************)
LEMMA InsertMapped ==
    ASSUME HeapTypes, NEW path, Sound(path), NEW l \in Lists, NEW i \in 0..size[l],
           NEW node \in unused, NEW d \in Data, Inserted(path[l], l, i, node, d)
    PROVE  Mapped' = [Mapped EXCEPT ![l] = Abstract!InsertAfter(@, i, d)]
<1> DEFINE c == Mapped[l]
<1>1. PICK p : p = InsertedAt(path[l], size[l], i, node)
    OBVIOUS
<1>2. PICK q : q = With(path, l, p)
    OBVIOUS
<1>3. Sound(q)' /\ HeapTypes'
    BY <1>1, <1>2, InsertKeeps, InsertTypes
<1>4. /\ Mapped = [m \in Lists |-> [k \in 1..size[m] |-> data[path[m][k]]]]
      /\ c \in Seq(Data) /\ Len(c) = size[l]
    BY ContentsAre
<1>5. Mapped' = [m \in Lists |-> [k \in 1..size'[m] |-> data'[q[m][k]]]]
    BY <1>3, ContentsAreNext
<1>6. Abstract!InsertAfter(c, i, d)
        = [k \in 1..(size[l] + 1) |->
             IF k <= i THEN c[k] ELSE IF k = i + 1 THEN d ELSE c[k - 1]]
    <2>1. c \in Seq(Data) /\ i \in 0..Len(c) /\ Len(c) = size[l]
        BY <1>4
    <2> HIDE DEF c
    <2>2. Abstract!InsertAfter(c, i, d)
            = [k \in 1..(Len(c) + 1) |->
                 IF k <= i THEN c[k] ELSE IF k = i + 1 THEN d ELSE c[k - 1]]
        BY <2>1, InsertAfterIs, Zenon
    <2> QED BY <2>1, <2>2
<1>7. \A m \in Lists : \A k \in 1..size[m] : path[m][k] \in Nodes /\ path[m][k] # node
    <2>1. \A m \in Lists : \A k \in 1..size[m] : path[m][k] \in Nodes
        BY DEF Sound, IsPath
    <2>2. \A m \in Lists : \A k \in 1..size[m] : path[m][k] \notin unused
        BY DEF Sound, Owned
    <2> QED BY <2>1, <2>2
<1>8. /\ size[l] \in Nat /\ size'[l] = size[l] + 1
      /\ node \in Nodes
      /\ data'[node] = d /\ \A n \in Nodes \ {node} : data'[n] = data[n]
      /\ \A m \in Lists \ {l} : size'[m] = size[m]
    BY DEF HeapTypes, Inserted
<1>9. ASSUME NEW m \in Lists \ {l} PROVE Mapped'[m] = Mapped[m]
    <2>1. q[m] = path[m]
        BY <1>2 DEF With
    <2> QED BY <1>4, <1>5, <1>7, <1>8, <2>1
<1>10. \A k \in 1..size[l] : c[k] = data'[path[l][k]]
    BY <1>4, <1>7, <1>8
<1>11. ASSUME NEW k \in 1..(size[l] + 1)
       PROVE  data'[p[k]] = IF k <= i THEN c[k] ELSE IF k = i + 1 THEN d ELSE c[k - 1]
    <2>1. p[k] = IF k <= i THEN path[l][k] ELSE IF k = i + 1 THEN node ELSE path[l][k - 1]
        BY <1>1 DEF InsertedAt
    <2>2. k <= i => k \in 1..size[l]
        BY <1>8
    <2>3. k > i + 1 => k - 1 \in 1..size[l]
        BY <1>8
    <2> HIDE DEF c
    <2> QED BY <1>8, <1>10, <2>1, <2>2, <2>3
<1>12. Mapped'[l] = Abstract!InsertAfter(c, i, d)
    <2>1. Mapped'[l] = [k \in 1..(size[l] + 1) |-> data'[p[k]]]
        BY <1>2, <1>5, <1>8 DEF With
    <2> HIDE DEF c
    <2> QED BY <1>6, <1>11, <2>1
<1>13. Mapped' = [m \in Lists |-> Mapped'[m]] /\ Mapped = [m \in Lists |-> Mapped[m]]
    BY DEF Mapped
<1> QED BY <1>9, <1>12, <1>13

(***************************************************************************)
(* A removal removes from the sequence of its list.                        *)
(***************************************************************************)
LEMMA RemoveMapped ==
    ASSUME HeapTypes, NEW path, Sound(path), NEW l \in Lists, NEW i \in 1..size[l],
           Removed(path[l], l, i)
    PROVE  Mapped' = [Mapped EXCEPT ![l] = Abstract!RemoveAt(@, i)]
<1> DEFINE c == Mapped[l]
<1>1. PICK p : p = RemovedAt(path[l], size[l], i)
    OBVIOUS
<1>2. PICK q : q = With(path, l, p)
    OBVIOUS
<1>3. Sound(q)' /\ HeapTypes'
    BY <1>1, <1>2, RemoveKeeps, RemoveTypes
<1>4. /\ Mapped = [m \in Lists |-> [k \in 1..size[m] |-> data[path[m][k]]]]
      /\ c \in Seq(Data) /\ Len(c) = size[l]
    BY ContentsAre
<1>5. Mapped' = [m \in Lists |-> [k \in 1..size'[m] |-> data[q[m][k]]]]
    BY <1>3, ContentsAreNext DEF Removed
<1>6. Abstract!RemoveAt(c, i)
        = [k \in 1..(size[l] - 1) |-> IF k < i THEN c[k] ELSE c[k + 1]]
    <2>1. c \in Seq(Data) /\ i \in 1..Len(c) /\ Len(c) = size[l]
        BY <1>4
    <2> HIDE DEF c
    <2>2. Abstract!RemoveAt(c, i)
            = [k \in 1..(Len(c) - 1) |-> IF k < i THEN c[k] ELSE c[k + 1]]
        BY <2>1, RemoveAtIs, Zenon
    <2> QED BY <2>1, <2>2
<1>7. /\ size[l] \in Nat /\ size'[l] = size[l] - 1
      /\ \A m \in Lists \ {l} : size'[m] = size[m]
    BY DEF HeapTypes, Removed
<1>8. ASSUME NEW m \in Lists \ {l} PROVE Mapped'[m] = Mapped[m]
    <2>1. q[m] = path[m]
        BY <1>2 DEF With
    <2> QED BY <1>4, <1>5, <1>7, <2>1
<1>9. ASSUME NEW k \in 1..(size[l] - 1)
      PROVE  data[p[k]] = IF k < i THEN c[k] ELSE c[k + 1]
    <2>1. p[k] = IF k < i THEN path[l][k] ELSE path[l][k + 1]
        BY <1>1 DEF RemovedAt
    <2>2. \A j \in 1..size[l] : c[j] = data[path[l][j]]
        BY <1>4
    <2>3. k \in 1..size[l] /\ k + 1 \in 1..size[l]
        BY <1>7
    <2> HIDE DEF c
    <2> QED BY <2>1, <2>2, <2>3
<1>10. Mapped'[l] = Abstract!RemoveAt(c, i)
    <2>1. Mapped'[l] = [k \in 1..(size[l] - 1) |-> data[p[k]]]
        BY <1>2, <1>5, <1>7 DEF With
    <2> HIDE DEF c
    <2> QED BY <1>6, <1>9, <2>1
<1>11. Mapped' = [m \in Lists |-> Mapped'[m]] /\ Mapped = [m \in Lists |-> Mapped[m]]
    BY DEF Mapped
<1> QED BY <1>8, <1>10, <1>11

(***************************************************************************)
(* Each kind of step, as a step of the lists of linked_list.h.             *)
(***************************************************************************)
LEMMA NoCopyNoRest ==
    ASSUME copy = NotCopying, copy' = copy
    PROVE  Rest = <<>> /\ Rest' = <<>>
BY DEF Rest, NotCopying

(***************************************************************************)
(* The list that grows, or shrinks, is the one the operation is called on. *)
(***************************************************************************)
LEMMA InsertStep ==
    ASSUME HeapTypes, NEW path, Sound(path), NEW l \in Lists, NEW i \in 0..size[l],
           NEW node \in unused, NEW d \in Data, Inserted(path[l], l, i, node, d),
           copy = NotCopying, copy' = copy
    PROVE  Abstract!Grow(l, Abstract!InsertAfter(Mapped[l], i, d))
<1>1. Mapped' = [Mapped EXCEPT ![l] = Abstract!InsertAfter(Mapped[l], i, d)]
    BY InsertMapped
<1>2. Rest = <<>> /\ Rest' = <<>>
    BY NoCopyNoRest
<1>3. Abstract!Change(l, Abstract!InsertAfter(Mapped[l], i, d))
    BY <1>1, <1>2 DEF Abstract!Change, Mapped, NotCopying
<1> QED BY <1>3 DEF Abstract!Grow

(***************************************************************************)
(* The same of a removal.                                                  *)
(***************************************************************************)
LEMMA RemoveStep ==
    ASSUME HeapTypes, NEW path, Sound(path), NEW l \in Lists, NEW i \in 1..size[l],
           Removed(path[l], l, i), copy = NotCopying, copy' = copy
    PROVE  Abstract!Change(l, Abstract!RemoveAt(Mapped[l], i))
<1>1. Mapped' = [Mapped EXCEPT ![l] = Abstract!RemoveAt(Mapped[l], i)]
    BY RemoveMapped
<1>2. Rest = <<>> /\ Rest' = <<>>
    BY NoCopyNoRest
<1> QED BY <1>1, <1>2 DEF Abstract!Change, Mapped, NotCopying

(***************************************************************************)
(* A step that touches no list changes no sequence.                        *)
(***************************************************************************)
LEMMA NoStep ==
    ASSUME UNCHANGED <<head, tail, size, heap>>, copy' = copy
    PROVE  UNCHANGED Abstract!vars
<1>1. \A l \in Lists : Contents(l)' = Contents(l)
    BY DEF Contents, At, heap
<1>2. Rest' = Rest
    BY DEF Rest, Contents, At, heap, NotCopying
<1>3. unused' = unused
    BY DEF heap
<1> QED BY <1>1, <1>2, <1>3 DEF Abstract!vars, NotCopying

(***************************************************************************)
(* linked_list_delete clears the sequence of its list.                     *)
(***************************************************************************)
LEMMA DeleteStep ==
    ASSUME HeapTypes, NEW path, Sound(path), NEW l \in Lists, LinkedListDelete(l)
    PROVE  Abstract!Clear(l)
<1>1. PICK q : Sound(q)' /\ \A m \in Lists \ {l} : q[m] = path[m]
    BY DeleteRepairs DEF Repaired
<1>2. HeapTypes'
    BY DeleteRepairs DEF Repaired
<1>3. /\ data' = data /\ size' = [size EXCEPT ![l] = 0]
      /\ copy = NotCopying /\ copy' = copy
    BY DEF LinkedListDelete, Running
<1>4. size'[l] = 0 /\ \A m \in Lists \ {l} : size'[m] = size[m]
    BY <1>3 DEF HeapTypes
<1>5. Mapped = [m \in Lists |-> [k \in 1..size[m] |-> data[path[m][k]]]]
    BY ContentsAre
<1>6. Mapped' = [m \in Lists |-> [k \in 1..size'[m] |-> data[q[m][k]]]]
    BY <1>1, <1>2, <1>3, ContentsAreNext
<1>7. \A m \in Lists \ {l} : Mapped'[m] = Mapped[m]
    BY <1>1, <1>4, <1>5, <1>6
<1>8. Mapped'[l] = <<>>
    BY <1>4, <1>6
<1>9. Mapped' = [m \in Lists |-> Mapped'[m]] /\ Mapped = [m \in Lists |-> Mapped[m]]
    BY DEF Mapped
<1>10. Mapped' = [Mapped EXCEPT ![l] = <<>>]
    BY <1>7, <1>8, <1>9
<1>11. Rest = <<>> /\ Rest' = <<>>
    BY <1>3, NoCopyNoRest
<1>12. Abstract!Change(l, <<>>)
    BY <1>3, <1>10, <1>11 DEF Abstract!Change, Mapped, NotCopying
<1>13. Mapped[l] # <<>> <=> NodesOf(l) # {}
    <2>1. Mapped[l] \in Seq(Data) /\ Len(Mapped[l]) = size[l] /\ size[l] \in Nat
        BY ContentsAre DEF HeapTypes
    <2>2. Mapped[l] = <<>> <=> size[l] = 0
        BY <2>1, EmptySeq
    <2>3. size[l] # 0 => At(l)[1] \in NodesOf(l)
        BY <2>1 DEF NodesOf
    <2>4. size[l] = 0 => NodesOf(l) = {}
        BY DEF NodesOf
    <2> QED BY <2>2, <2>3, <2>4
<1>14. (unused # {})' = (unused # {} \/ Mapped[l] # <<>>)
    <2>1. unused' = unused \cup NodesOf(l)
        BY DEF LinkedListDelete
    <2> QED BY <1>13, <2>1
<1> QED BY <1>12, <1>14 DEF Abstract!Clear, Mapped

(***************************************************************************)
(* To append is to insert after the last element.                          *)
(***************************************************************************)
LEMMA AppendIsInsert ==
    ASSUME NEW c \in Seq(Data), NEW d \in Data
    PROVE  Abstract!InsertAfter(c, Len(c), d) = Append(c, d)
<1>1. Len(c) \in Nat /\ Len(c) \in 0..Len(c)
    OBVIOUS
<1>2. Abstract!InsertAfter(c, Len(c), d)
        = [k \in 1..(Len(c) + 1) |->
             IF k <= Len(c) THEN c[k] ELSE IF k = Len(c) + 1 THEN d ELSE c[k - 1]]
    BY <1>1, InsertAfterIs
<1> DEFINE r == Append(c, d)
<1>3. /\ r \in Seq(Data) /\ Len(r) = Len(c) + 1
      /\ \A k \in 1..Len(c) : r[k] = c[k]
      /\ r[Len(c) + 1] = d
    BY AppendProperties
<1> HIDE DEF r
<1>4. r = [k \in 1..(Len(c) + 1) |-> r[k]]
    BY <1>3
<1>5. ASSUME NEW k \in 1..(Len(c) + 1)
      PROVE  r[k] = IF k <= Len(c) THEN c[k] ELSE IF k = Len(c) + 1 THEN d ELSE c[k - 1]
    BY <1>1, <1>3
<1> QED BY <1>2, <1>4, <1>5 DEF r

(***************************************************************************)
(* The head and the tail of the end of a sequence.                         *)
(***************************************************************************)
LEMMA TailOfRest ==
    ASSUME NEW c \in Seq(Data), NEW i \in 1..Len(c)
    PROVE  /\ SubSeq(c, i, Len(c)) # <<>>
           /\ Head(SubSeq(c, i, Len(c))) = c[i]
           /\ Tail(SubSeq(c, i, Len(c))) = SubSeq(c, i + 1, Len(c))
<1> DEFINE r == SubSeq(c, i, Len(c))
           t == SubSeq(c, i + 1, Len(c))
<1>1. Len(c) \in Nat
    OBVIOUS
<1>2. /\ r \in Seq(Data) /\ Len(r) = Len(c) - i + 1
      /\ \A k \in 1..(Len(c) - i + 1) : r[k] = c[k + i - 1]
    BY <1>1
<1>3. /\ t \in Seq(Data) /\ Len(t) = Len(c) - i
      /\ \A k \in 1..(Len(c) - i) : t[k] = c[k + i]
    BY <1>1
<1> HIDE DEF r, t
<1>4. r # <<>>
    BY <1>1, <1>2
<1>5. Head(r) = c[i]
    BY <1>1, <1>2
<1> DEFINE u == Tail(r)
<1>6. /\ u \in Seq(Data) /\ Len(u) = Len(r) - 1
      /\ \A k \in 1..Len(u) : u[k] = r[k + 1]
    BY <1>2, <1>4, HeadTailProperties
<1> HIDE DEF u
<1>7. Len(u) = Len(t)
    BY <1>1, <1>2, <1>3, <1>6
<1>8. ASSUME NEW k \in 1..Len(u) PROVE u[k] = t[k]
    <2>1. k \in 1..(Len(c) - i) /\ k + 1 \in 1..(Len(c) - i + 1) /\ (k + 1) + i - 1 = k + i
        BY <1>1, <1>3, <1>7
    <2> QED BY <1>2, <1>3, <1>6, <2>1
<1>9. u = t
    BY <1>3, <1>6, <1>7, <1>8, SeqEqual
<1> QED BY <1>4, <1>5, <1>9 DEF r, t, u

(***************************************************************************)
(* A round of the loop of linked_list_copy_to moves one datum.             *)
(***************************************************************************)
LEMMA CopyStep ==
    ASSUME Types, NEW path, Sound(path), CopySound(path), CopyNext
    PROVE  Abstract!CopyNext
<1> DEFINE s == copy.source
           dest == copy.dest
           c == Mapped[s]
           d == data[copy.lln]
<1> HeapTypes
    BY DEF Types
<1>1. copy \in [lln : Nodes, source : Lists, dest : Lists] /\ copy # NotCopying
    BY DEF CopyNext, Types
<1>2. s # dest /\ s \in Lists /\ dest \in Lists
    BY <1>1 DEF CopySound
<1>3. PICK i \in 1..size[s] : path[s][i] = copy.lln
    BY <1>1 DEF CopySound
<1>4. IsPath(path[s], s) /\ size[s] \in Nat /\ d \in Data
    BY <1>2, <1>3 DEF Sound, HeapTypes, Owned
<1>5. /\ Mapped = [l \in Lists |-> [k \in 1..size[l] |-> data[path[l][k]]]]
      /\ \A l \in Lists : Mapped[l] \in Seq(Data) /\ Len(Mapped[l]) = size[l]
    BY ContentsAre
<1>6. c \in Seq(Data) /\ Len(c) = size[s] /\ c[i] = d
    BY <1>2, <1>3, <1>5
<1>7. Rest = SubSeq(c, i, size[s])
    BY <1>1, <1>3, RestIs
<1>8. Rest # <<>> /\ Head(Rest) = d /\ Tail(Rest) = SubSeq(c, i + 1, size[s])
    <2> HIDE DEF c, d
    <2> QED BY <1>3, <1>6, <1>7, TailOfRest
<1>9. Repaired(path, dest)
    BY <1>2, <1>4, AppendRepairs DEF CopyNext
<1>10. PICK q : Sound(q)' /\ \A m \in Lists \ {dest} : q[m] = path[m]
    BY <1>9 DEF Repaired
<1>11. \/ unused # {} /\ Mapped' = [Mapped EXCEPT ![dest] = Append(@, d)]
       \/ unused = {} /\ unused' = {} /\ Mapped' = Mapped
    <2>1. ASSUME NEW n \in unused, AppendNode(dest, n, d)
          PROVE  Mapped' = [Mapped EXCEPT ![dest] = Append(@, d)]
        <3>1. Inserted(path[dest], dest, size[dest], n, d)
            BY <1>2, <1>4, <2>1, AppendInserts
        <3>2. size[dest] \in 0..size[dest]
            BY <1>2 DEF HeapTypes
        <3>3. Mapped' = [Mapped EXCEPT
                           ![dest] = Abstract!InsertAfter(Mapped[dest], size[dest], d)]
            BY <1>2, <1>4, <3>1, <3>2, InsertMapped
        <3>4. Abstract!InsertAfter(Mapped[dest], size[dest], d) = Append(Mapped[dest], d)
            BY <1>2, <1>4, <1>5, AppendIsInsert
        <3> QED BY <3>3, <3>4
    <2>2. ASSUME OutOfMemory PROVE unused = {} /\ unused' = {} /\ Mapped' = Mapped
        BY <2>2 DEF OutOfMemory, Mapped, Contents, At, heap
    <2> QED BY <2>1, <2>2 DEF CopyNext, AppendTo
<1>12. Mapped'[s] = c /\ size'[s] = size[s]
    <2>1. Mapped'[s] = c
        BY <1>2, <1>11 DEF Mapped
    <2>2. Len(Mapped'[s]) = size'[s]
        BY <1>2, <1>9, <1>10, ContentsAreNext DEF Repaired
    <2> QED BY <1>6, <2>1, <2>2
<1>13. Rest' = SubSeq(c, i + 1, size[s])
    <2>1. CASE next[copy.lln] = NULL
        <3>1. i = size[s]
            <4>1. i # size[s] => next[copy.lln] = path[s][i + 1] /\ i + 1 \in 1..size[s]
                BY <1>3, <1>4 DEF IsPath
            <4>2. \A k \in 1..size[s] : path[s][k] \in Nodes
                BY <1>4 DEF IsPath
            <4> QED BY <2>1, <4>1, <4>2, HeapAssumption
        <3>2. copy' = NotCopying
            BY <2>1 DEF CopyNext
        <3>3. Rest' = <<>>
            BY <3>2 DEF Rest, NotCopying
        <3>4. SubSeq(c, i + 1, size[s]) = <<>>
            BY <1>3, <1>4, <1>6, <3>1, SubSeqEmpty
        <3> QED BY <3>3, <3>4
    <2>2. CASE next[copy.lln] # NULL
        <3>1. copy' = [copy EXCEPT !.lln = next[copy.lln]]
            BY <2>2 DEF CopyNext
        <3>2. i + 1 \in 1..size[s] /\ next[copy.lln] = path[s][i + 1]
            BY <1>3, <1>4, <2>2 DEF IsPath
        <3>3. path[s][i + 1] \in Nodes
            BY <1>4, <3>2 DEF IsPath
        <3>4. /\ copy' \in [lln : Nodes, source : Lists, dest : Lists]
              /\ copy'.source = s /\ copy'.dest = dest
              /\ copy'.lln = path[s][i + 1]
            BY <1>1, <3>1, <3>2, <3>3
        <3>5. copy' # NotCopying
            BY <3>3, <3>4, HeapAssumption DEF NotCopying
        <3>6. q[s] = path[s]
            BY <1>2, <1>10
        <3>7. CopySound(q)'
            BY <1>2, <1>12, <3>2, <3>4, <3>6 DEF CopySound
        <3>8. Types'
            BY <1>9, <3>4 DEF Repaired, CopyNext, Types
        <3>9. q[copy'.source][i + 1] = copy'.lln /\ i + 1 \in 1..size'[copy'.source]
            BY <1>12, <3>2, <3>4, <3>6
        <3>10. Rest' = SubSeq(Mapped'[copy'.source], i + 1, size'[copy'.source])
            BY <1>10, <3>5, <3>7, <3>8, <3>9, RestIsNext
        <3> QED BY <1>12, <3>4, <3>10
    <2> QED BY <2>1, <2>2
<1>14. Rest # <<>> /\ Rest' = Tail(Rest)
    <2> HIDE DEF c, d
    <2> QED BY <1>8, <1>13
<1>15. Tail(Rest) = <<>> <=> i = size[s]
    <2> HIDE DEF c, d, s
    <2>1. i = size[s] => SubSeq(c, i + 1, size[s]) = <<>>
        BY <1>3, <1>4, <1>6, SubSeqEmpty
    <2>2. i # size[s] => SubSeq(c, i + 1, size[s]) # <<>>
        <3> SUFFICES ASSUME i # size[s] PROVE SubSeq(c, i + 1, size[s]) # <<>>
            OBVIOUS
        <3>1. i + 1 \in 1..Len(c)
            BY <1>3, <1>4, <1>6
        <3>2. SubSeq(c, i + 1, Len(c)) # <<>>
            BY <1>6, <3>1, TailOfRest
        <3> QED BY <1>6, <3>2
    <2> QED BY <1>8, <2>1, <2>2
<1>16. next[copy.lln] = NULL <=> i = size[s]
    <2>1. next[copy.lln] = IF i = size[s] THEN NULL ELSE path[s][i + 1]
        BY <1>3, <1>4 DEF IsPath
    <2>2. i # size[s] => i + 1 \in 1..size[s]
        BY <1>3, <1>4
    <2>3. \A k \in 1..size[s] : path[s][k] \in Nodes
        BY <1>4 DEF IsPath
    <2> QED BY <2>1, <2>2, <2>3, HeapAssumption
<1>17. (IF copy = NotCopying THEN NULL ELSE copy.dest)'
         = IF Tail(Rest) = <<>> THEN NULL ELSE dest
    <2>1. CASE next[copy.lln] = NULL
        BY <1>15, <1>16, <2>1 DEF CopyNext, NotCopying
    <2>2. CASE next[copy.lln] # NULL
        <3>1. copy' = [copy EXCEPT !.lln = next[copy.lln]]
            BY <2>2 DEF CopyNext
        <3>2. copy'.dest = dest /\ copy'.lln = next[copy.lln]
            BY <1>1, <3>1
        <3>3. copy' # NotCopying
            BY <2>2, <3>2 DEF NotCopying
        <3> QED BY <1>15, <1>16, <2>2, <3>2, <3>3 DEF NotCopying
    <2> QED BY <2>1, <2>2
<1>18. \/ /\ unused # {}
          /\ Mapped' = [Mapped EXCEPT ![dest] = Append(@, Head(Rest))]
       \/ unused = {} /\ unused' = {} /\ Mapped' = Mapped
    <2> HIDE DEF c, d
    <2> QED BY <1>8, <1>11
<1> QED BY <1>1, <1>14, <1>17, <1>18 DEF Abstract!CopyNext, Mapped

(***************************************************************************)
(* linked_list_copy_to starts with all of its source.                      *)
(***************************************************************************)
LEMMA CopyToStep ==
    ASSUME Types, NEW path, Sound(path), NEW source \in Lists, NEW dest \in Lists,
           LinkedListCopyTo(source, dest)
    PROVE  Abstract!StartCopy(source, dest)
<1> HeapTypes
    BY DEF Types
<1>1. HeapTypes' /\ Sound(path)'
    BY UnchangedKeeps DEF LinkedListCopyTo
<1>2. IsPath(path[source], source) /\ size[source] \in Nat
    BY DEF Sound, HeapTypes
<1>3. /\ head[source] # NULL /\ source # dest /\ crashed' = crashed
      /\ size' = size /\ copy = NotCopying
      /\ copy' = [lln |-> head[source], source |-> source, dest |-> dest]
    BY DEF LinkedListCopyTo, Running
<1>4. 1 \in 1..size[source] /\ path[source][1] = head[source] /\ head[source] \in Nodes
    BY <1>2, <1>3 DEF IsPath
<1>5. /\ copy' \in [lln : Nodes, source : Lists, dest : Lists]
      /\ copy'.source = source /\ copy'.lln = head[source] /\ copy'.dest = dest
    BY <1>3, <1>4
<1>6. copy' # NotCopying
    BY <1>4, <1>5, HeapAssumption DEF NotCopying
<1>7. CopySound(path)'
    BY <1>3, <1>4, <1>5 DEF CopySound
<1>8. Types'
    BY <1>1, <1>3, <1>5 DEF Types
<1>9. Rest' = SubSeq(Mapped'[source], 1, size[source])
    BY <1>1, <1>3, <1>4, <1>5, <1>6, <1>7, <1>8, RestIsNext
<1>10. Mapped' = Mapped
    BY DEF LinkedListCopyTo, Mapped, Contents, At, heap
<1>11. Mapped[source] \in Seq(Data) /\ Len(Mapped[source]) = size[source]
    BY ContentsAre
<1>12. Rest' = Mapped[source]
    BY <1>9, <1>10, <1>11, SubSeqFull
<1>13. Rest = <<>>
    BY <1>3 DEF Rest
<1>14. Mapped[source] # <<>>
    BY <1>4, <1>11, EmptySeq
<1>15. (IF copy = NotCopying THEN NULL ELSE copy.dest)' = dest
    BY <1>5, <1>6 DEF NotCopying
<1>16. unused' = unused
    BY DEF LinkedListCopyTo, heap
<1> QED BY <1>3, <1>10, <1>12, <1>13, <1>14, <1>15, <1>16 DEF Abstract!StartCopy, Mapped

(***************************************************************************)
(* The empty lists are empty sequences.                                    *)
(***************************************************************************)
LEMMA InitAbstract == Init => Abstract!Init
<1> SUFFICES ASSUME Init PROVE Abstract!Init
    OBVIOUS
<1>1. \A l \in Lists : Contents(l) = <<>>
    BY DEF Init, Contents
<1>2. Rest = <<>> /\ copy = NotCopying
    BY DEF Init, Rest
<1> QED BY <1>1, <1>2 DEF Abstract!Init

(***************************************************************************)
(* An operation that finds no memory.                                      *)
(***************************************************************************)
LEMMA MemoryStep ==
    ASSUME OutOfMemory, copy = NotCopying, copy' = copy
    PROVE  Abstract!NoMemory
<1>1. UNCHANGED Abstract!vars
    BY NoStep DEF OutOfMemory
<1>2. Rest = <<>>
    BY NoCopyNoRest
<1> QED BY <1>1, <1>2 DEF Abstract!NoMemory, OutOfMemory

(***************************************************************************)
(* An append, alone or as part of linked_list_put_front.                   *)
(***************************************************************************)
LEMMA AppendStep ==
    ASSUME HeapTypes, NEW path, Sound(path), NEW l \in Lists, NEW d \in Data,
           AppendTo(l, d), copy = NotCopying, copy' = copy
    PROVE  Abstract!PutLast(l, d)
<1>1. ASSUME NEW n \in unused, AppendNode(l, n, d)
      PROVE  Abstract!Grow(l, Append(Mapped[l], d))
    <2>1. Inserted(path[l], l, size[l], n, d)
        BY <1>1, AppendInserts
    <2>2. size[l] \in 0..size[l]
        BY DEF HeapTypes
    <2>3. Abstract!Grow(l, Abstract!InsertAfter(Mapped[l], size[l], d))
        BY <2>1, <2>2, InsertStep
    <2>4. Mapped[l] \in Seq(Data) /\ Len(Mapped[l]) = size[l]
        BY ContentsAre
    <2>5. Abstract!InsertAfter(Mapped[l], size[l], d) = Append(Mapped[l], d)
        BY <2>4, AppendIsInsert
    <2> QED BY <2>3, <2>5
<1>2. ASSUME OutOfMemory PROVE Abstract!NoMemory
    BY <1>2, MemoryStep
<1> QED BY <1>1, <1>2 DEF AppendTo, Abstract!PutLast, Mapped

(***************************************************************************)
(* linked_list_put_front inserts before the first element; into an empty   *)
(* list it appends, which is the same.                                     *)
(***************************************************************************)
LEMMA PutFrontStep ==
    ASSUME HeapTypes, NEW path, Sound(path), NEW l \in Lists, NEW d \in Data,
           LinkedListPutFront(l, d)
    PROVE  Abstract!PutFront(l, d)
<1>1. copy = NotCopying /\ copy' = copy
    BY DEF LinkedListPutFront, Running
<1>2. ASSUME NEW n \in unused, NEW i \in 0..size[l], i = 0,
             Inserted(path[l], l, i, n, d)
      PROVE  Abstract!PutFront(l, d)
    <2>1. Abstract!Grow(l, Abstract!InsertAfter(Mapped[l], 0, d))
        BY <1>1, <1>2, InsertStep
    <2> QED BY <2>1 DEF Abstract!PutFront, Mapped
<1>3. 0 \in 0..size[l]
    BY DEF HeapTypes
<1>4. ASSUME size[l] = 0, AppendTo(l, d) PROVE Abstract!PutFront(l, d)
    <2>1. ASSUME NEW n \in unused, AppendNode(l, n, d) PROVE Abstract!PutFront(l, d)
        <3>1. Inserted(path[l], l, 0, n, d)
            BY <1>4, <2>1, AppendInserts
        <3> QED BY <1>2, <1>3, <3>1
    <2>2. ASSUME OutOfMemory PROVE Abstract!PutFront(l, d)
        BY <1>1, <2>2, MemoryStep DEF Abstract!PutFront
    <2> QED BY <1>4, <2>1, <2>2 DEF AppendTo
<1>5. ASSUME size[l] # 0, NEW n \in unused, PutFrontNode(l, n, d)
      PROVE  Abstract!PutFront(l, d)
    <2>1. Inserted(path[l], l, 0, n, d)
        BY <1>5, PutFrontInserts
    <2> QED BY <1>2, <1>3, <2>1
<1>6. ASSUME OutOfMemory PROVE Abstract!PutFront(l, d)
    BY <1>1, <1>6, MemoryStep DEF Abstract!PutFront
<1> QED BY <1>4, <1>5, <1>6 DEF LinkedListPutFront

(***************************************************************************)
(* linked_list_put_next inserts after the k-th element, or crashes.        *)
(***************************************************************************)
LEMMA PutNextStep ==
    ASSUME HeapTypes, NEW path, Sound(path), NEW l \in Lists, NEW d \in Data,
           NEW k \in 1..size[l], LinkedListPutNext(l, path[l][k], d)
    PROVE  \/ Abstract!PutNext(l, k, d)
           \/ crashed' /\ UNCHANGED Abstract!vars
<1> DEFINE lln == path[l][k]
<1>1. copy = NotCopying /\ copy' = copy
    BY DEF LinkedListPutNext, Running
<1>2. IsPath(path[l], l) /\ size[l] \in Nat
    BY DEF Sound, HeapTypes
<1>3. ASSUME NEW n \in unused, next[lln] # NULL,
             data' = [data EXCEPT ![n] = d],
             prev' = [prev EXCEPT ![next[lln]] = n, ![n] = lln],
             next' = [next EXCEPT ![lln] = n, ![n] = next[lln]],
             size' = [size EXCEPT ![l] = @ + 1],
             unused' = unused \ {n}, head' = head, tail' = tail
      PROVE  Abstract!PutNext(l, k, d)
    <2>1. Inserted(path[l], l, k, n, d)
        BY <1>3, PutNextInserts
    <2>2. k \in 0..size[l]
        BY <1>2
    <2>3. Abstract!Grow(l, Abstract!InsertAfter(Mapped[l], k, d))
        BY <1>1, <2>1, <2>2, InsertStep
    <2>4. Len(Mapped[l]) = size[l]
        BY ContentsAre
    <2>5. k # size[l]
        BY <1>2, <1>3 DEF IsPath
    <2>6. k \in 1..(Len(Mapped[l]) - 1)
        BY <1>2, <2>4, <2>5
    <2> QED BY <2>3, <2>6 DEF Abstract!PutNext, Mapped
<1>4. ASSUME UNCHANGED <<head, tail, size, heap>> PROVE UNCHANGED Abstract!vars
    BY <1>1, <1>4, NoStep
<1> QED BY <1>3, <1>4 DEF LinkedListPutNext, heap

(***************************************************************************)
(* linked_list_pop_front takes the first element.                          *)
(***************************************************************************)
LEMMA PopFrontStep ==
    ASSUME HeapTypes, NEW path, Sound(path), NEW l \in Lists, LinkedListPopFront(l)
    PROVE  Abstract!PopFront(l)
<1>1. Removed(path[l], l, 1)
    BY DropFrontRemoves DEF LinkedListPopFront
<1>2. 1 \in 1..size[l]
    BY DEF LinkedListPopFront, HeapTypes
<1>3. copy = NotCopying /\ copy' = copy /\ unused' = unused
    BY DEF LinkedListPopFront, Running
<1>4. Abstract!Change(l, Abstract!RemoveAt(Mapped[l], 1))
    BY <1>1, <1>2, <1>3, RemoveStep
<1>5. Mapped[l] # <<>>
    <2>1. Mapped[l] \in Seq(Data) /\ Len(Mapped[l]) = size[l]
        BY ContentsAre
    <2> QED BY <1>2, <2>1, EmptySeq
<1> QED BY <1>3, <1>4, <1>5 DEF Abstract!PopFront, Mapped

(***************************************************************************)
(* linked_list_remove takes the k-th element and frees its node.           *)
(***************************************************************************)
LEMMA RemoveOneStep ==
    ASSUME HeapTypes, NEW path, Sound(path), NEW l \in Lists, NEW k \in 1..size[l],
           LinkedListRemove(l, path[l][k])
    PROVE  Abstract!Remove(l, k)
<1>1. Removed(path[l], l, k)
    BY RemoveRemoves
<1>2. copy = NotCopying /\ copy' = copy
    BY DEF LinkedListRemove, Running
<1>3. Abstract!Change(l, Abstract!RemoveAt(Mapped[l], k))
    BY <1>1, <1>2, RemoveStep
<1>4. Len(Mapped[l]) = size[l]
    BY ContentsAre
<1>5. unused' # {}
    BY DEF LinkedListRemove
<1> QED BY <1>3, <1>4, <1>5 DEF Abstract!Remove, Mapped

(***************************************************************************)
(* Every operation is the one its comment describes.                       *)
(***************************************************************************)
LEMMA OperationsMatch == IInv => AsPromised
<1> SUFFICES ASSUME IInv PROVE AsPromised
    OBVIOUS
<1> PICK path : Sound(path) /\ CopySound(path)
    BY Zenon DEF IInv
<1> Types
    BY Zenon DEF IInv
<1> HeapTypes
    BY Zenon DEF Types
<1>1. \A l \in Lists : \A k \in 1..size[l] : At(l)[k] = path[l][k]
    BY AtIsPath
<1>2. ASSUME NEW l \in Lists, NEW d \in Data, LinkedListAppend(l, d)
      PROVE  Abstract!PutLast(l, d)
    BY <1>2, AppendStep DEF LinkedListAppend, Running
<1>3. ASSUME NEW l \in Lists, NEW d \in Data, LinkedListPutFront(l, d)
      PROVE  Abstract!PutFront(l, d)
    BY <1>3, PutFrontStep
<1>4. ASSUME NEW l \in Lists, NEW d \in Data, NEW k \in 1..size[l],
             LinkedListPutNext(l, At(l)[k], d)
      PROVE  crashed' \/ Abstract!PutNext(l, k, d)
    <2>1. LinkedListPutNext(l, path[l][k], d)
        BY <1>1, <1>4
    <2> QED BY <2>1, PutNextStep
<1>5. ASSUME NEW l \in Lists, LinkedListPopFront(l) PROVE Abstract!PopFront(l)
    BY <1>5, PopFrontStep
<1>6. ASSUME NEW l \in Lists, LinkedListDelete(l) PROVE Abstract!Clear(l)
    BY <1>6, DeleteStep
<1>7. ASSUME NEW l \in Lists, NEW k \in 1..size[l], LinkedListRemove(l, At(l)[k])
      PROVE  Abstract!Remove(l, k)
    <2>1. LinkedListRemove(l, path[l][k])
        BY <1>1, <1>7
    <2> QED BY <2>1, RemoveOneStep
<1>8. ASSUME NEW l \in Lists, NEW m \in Lists, LinkedListCopyTo(l, m)
      PROVE  Abstract!StartCopy(l, m)
    BY <1>8, CopyToStep
<1>9. ASSUME CopyNext PROVE Abstract!CopyNext
    BY <1>9, CopyStep
<1> QED BY <1>2, <1>3, <1>4, <1>5, <1>6, <1>7, <1>8, <1>9 DEF AsPromised

(***************************************************************************)
(* Every step of the lists is a step of AbstractList, or changes no        *)
(* sequence.                                                               *)
(***************************************************************************)
LEMMA NextAbstract == IInv /\ [Next]_vars => [Abstract!Next]_(Abstract!vars)
<1> SUFFICES ASSUME IInv, [Next]_vars PROVE Abstract!Next \/ UNCHANGED Abstract!vars
    OBVIOUS
<1> PICK path : Sound(path) /\ CopySound(path)
    BY Zenon DEF IInv
<1> Types
    BY Zenon DEF IInv
<1> HeapTypes
    BY Zenon DEF Types
<1> DEFINE Goal == Abstract!Next \/ UNCHANGED Abstract!vars
<1>1. \A l \in Lists : \A k \in 1..size[l] : k \in 1..Len(Mapped[l])
    BY ContentsAre
<1>2. ASSUME NEW l \in Lists, NEW d \in Data, LinkedListAppend(l, d) PROVE Goal
    <2>1. Abstract!PutLast(l, d)
        BY <1>2, AppendStep DEF LinkedListAppend, Running
    <2> QED BY <2>1 DEF Abstract!Next
<1>3. ASSUME NEW l \in Lists, NEW d \in Data, LinkedListPutFront(l, d) PROVE Goal
    <2>1. Abstract!PutFront(l, d)
        BY <1>3, PutFrontStep
    <2> QED BY <2>1 DEF Abstract!Next
<1>4. ASSUME NEW l \in Lists, LinkedListPopFront(l) PROVE Goal
    <2>1. Abstract!PopFront(l)
        BY <1>4, PopFrontStep
    <2> QED BY <2>1 DEF Abstract!Next
<1>5. ASSUME NEW l \in Lists, LinkedListDelete(l) PROVE Goal
    <2>1. Abstract!Clear(l)
        BY <1>5, DeleteStep
    <2> QED BY <2>1 DEF Abstract!Next
<1>6. ASSUME NEW l \in Lists, NEW node \in Nodes, LinkedListRemove(l, node) PROVE Goal
    <2>1. PICK k \in 1..size[l] : node = path[l][k]
        BY <1>6, AtIsPath DEF LinkedListRemove, Belongs
    <2>2. Abstract!Remove(l, k)
        BY <1>6, <2>1, RemoveOneStep
    <2> QED BY <1>1, <2>2 DEF Abstract!Next, Mapped
<1>7. ASSUME NEW l \in Lists, NEW lln \in Nodes, NEW d \in Data,
             LinkedListPutNext(l, lln, d)
      PROVE  Goal
    <2>1. PICK k \in 1..size[l] : lln = path[l][k]
        BY <1>7, AtIsPath DEF LinkedListPutNext, Belongs
    <2>2. Abstract!PutNext(l, k, d) \/ UNCHANGED Abstract!vars
        BY <1>7, <2>1, PutNextStep
    <2> QED BY <1>1, <2>2 DEF Abstract!Next, Mapped
<1>8. ASSUME NEW source \in Lists, NEW dest \in Lists, LinkedListCopyTo(source, dest)
      PROVE  Goal
    <2>1. Abstract!StartCopy(source, dest)
        BY <1>8, CopyToStep
    <2> QED BY <2>1 DEF Abstract!Next
<1>9. ASSUME CopyNext PROVE Goal
    <2>1. Abstract!CopyNext
        BY <1>9, CopyStep
    <2> QED BY <2>1 DEF Abstract!Next
<1>10. ASSUME UNCHANGED vars PROVE Goal
    BY <1>10, NoStep DEF vars
<1> HIDE DEF Goal
<1>11. Goal
    BY <1>2, <1>3, <1>4, <1>5, <1>6, <1>7, <1>8, <1>9, <1>10 DEF Next, Stopped
<1> QED BY <1>11 DEF Goal

(***************************************************************************)
(* The lists of linked_list.c implement the sequences linked_list.h        *)
(* promises: the links through the heap never show, whichever nodes malloc *)
(* hands out and whenever it has none.                                     *)
(***************************************************************************)
THEOREM ListsAreSequences == Spec => KeepsSequences
<1>1. Spec => Abstract!Init
    BY InitAbstract DEF Spec
<1>2. Spec => [][Abstract!Next]_(Abstract!vars)
    BY Inductive, NextAbstract, PTL DEF Spec
<1> QED BY <1>1, <1>2 DEF KeepsSequences, Abstract!Spec

(***************************************************************************)
(* Each operation inserts, removes or copies where its own comment in      *)
(* linked_list.h says.                                                     *)
(***************************************************************************)
THEOREM OperationsKeepPromises == Spec => OperationsAsPromised
<1>1. IInv => [AsPromised]_vars
    BY OperationsMatch
<1> QED BY <1>1, Inductive, PTL DEF OperationsAsPromised
===============================================================================
