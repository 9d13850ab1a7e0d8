----------------------------- MODULE HashMapProofs -----------------------------
(***************************************************************************)
(* Proofs about the hash map of hashmap.c, for any keys, buckets, hash     *)
(* function and memory.  The invariant says that every bucket has a path,  *)
(* the sequence of the entries of its chain, and that the paths and the    *)
(* list of keys hold exactly the entries that are allocated.  It holds as  *)
(* long as the map is Intact, which only the deletion of an entry between  *)
(* two others of its chain ends: there is none when no bucket has more     *)
(* than two keys, and then the map is the dictionary of hashmap.h.         *)
(***************************************************************************)
EXTENDS HashMap, ChainFacts, FiniteSetTheorems

\* p holds the n entries of the chain of bucket b.
IsPath(p, n, b) ==
    /\ n \in Nat /\ p \in [1..n -> Entries]
    /\ Leads(p, n, buckets[b], next, NULL)
    /\ \A i \in 1..n :
          /\ p[i] \notin unused
          /\ key[p[i]] \in Keys /\ Hash[key[p[i]]] = b /\ value[p[i]] \in Values
    /\ \A i, j \in 1..n : key[p[i]] = key[p[j]] => i = j

Chained(path, len) == \A b \in Buckets : IsPath(path[b], len[b], b)

\* Every allocated entry is on a path ...
Covered(path, len) ==
    \A e \in Entries \ unused : \E b \in Buckets : \E i \in 1..len[b] : path[b][i] = e

\* ... and in the list of keys, once.
Listed ==
    /\ \A j \in 1..Len(keys) : keys[j] \notin unused
    /\ \A e \in Entries \ unused : \E j \in 1..Len(keys) : keys[j] = e
    /\ \A i, j \in 1..Len(keys) : keys[i] = keys[j] => i = j
    /\ size = Len(keys)

Sound(path, len) == Chained(path, len) /\ Covered(path, len) /\ Listed

IInv == TypeOK /\ (Intact => \E path, len : Sound(path, len))

With(f, b, x) == [c \in Buckets |-> IF c = b THEN x ELSE f[c]]

\* What the walks of the code along the chain of bucket b meet.
Follows(p, n, b) ==
    /\ n \in 0..Cardinality(Entries)
    /\ From(buckets[b]) = [k \in 1..(Cardinality(Entries) + 1) |->
                             IF k <= n THEN p[k] ELSE NULL]
    /\ Chain(b) = {p[i] : i \in 1..n}
    /\ \A i \in 1..n : Following(p[i]) = {p[j] : j \in i..n}

(***************************************************************************)
(* The walks of the code meet the entries of the path.                     *)
(***************************************************************************)
LEMMA WalksFollow == \A p, n : \A b \in Buckets : IsPath(p, n, b) => Follows(p, n, b)
<1> SUFFICES ASSUME NEW p, NEW n, NEW b \in Buckets, IsPath(p, n, b)
             PROVE  Follows(p, n, b)
    OBVIOUS
<1> DEFINE length == Cardinality(Entries) + 1
<1>2. n \in Nat /\ Leads(p, n, buckets[b], next, NULL)
    BY DEF IsPath
<1>3. Cardinality(Entries) \in Nat
    BY MapAssumption, FS_CardinalityType
<1>4. n <= Cardinality(Entries)
    <2>1. p \in Injection(1..n, Entries)
        BY DEF IsPath, Injection, IsInjective
    <2>2. Cardinality(1..n) <= Cardinality(Entries)
        BY <2>1, MapAssumption, FS_Injection
    <2>3. Cardinality(1..n) = n
        BY <1>2, FS_Interval
    <2> QED BY <2>2, <2>3
<1>5. \A e : From(e) = Walk(e, next, NULL, length)
    BY DEF From, Walk
<1>6. From(buckets[b]) = [k \in 1..length |-> IF k <= n THEN p[k] ELSE NULL]
    BY <1>2, <1>3, <1>4, <1>5, WalkFollows
<1>7. Chain(b) = {p[i] : i \in 1..n}
    <2>1. length \in Nat /\ n \in 0..length
        BY <1>2, <1>3, <1>4
    <2>2. PICK walk : walk = Walk(buckets[b], next, NULL, length)
        OBVIOUS
    <2> HIDE DEF length
    <2>3. {walk[k] : k \in DOMAIN walk} \ {NULL} = {p[i] : i \in 1..n}
        BY <1>2, <2>1, <2>2, WalkMeets
    <2> QED BY <1>5, <2>2, <2>3 DEF Chain, Following
<1>8. ASSUME NEW i \in 1..n PROVE Following(p[i]) = {p[j] : j \in i..n}
    <2> HIDE DEF length
    <2>1. PICK q : q = [k \in 1..(n - i + 1) |-> p[k + i - 1]]
        OBVIOUS
    <2>2. n - i + 1 \in 0..length
        BY <1>2, <1>3, <1>4 DEF length
    <2>3. Leads(q, n - i + 1, p[i], next, NULL)
        <3>1. \A k \in 1..(n - i + 1) : q[k] = p[k + i - 1] /\ k + i - 1 \in 1..n
            BY <1>2, <2>1
        <3>2. \A k \in 1..(n - i + 1) :
                 k # n - i + 1 => q[k + 1] = p[k + i] /\ k + i - 1 # n
            BY <1>2, <2>1
        <3>3. q[1] = p[i] /\ n - i + 1 # 0
            BY <1>2, <2>1
        <3>4. \A k \in 1..(n - i + 1) :
                 next[q[k]] = IF k = n - i + 1 THEN NULL ELSE q[k + 1]
            BY <1>2, <3>1, <3>2 DEF Leads
        <3>5. \A k \in 1..(n - i + 1) : q[k] # NULL
            BY <1>2, <3>1 DEF Leads
        <3> QED BY <3>3, <3>4, <3>5 DEF Leads
    <2>4. PICK walk : walk = Walk(p[i], next, NULL, length)
        OBVIOUS
    <2>5. length \in Nat
        BY <1>3 DEF length
    <2>6. {walk[k] : k \in DOMAIN walk} \ {NULL} = {q[k] : k \in 1..(n - i + 1)}
        BY <2>2, <2>3, <2>4, <2>5, WalkMeets
    <2>7. Following(p[i]) = {q[k] : k \in 1..(n - i + 1)}
        BY <1>5, <2>4, <2>6 DEF Following
    <2>8. \A j \in i..n : j - i + 1 \in 1..(n - i + 1) /\ q[j - i + 1] = p[j]
        BY <1>2, <2>1
    <2>9. \A k \in 1..(n - i + 1) : k + i - 1 \in i..n /\ q[k] = p[k + i - 1]
        BY <1>2, <2>1
    <2> QED BY <2>7, <2>8, <2>9
<1> HIDE DEF length
<1>9. /\ n \in 0..Cardinality(Entries)
      /\ From(buckets[b]) = [k \in 1..(Cardinality(Entries) + 1) |->
                               IF k <= n THEN p[k] ELSE NULL]
    BY <1>2, <1>3, <1>4, <1>6 DEF length
<1> QED BY <1>7, <1>8, <1>9 DEF Follows

LEMMA WalksFollowNext ==
    \A p, n : \A b \in Buckets : IsPath(p, n, b)' => Follows(p, n, b)'
<1>1. (\A p, n : \A b \in Buckets : IsPath(p, n, b) => Follows(p, n, b))'
    BY WalksFollow, PTL
<1> QED BY <1>1

(***************************************************************************)
(* The invariant says what the runs check.                                 *)
(***************************************************************************)
LEMMA IInvImplies == IInv /\ Intact => ChainsSound /\ KeysListed
<1> SUFFICES ASSUME IInv, Intact PROVE ChainsSound /\ KeysListed
    OBVIOUS
<1> PICK path, len : Sound(path, len)
    BY Zenon DEF IInv
<1>1. TypeOK /\ Chained(path, len) /\ Covered(path, len) /\ Listed
    BY Zenon DEF IInv, Sound
<1>2. Cardinality(Entries) \in Nat
    BY MapAssumption, FS_CardinalityType
<1>3. ASSUME NEW b \in Buckets
      PROVE  /\ IsPath(path[b], len[b], b)
             /\ Follows(path[b], len[b], b)
    BY <1>1, WalksFollow DEF Chained
<1>4. ChainsSound
    <2> SUFFICES ASSUME NEW b \in Buckets
                 PROVE  /\ From(buckets[b])[Cardinality(Entries) + 1] = NULL
                        /\ \A e \in Chain(b) : Hash[key[e]] = b
                        /\ \A e, f \in Chain(b) : key[e] = key[f] => e = f
        BY DEF ChainsSound
    <2> DEFINE p == path[b]
               n == len[b]
    <2>5. IsPath(p, n, b) /\ Follows(p, n, b)
        BY <1>3
    <2> HIDE DEF p, n
    <2>1. From(buckets[b])[Cardinality(Entries) + 1] = NULL
        BY <1>2, <2>5 DEF Follows
    <2>2. \A e \in Chain(b) : \E i \in 1..n : e = p[i]
        BY <2>5 DEF Follows
    <2>3. \A e \in Chain(b) : Hash[key[e]] = b
        BY <2>2, <2>5 DEF IsPath
    <2>4. \A e, f \in Chain(b) : key[e] = key[f] => e = f
        BY <2>2, <2>5 DEF IsPath
    <2> QED BY <2>1, <2>3, <2>4
<1>5. KeysListed
    <2>1. ASSUME NEW b \in Buckets, NEW e \in Chain(b) PROVE e \in Entries \ unused
        <3> DEFINE p == path[b]
                   n == len[b]
        <3>1. IsPath(p, n, b) /\ Follows(p, n, b)
            BY <1>3
        <3> HIDE DEF p, n
        <3>2. PICK i \in 1..n : e = p[i]
            BY <3>1 DEF Follows
        <3> QED BY <3>1, <3>2 DEF IsPath
    <2>2. ASSUME NEW e \in Entries \ unused PROVE \E b \in Buckets : e \in Chain(b)
        <3>1. PICK b \in Buckets : \E i \in 1..len[b] : path[b][i] = e
            BY <1>1 DEF Covered
        <3> QED BY <1>3, <3>1 DEF Follows
    <2>3. \A j \in 1..Len(keys) : keys[j] \in Entries \ unused
        BY <1>1 DEF Listed, TypeOK
    <2>4. UNION {Chain(b) : b \in Buckets} = Entries \ unused
        BY <2>1, <2>2
    <2>5. {keys[j] : j \in 1..Len(keys)} = Entries \ unused
        BY <1>1, <2>3 DEF Listed
    <2> QED BY <1>1, <2>4, <2>5 DEF Listed, KeysListed
<1> QED BY <1>4, <1>5

(***************************************************************************)
(* An allocated entry holds a key that no other one holds, in the chain    *)
(* the key hashes to.                                                      *)
(***************************************************************************)
LEMMA AllocatedHold ==
    \A path, len : Chained(path, len) /\ Covered(path, len) =>
        \A e \in Entries \ unused :
            /\ key[e] \in Keys /\ value[e] \in Values
            /\ e \in Chain(Hash[key[e]])
            /\ \A f \in Entries \ unused : key[f] = key[e] => f = e
<1> SUFFICES ASSUME NEW path, NEW len, Chained(path, len), Covered(path, len)
             PROVE  \A e \in Entries \ unused :
                       /\ key[e] \in Keys /\ value[e] \in Values
                       /\ e \in Chain(Hash[key[e]])
                       /\ \A f \in Entries \ unused : key[f] = key[e] => f = e
    OBVIOUS
<1>1. ASSUME NEW e \in Entries \ unused
      PROVE  /\ key[e] \in Keys /\ value[e] \in Values
             /\ Hash[key[e]] \in Buckets
             /\ \E i \in 1..len[Hash[key[e]]] : path[Hash[key[e]]][i] = e
             /\ e \in Chain(Hash[key[e]])
    <2>1. PICK b \in Buckets : \E i \in 1..len[b] : path[b][i] = e
        BY DEF Covered
    <2> DEFINE p == path[b]
               n == len[b]
    <2>2. PICK i \in 1..n : p[i] = e
        BY <2>1
    <2>3. IsPath(p, n, b) /\ Follows(p, n, b)
        BY WalksFollow DEF Chained
    <2> HIDE DEF p, n
    <2>4. key[e] \in Keys /\ value[e] \in Values /\ Hash[key[e]] = b
        BY <2>2, <2>3 DEF IsPath
    <2>5. e \in Chain(b)
        BY <2>2, <2>3 DEF Follows
    <2> QED BY <2>1, <2>4, <2>5
<1>2. ASSUME NEW e \in Entries \ unused, NEW f \in Entries \ unused, key[f] = key[e]
      PROVE  f = e
    <2> DEFINE b == Hash[key[e]]
    <2>1. b \in Buckets
        BY <1>1
    <2>2. PICK i \in 1..len[b], j \in 1..len[b] : path[b][i] = e /\ path[b][j] = f
        BY <1>1, <1>2
    <2>3. IsPath(path[b], len[b], b)
        BY <2>1 DEF Chained
    <2> HIDE DEF b
    <2> QED BY <1>2, <2>2, <2>3 DEF IsPath
<1> QED BY <1>1, <1>2

(***************************************************************************)
(* There are no more entries in the list than keys.                        *)
(***************************************************************************)
LEMMA FewKeys ==
    \A path, len : Sound(path, len) /\ keys \in Seq(Entries)
                      => Len(keys) \in 0..Cardinality(Keys)
<1> SUFFICES ASSUME NEW path, NEW len, Sound(path, len), keys \in Seq(Entries)
             PROVE  Len(keys) \in 0..Cardinality(Keys)
    OBVIOUS
<1>1. Chained(path, len) /\ Covered(path, len) /\ Listed
    BY DEF Sound
<1>2. \A j \in 1..Len(keys) : keys[j] \in Entries \ unused
    BY <1>1 DEF Listed
<1>3. Len(keys) \in Nat
    OBVIOUS
<1> DEFINE f == [j \in 1..Len(keys) |-> key[keys[j]]]
<1>4. \A e \in Entries \ unused :
         key[e] \in Keys /\ \A d \in Entries \ unused : key[d] = key[e] => d = e
    BY <1>1, AllocatedHold
<1>5. f \in Injection(1..Len(keys), Keys)
    <2>1. f \in [1..Len(keys) -> Keys]
        BY <1>2, <1>4
    <2>2. \A i, j \in 1..Len(keys) : f[i] = f[j] => i = j
        BY <1>1, <1>2, <1>4 DEF Listed
    <2> QED BY <2>1, <2>2 DEF Injection, IsInjective
<1>6. Cardinality(1..Len(keys)) <= Cardinality(Keys)
    BY <1>5, MapAssumption, FS_Injection
<1>7. Cardinality(1..Len(keys)) = Len(keys)
    <2>1. \A m \in Nat : Cardinality(1..m) = m
        BY FS_Interval
    <2> QED BY <1>3, <2>1
<1>8. Cardinality(Keys) \in Nat
    BY MapAssumption, FS_CardinalityType
<1> QED BY <1>3, <1>6, <1>7, <1>8

LEMMA FewKeysNext ==
    \A path, len : Sound(path, len)' /\ keys' \in Seq(Entries)
                      => Len(keys') \in 0..Cardinality(Keys)
<1>1. (\A path, len : Sound(path, len) /\ keys \in Seq(Entries)
                         => Len(keys) \in 0..Cardinality(Keys))'
    BY FewKeys, PTL
<1> QED BY <1>1

(***************************************************************************)
(* The entry of an operation on one bucket is on no other path.            *)
(***************************************************************************)
LEMMA PathsApart ==
    ASSUME NEW path, NEW len, Chained(path, len), NEW b \in Buckets, NEW c \in Buckets,
           b # c, NEW i \in 1..len[b], NEW j \in 1..len[c]
    PROVE  path[b][i] # path[c][j]
<1>1. Hash[key[path[b][i]]] = b
    BY DEF Chained, IsPath
<1>2. Hash[key[path[c][j]]] = c
    BY DEF Chained, IsPath
<1> QED BY <1>1, <1>2

(***************************************************************************)
(* What an operation on bucket c leaves alone: the other chains.           *)
(***************************************************************************)
OthersKept(path, len, c) ==
    \A b \in Buckets \ {c} :
        /\ buckets'[b] = buckets[b]
        /\ \A i \in 1..len[b] :
              /\ next'[path[b][i]] = next[path[b][i]]
              /\ key'[path[b][i]] = key[path[b][i]]
              /\ value'[path[b][i]] = value[path[b][i]]
              /\ path[b][i] \notin unused'

LEMMA OneBucketChanges ==
    ASSUME NEW path, NEW len, Chained(path, len), NEW c \in Buckets,
           OthersKept(path, len, c), NEW p, NEW n, IsPath(p, n, c)',
           NEW paths, paths = With(path, c, p), NEW lens, lens = With(len, c, n)
    PROVE  Chained(paths, lens)'
<1>1. ASSUME NEW b \in Buckets \ {c} PROVE IsPath(paths[b], lens[b], b)'
    <2> DEFINE q == path[b]
               m == len[b]
    <2>1. paths[b] = q /\ lens[b] = m
        BY DEF With
    <2>2. IsPath(q, m, b)
        BY DEF Chained
    <2>3. /\ buckets'[b] = buckets[b]
          /\ \A i \in 1..m : /\ next'[q[i]] = next[q[i]]
                             /\ key'[q[i]] = key[q[i]]
                             /\ value'[q[i]] = value[q[i]]
                             /\ q[i] \notin unused'
        BY DEF OthersKept
    <2> HIDE DEF q, m
    <2>4. Leads(q, m, buckets'[b], next', NULL)
        BY <2>2, <2>3 DEF IsPath, Leads
    <2>5. /\ m \in Nat /\ q \in [1..m -> Entries]
          /\ \A i \in 1..m :
                /\ q[i] \notin unused'
                /\ key'[q[i]] \in Keys /\ Hash[key'[q[i]]] = b /\ value'[q[i]] \in Values
          /\ \A i, j \in 1..m : key'[q[i]] = key'[q[j]] => i = j
        BY <2>2, <2>3 DEF IsPath
    <2> QED BY <2>1, <2>4, <2>5 DEF IsPath
<1>2. IsPath(paths[c], lens[c], c)'
    BY DEF With
<1> QED BY <1>1, <1>2 DEF Chained

(***************************************************************************)
(* linked_list_remove takes the one node of the entry's key off the list.  *)
(***************************************************************************)
LEMMA RemoveKeyKeeps ==
    ASSUME TypeOK, Listed, NEW e \in Entries \ unused, RemoveKey(e),
           unused' = unused \cup {e}, size' = size - 1
    PROVE  Listed' /\ keys' \in Seq(Entries)
<1>1. PICK j \in 1..Len(keys) : keys[j] = e /\ keys' = Seqs!RemoveAt(keys, j)
    BY DEF RemoveKey
<1>2. keys \in Seq(Entries) /\ Len(keys) \in Nat
    BY DEF TypeOK
<1>3. keys' = [k \in 1..(Len(keys) - 1) |-> IF k < j THEN keys[k] ELSE keys[k + 1]]
    BY <1>1, <1>2, WithoutOne DEF Seqs!RemoveAt
<1>4. Len(keys) - 1 \in Nat /\ \A k \in 1..Len(keys) : keys[k] \in Entries
    BY <1>2
<1>5. ASSUME NEW k \in 1..(Len(keys) - 1)
      PROVE  /\ keys'[k] \in Entries
             /\ k < j => keys'[k] = keys[k] /\ k \in 1..Len(keys)
             /\ ~ (k < j) => keys'[k] = keys[k + 1] /\ k + 1 \in 1..Len(keys)
    BY <1>2, <1>3, <1>4
<1>6. keys' \in Seq(Entries) /\ Len(keys') = Len(keys) - 1
    <2>1. keys' \in [1..(Len(keys) - 1) -> Entries]
        BY <1>3, <1>5
    <2> QED BY <1>4, <2>1
<1>7. \A a, b \in 1..Len(keys) : keys[a] = keys[b] => a = b
    BY DEF Listed
<1>8. \A k \in 1..Len(keys') : keys'[k] \notin unused'
    <2> SUFFICES ASSUME NEW k \in 1..(Len(keys) - 1) PROVE keys'[k] \notin unused \cup {e}
        BY <1>6
    <2>1. CASE k < j
        BY <1>1, <1>5, <1>7, <2>1 DEF Listed
    <2>2. CASE ~ (k < j)
        <3>1. k + 1 # j
            BY <2>2
        <3> QED BY <1>1, <1>5, <1>7, <2>2, <3>1 DEF Listed
    <2> QED BY <2>1, <2>2
<1>9. \A d \in Entries \ unused' : \E k \in 1..Len(keys') : keys'[k] = d
    <2> SUFFICES ASSUME NEW d \in Entries \ unused, d # e
                 PROVE  \E k \in 1..(Len(keys) - 1) : keys'[k] = d
        BY <1>6
    <2>1. PICK k \in 1..Len(keys) : keys[k] = d
        BY DEF Listed
    <2>2. k # j
        BY <1>1, <2>1
    <2>3. CASE k < j
        <3>1. k \in 1..(Len(keys) - 1)
            BY <1>2, <2>3
        <3> QED BY <1>5, <2>1, <2>3, <3>1
    <2>4. CASE k > j
        <3>1. k - 1 \in 1..(Len(keys) - 1) /\ ~ (k - 1 < j) /\ (k - 1) + 1 = k
            BY <1>2, <2>4
        <3>2. keys'[k - 1] = d
            BY <1>5, <2>1, <3>1
        <3> QED BY <3>1, <3>2
    <2> QED BY <2>2, <2>3, <2>4
<1>10. \A a, b \in 1..Len(keys') : keys'[a] = keys'[b] => a = b
    <2> SUFFICES ASSUME NEW a \in 1..(Len(keys) - 1), NEW b \in 1..(Len(keys) - 1),
                        keys'[a] = keys'[b]
                 PROVE  a = b
        BY <1>6
    <2>1. CASE a < j /\ b < j
        BY <1>5, <1>7, <2>1
    <2>2. CASE ~ (a < j) /\ ~ (b < j)
        <3>1. a + 1 = b + 1
            BY <1>5, <1>7, <2>2
        <3> QED BY <3>1
    <2>3. CASE a < j /\ ~ (b < j)
        <3>1. a = b + 1
            BY <1>5, <1>7, <2>3
        <3> QED BY <2>3, <3>1
    <2>4. CASE ~ (a < j) /\ b < j
        <3>1. a + 1 = b
            BY <1>5, <1>7, <2>4
        <3> QED BY <2>4, <3>1
    <2> QED BY <2>1, <2>2, <2>3, <2>4
<1>11. size' = Len(keys')
    BY <1>6 DEF Listed
<1> QED BY <1>6, <1>8, <1>9, <1>10, <1>11 DEF Listed

(***************************************************************************)
(* A map with paths is intact.                                             *)
(***************************************************************************)
LEMMA ChainedIntact == \A path, len : Chained(path, len) => Intact
<1> SUFFICES ASSUME NEW path, NEW len, Chained(path, len), NEW b \in Buckets
             PROVE  Chain(b) \cap unused = {}
    BY DEF Intact
<1> DEFINE p == path[b]
           n == len[b]
<1>1. IsPath(p, n, b) /\ Follows(p, n, b)
    BY WalksFollow DEF Chained
<1> HIDE DEF p, n
<1> QED BY <1>1 DEF IsPath, Follows

LEMMA ChainedIntactNext == \A path, len : Chained(path, len)' => Intact'
<1>1. (\A path, len : Chained(path, len) => Intact)'
    BY ChainedIntact, PTL
<1> QED BY <1>1

(***************************************************************************)
(* An insertion puts its entry after the last of the bucket of its key.    *)
(***************************************************************************)
LEMMA InsertKeeps ==
    ASSUME TypeOK, NEW path, NEW len, Sound(path, len), NEW k \in Keys, NEW v \in Values,
           HashMapInsert(k, v)
    PROVE  IInv' /\ Intact'
<1> DEFINE c == Hash[k]
           p == path[c]
           n == len[c]
<1>1. c \in Buckets
    BY MapAssumption
<1>2. PICK e \in unused :
         /\ unused' = unused \ {e}
         /\ key' = [key EXCEPT ![e] = k]
         /\ value' = [value EXCEPT ![e] = v]
         /\ \/ /\ buckets[c] = NULL
               /\ buckets' = [buckets EXCEPT ![c] = e]
               /\ next' = [next EXCEPT ![e] = NULL]
            \/ \E last \in Chain(c) :
                 /\ next[last] = NULL
                 /\ next' = [next EXCEPT ![e] = NULL, ![last] = e]
                 /\ UNCHANGED buckets
         /\ keys' = Append(keys, e)
    BY DEF HashMapInsert
<1>3. /\ Chained(path, len) /\ Covered(path, len) /\ Listed
      /\ e \in Entries /\ size' = size + 1 /\ Holding(k) = {}
    BY DEF Sound, HashMapInsert, Contains, TypeOK
<1>4. IsPath(p, n, c) /\ Follows(p, n, c)
    BY <1>1, <1>3, WalksFollow DEF Chained
<1>5. PICK q : q = [i \in 1..(n + 1) |-> IF i <= n THEN p[i] ELSE e]
    OBVIOUS
<1>6. \A b \in Buckets : \A i \in 1..len[b] : path[b][i] \in Entries /\ path[b][i] # e
    <2> SUFFICES ASSUME NEW b \in Buckets, NEW i \in 1..len[b]
                 PROVE  path[b][i] \in Entries /\ path[b][i] # e
        OBVIOUS
    <2>1. IsPath(path[b], len[b], b)
        BY <1>3 DEF Chained
    <2> QED BY <1>2, <2>1 DEF IsPath
<1>7. \A i \in 1..n : p[i] \in Entries /\ p[i] # e /\ p[i] \in Chain(c)
    BY <1>1, <1>4, <1>6 DEF Follows
<1>8. \A i \in 1..n : key[p[i]] # k
    BY <1>3, <1>7 DEF Holding
<1>9. /\ buckets' = IF n = 0 THEN [buckets EXCEPT ![c] = e] ELSE buckets
      /\ next' = [d \in Entries |-> IF d = e THEN NULL
                                    ELSE IF n # 0 /\ d = p[n] THEN e ELSE next[d]]
    <2> HIDE DEF p, n, c
    <2>1. /\ n \in Nat
          /\ buckets[c] = IF n = 0 THEN NULL ELSE p[1]
          /\ \A i \in 1..n : /\ p[i] # NULL
                             /\ next[p[i]] = IF i = n THEN NULL ELSE p[i + 1]
        BY <1>4 DEF IsPath, Leads
    <2>2. next \in [Entries -> Pointers]
        BY DEF TypeOK
    <2>3. ASSUME buckets[c] = NULL, buckets' = [buckets EXCEPT ![c] = e],
                 next' = [next EXCEPT ![e] = NULL]
          PROVE  <1>9!:
        <3>1. n = 0
            BY <2>1, <2>3
        <3> QED BY <2>2, <2>3, <3>1
    <2>4. ASSUME NEW last \in Chain(c), next[last] = NULL,
                 next' = [next EXCEPT ![e] = NULL, ![last] = e], UNCHANGED buckets
          PROVE  <1>9!:
        <3>1. PICK i \in 1..n : last = p[i]
            BY <1>4 DEF Follows
        <3>2. i = n
            <4>1. i # n => i + 1 \in 1..n /\ next[p[i]] = p[i + 1]
                BY <2>1
            <4> QED BY <2>1, <2>4, <3>1, <4>1
        <3>3. n # 0 /\ last = p[n]
            BY <3>1, <3>2
        <3>4. last # e /\ last \in Entries
            BY <1>7, <3>1
        <3> QED BY <2>2, <2>4, <3>3, <3>4
    <2> QED BY <1>2, <2>3, <2>4
<1>10. OthersKept(path, len, c)
    <2> SUFFICES ASSUME NEW b \in Buckets \ {c}
                 PROVE  /\ buckets'[b] = buckets[b]
                        /\ \A i \in 1..len[b] :
                              /\ next'[path[b][i]] = next[path[b][i]]
                              /\ key'[path[b][i]] = key[path[b][i]]
                              /\ value'[path[b][i]] = value[path[b][i]]
                              /\ path[b][i] \notin unused'
        BY DEF OthersKept
    <2>1. buckets'[b] = buckets[b]
        BY <1>9 DEF TypeOK
    <2>2. ASSUME NEW i \in 1..len[b]
          PROVE  /\ next'[path[b][i]] = next[path[b][i]]
                 /\ key'[path[b][i]] = key[path[b][i]]
                 /\ value'[path[b][i]] = value[path[b][i]]
                 /\ path[b][i] \notin unused'
        <3>1. path[b][i] \in Entries /\ path[b][i] # e
            BY <1>6
        <3>2. n # 0 => path[b][i] # p[n]
            <4>1. n # 0 => n \in 1..len[c]
                BY <1>4 DEF IsPath
            <4> QED BY <1>1, <1>3, <4>1, PathsApart
        <3>3. IsPath(path[b], len[b], b)
            BY <1>3 DEF Chained
        <3>4. path[b][i] \notin unused
            BY <3>3 DEF IsPath
        <3>5. next'[path[b][i]] = next[path[b][i]]
            BY <1>9, <3>1, <3>2
        <3> QED BY <1>2, <3>1, <3>4, <3>5 DEF TypeOK
    <2> QED BY <2>1, <2>2
<1>11. IsPath(q, n + 1, c)'
    <2> HIDE DEF p, n, c
    <2>1. /\ n \in Nat
          /\ buckets[c] = IF n = 0 THEN NULL ELSE p[1]
          /\ \A i \in 1..n : /\ p[i] # NULL
                             /\ next[p[i]] = IF i = n THEN NULL ELSE p[i + 1]
        BY <1>4 DEF IsPath, Leads
    <2>2. /\ \A i \in 1..n : q[i] = p[i]
          /\ q[n + 1] = e
          /\ \A i \in 1..(n + 1) : i \in 1..n \/ i = n + 1
        BY <1>5, <2>1
    <2>3. q \in [1..(n + 1) -> Entries]
        BY <1>3, <1>5, <1>7, <2>1
    <2>4. \A i \in 1..n : next'[p[i]] = IF i = n THEN e ELSE p[i + 1]
        <3> SUFFICES ASSUME NEW i \in 1..n
                     PROVE  next'[p[i]] = IF i = n THEN e ELSE p[i + 1]
            OBVIOUS
        <3>1. i # n => p[i] # p[n]
            BY <1>4, <2>1 DEF IsPath
        <3> QED BY <1>7, <1>9, <2>1, <3>1
    <2>5. next'[e] = NULL
        BY <1>3, <1>9
    <2>6. buckets'[c] = q[1]
        <3>1. n # 0 => q[1] = p[1]
            BY <2>1, <2>2
        <3>2. buckets \in [Buckets -> Pointers]
            BY DEF TypeOK
        <3>3. c \in Buckets
            BY <1>1
        <3> QED BY <1>9, <2>1, <2>2, <3>1, <3>2, <3>3
    <2>7. Leads(q, n + 1, buckets'[c], next', NULL)
        <3>1. \A i \in 1..(n + 1) : q[i] # NULL
            BY <2>3, MapAssumption
        <3>2. \A i \in 1..(n + 1) :
                 next'[q[i]] = IF i = n + 1 THEN NULL ELSE q[i + 1]
            <4> SUFFICES ASSUME NEW i \in 1..(n + 1)
                         PROVE  next'[q[i]] = IF i = n + 1 THEN NULL ELSE q[i + 1]
                OBVIOUS
            <4>1. CASE i = n + 1
                BY <2>2, <2>5, <4>1
            <4>2. CASE i = n
                BY <2>1, <2>2, <2>4, <4>2
            <4>3. CASE i # n /\ i # n + 1
                <5>1. i \in 1..n /\ i + 1 \in 1..n
                    BY <2>1, <4>3
                <5> QED BY <2>2, <2>4, <4>3, <5>1
            <4> QED BY <4>1, <4>2, <4>3
        <3> QED BY <2>1, <2>6, <3>1, <3>2 DEF Leads
    <2>8. /\ key'[e] = k /\ value'[e] = v
          /\ \A i \in 1..n : key'[p[i]] = key[p[i]] /\ value'[p[i]] = value[p[i]]
        BY <1>2, <1>3, <1>7 DEF TypeOK
    <2>9. \A i \in 1..(n + 1) :
             /\ q[i] \notin unused'
             /\ key'[q[i]] \in Keys /\ Hash[key'[q[i]]] = c /\ value'[q[i]] \in Values
        <3>1. e \notin unused' /\ Hash[k] = c
            BY <1>2 DEF c
        <3>2. \A i \in 1..n : p[i] \notin unused'
            BY <1>2, <1>4 DEF IsPath
        <3> QED BY <1>4, <2>2, <2>8, <3>1, <3>2 DEF IsPath
    <2>10. \A i, j \in 1..(n + 1) : key'[q[i]] = key'[q[j]] => i = j
        BY <1>4, <1>8, <2>2, <2>8 DEF IsPath
    <2> QED BY <2>1, <2>3, <2>7, <2>9, <2>10 DEF IsPath
<1>12. PICK paths, lens : paths = With(path, c, q) /\ lens = With(len, c, n + 1)
    OBVIOUS
<1>13. Chained(paths, lens)'
    BY <1>1, <1>3, <1>10, <1>11, <1>12, OneBucketChanges
<1>14. Covered(paths, lens)'
    <2> SUFFICES ASSUME NEW d \in Entries \ unused'
                 PROVE  \E b \in Buckets : \E i \in 1..lens[b] : paths[b][i] = d
        BY DEF Covered
    <2>1. n \in Nat
        BY <1>4 DEF IsPath
    <2>2. paths[c] = q /\ lens[c] = n + 1
        BY <1>1, <1>12 DEF With
    <2>3. CASE d = e
        <3>1. q[n + 1] = e /\ n + 1 \in 1..lens[c]
            BY <1>5, <2>1, <2>2
        <3> QED BY <1>1, <2>2, <2>3, <3>1
    <2>4. CASE d # e
        <3>1. PICK b \in Buckets : \E i \in 1..len[b] : path[b][i] = d
            BY <1>2, <1>3, <2>4 DEF Covered
        <3>2. CASE b = c
            <4>1. PICK i \in 1..n : p[i] = d
                BY <3>1, <3>2
            <4>2. q[i] = d /\ i \in 1..lens[c]
                BY <1>5, <2>1, <2>2, <4>1
            <4> QED BY <1>1, <2>2, <4>2
        <3>3. CASE b # c
            BY <1>12, <3>1, <3>3 DEF With
        <3> QED BY <3>2, <3>3
    <2> QED BY <2>3, <2>4
<1>15. keys' \in Seq(Entries) /\ Listed'
    <2>1. /\ keys \in Seq(Entries) /\ Len(keys) \in Nat
          /\ \A j \in 1..Len(keys) : keys[j] \notin unused
        BY <1>3 DEF TypeOK, Listed
    <2>2. /\ keys' \in Seq(Entries) /\ Len(keys') = Len(keys) + 1
          /\ \A j \in 1..Len(keys) : keys'[j] = keys[j]
          /\ keys'[Len(keys) + 1] = e
        BY <1>2, <1>3, <2>1, AppendProperties
    <2>3. \A j \in 1..(Len(keys) + 1) : j \in 1..Len(keys) \/ j = Len(keys) + 1
        BY <2>1
    <2>4. \A j \in 1..Len(keys) : keys'[j] # e
        BY <2>1, <2>2
    <2>5. \A j \in 1..Len(keys') : keys'[j] \notin unused'
        BY <1>2, <2>1, <2>2, <2>3
    <2>6. \A d \in Entries \ unused' : \E j \in 1..Len(keys') : keys'[j] = d
        <3> SUFFICES ASSUME NEW d \in Entries \ unused' PROVE \E j \in 1..Len(keys') : keys'[j] = d
            OBVIOUS
        <3>1. CASE d = e
            <4>1. Len(keys) + 1 \in 1..Len(keys')
                BY <2>1, <2>2
            <4> QED BY <2>2, <3>1, <4>1
        <3>2. CASE d # e
            <4>1. PICK j \in 1..Len(keys) : keys[j] = d
                BY <1>2, <1>3, <3>2 DEF Listed
            <4>2. j \in 1..Len(keys')
                BY <2>1, <2>2
            <4> QED BY <2>2, <4>1, <4>2
        <3> QED BY <3>1, <3>2
    <2>7. \A i, j \in 1..Len(keys') : keys'[i] = keys'[j] => i = j
        BY <1>3, <2>2, <2>3, <2>4 DEF Listed
    <2>8. size' = Len(keys')
        BY <1>3, <2>2 DEF Listed
    <2> QED BY <2>2, <2>5, <2>6, <2>7, <2>8 DEF Listed
<1>16. Sound(paths, lens)'
    BY <1>13, <1>14, <1>15 DEF Sound
<1>17. TypeOK'
    <2>1. size' \in 0..Cardinality(Keys)
        BY <1>15, <1>16, FewKeysNext DEF Listed
    <2>2. buckets' \in [Buckets -> Pointers] /\ next' \in [Entries -> Pointers]
        BY <1>3, <1>9 DEF TypeOK, Pointers
    <2>3. /\ key' \in [Entries -> Keys \cup {NULL}]
          /\ value' \in [Entries -> Values \cup {NULL}]
          /\ unused' \subseteq Entries
        BY <1>2 DEF TypeOK
    <2> QED BY <1>15, <2>1, <2>2, <2>3 DEF TypeOK
<1>18. Intact'
    BY <1>13, ChainedIntactNext
<1> QED BY <1>16, <1>17, <1>18, Zenon DEF IInv

(***************************************************************************)
(* The i-th entry e leaves the chain of bucket c and is freed.             *)
(***************************************************************************)
Unlinked(p, n, c, i, e) ==
    /\ unused' = unused \cup {e}
    /\ key' = [d \in Entries |-> IF d = e THEN NULL ELSE key[d]]
    /\ value' = [d \in Entries |-> IF d = e THEN NULL ELSE value[d]]
    /\ buckets' = IF i = 1 THEN [buckets EXCEPT ![c] = next[e]] ELSE buckets
    /\ next' \in [Entries -> Pointers]
    /\ \A d \in Entries \ {e} :
          next'[d] = IF i > 1 /\ d = p[i - 1] THEN next[e] ELSE next[d]
    /\ RemoveKey(e)
    /\ size' = size - 1

(***************************************************************************)
(* The rest of the chain is the path of the bucket then.                   *)
(***************************************************************************)
LEMMA UnlinkKeeps ==
    ASSUME TypeOK, NEW path, NEW len, Sound(path, len), NEW c \in Buckets,
           NEW i \in 1..len[c], NEW e, e = path[c][i],
           Unlinked(path[c], len[c], c, i, e)
    PROVE  IInv' /\ Intact'
<1> DEFINE p == path[c]
           n == len[c]
<1>1. Chained(path, len) /\ Covered(path, len) /\ Listed
    BY DEF Sound
<1>2. IsPath(p, n, c)
    BY <1>1 DEF Chained
<1>3. n \in Nat /\ i \in 1..n /\ p[i] = e
    BY <1>2 DEF IsPath
<1>4. e \in Entries \ unused
    BY <1>2, <1>3 DEF IsPath
<1>5. PICK q : q = [j \in 1..(n - 1) |-> IF j < i THEN p[j] ELSE p[j + 1]]
    OBVIOUS
<1>6. /\ \A j \in 1..(n - 1) : j < i => q[j] = p[j] /\ j \in 1..n
      /\ \A j \in 1..(n - 1) : ~ (j < i) => q[j] = p[j + 1] /\ j + 1 \in 1..n
    BY <1>3, <1>5
<1>7. \A j \in 1..n : /\ p[j] \in Entries /\ p[j] # NULL
                      /\ j # i => p[j] # e
                      /\ \A k \in 1..n : p[j] = p[k] => j = k
    BY <1>2, <1>3 DEF IsPath, Leads
<1>8. \A j \in 1..(n - 1) : q[j] \in Entries \ {e}
    BY <1>3, <1>6, <1>7
<1>9. /\ \A j \in 1..n : next[p[j]] = IF j = n THEN NULL ELSE p[j + 1]
      /\ buckets[c] = p[1]
    BY <1>2, <1>3 DEF IsPath, Leads
<1>10. OthersKept(path, len, c)
    <2> SUFFICES ASSUME NEW b \in Buckets \ {c}
                 PROVE  /\ buckets'[b] = buckets[b]
                        /\ \A j \in 1..len[b] :
                              /\ next'[path[b][j]] = next[path[b][j]]
                              /\ key'[path[b][j]] = key[path[b][j]]
                              /\ value'[path[b][j]] = value[path[b][j]]
                              /\ path[b][j] \notin unused'
        BY DEF OthersKept
    <2>1. buckets'[b] = buckets[b]
        BY DEF Unlinked, TypeOK
    <2>2. ASSUME NEW j \in 1..len[b]
          PROVE  /\ next'[path[b][j]] = next[path[b][j]]
                 /\ key'[path[b][j]] = key[path[b][j]]
                 /\ value'[path[b][j]] = value[path[b][j]]
                 /\ path[b][j] \notin unused'
        <3>1. IsPath(path[b], len[b], b)
            BY <1>1 DEF Chained
        <3>2. path[b][j] \in Entries /\ path[b][j] \notin unused
            BY <3>1 DEF IsPath
        <3>3. path[b][j] # e
            BY <1>1, PathsApart
        <3>4. i > 1 => path[b][j] # p[i - 1]
            <4>1. i > 1 => i - 1 \in 1..len[c]
                BY <1>3
            <4> QED BY <1>1, <4>1, PathsApart
        <3> QED BY <3>2, <3>3, <3>4 DEF Unlinked, TypeOK
    <2> QED BY <2>1, <2>2
<1>11. IsPath(q, n - 1, c)'
    <2>1. \A d \in Entries \ {e} :
             next'[d] = IF i > 1 /\ d = p[i - 1] THEN next[e] ELSE next[d]
        BY DEF Unlinked
    <2>2. buckets'[c] = IF i = 1 THEN next[e] ELSE buckets[c]
        BY DEF Unlinked, TypeOK
    <2>3. \A j \in 1..(n - 1) :
             key'[q[j]] = key[q[j]] /\ value'[q[j]] = value[q[j]]
        BY <1>8 DEF Unlinked, TypeOK
    <2>4. unused' = unused \cup {e}
        BY DEF Unlinked
    <2> HIDE DEF p, n
    <2>5. q \in [1..(n - 1) -> Entries] /\ n - 1 \in Nat
        BY <1>3, <1>5, <1>8
    <2>6. next[e] = IF i = n THEN NULL ELSE p[i + 1]
        BY <1>3, <1>9
    <2>7. ASSUME NEW j \in 1..(n - 1)
          PROVE  next'[q[j]] = IF j = n - 1 THEN NULL ELSE q[j + 1]
        <3>1. CASE j < i
            <4>1. q[j] = p[j] /\ j \in 1..n /\ p[j] \in Entries \ {e}
                BY <1>6, <1>8, <3>1
            <4>2. CASE j = i - 1
                <5>1. i > 1 /\ p[j] = p[i - 1]
                    BY <1>3, <4>2
                <5>2. next'[q[j]] = IF i = n THEN NULL ELSE p[i + 1]
                    BY <2>1, <2>6, <4>1, <5>1
                <5>3. i # n => q[j + 1] = p[i + 1] /\ j # n - 1
                    BY <1>3, <1>6, <4>2
                <5>4. i = n => j = n - 1
                    BY <4>2
                <5> QED BY <5>2, <5>3, <5>4
            <4>3. CASE j < i - 1
                <5>1. j # n /\ j # n - 1 /\ j + 1 \in 1..(n - 1) /\ j + 1 < i
                    BY <1>3, <4>3
                <5>2. i - 1 \in 1..n /\ j # i - 1
                    BY <1>3, <4>3
                <5>3. p[j] # p[i - 1]
                    BY <1>7, <4>1, <5>2
                <5>4. next'[q[j]] = next[p[j]]
                    BY <2>1, <4>1, <5>3
                <5>5. q[j + 1] = p[j + 1]
                    BY <1>6, <5>1
                <5> QED BY <1>9, <4>1, <5>1, <5>4, <5>5
            <4> QED BY <1>3, <3>1, <4>2, <4>3
        <3>2. CASE ~ (j < i)
            <4>1. q[j] = p[j + 1] /\ j + 1 \in 1..n /\ p[j + 1] \in Entries \ {e}
                BY <1>6, <1>8, <3>2
            <4>2. i > 1 => i - 1 \in 1..n /\ j + 1 # i - 1
                BY <1>3, <3>2
            <4>3. next'[q[j]] = next[p[j + 1]]
                BY <1>7, <2>1, <4>1, <4>2
            <4>4. j # n - 1 => j + 1 \in 1..(n - 1) /\ ~ (j + 1 < i) /\ (j + 1) + 1 = j + 2
                BY <1>3, <3>2
            <4>5. j # n - 1 => q[j + 1] = p[j + 2]
                BY <1>6, <4>4
            <4>6. next[p[j + 1]] = IF j + 1 = n THEN NULL ELSE p[j + 2]
                <5>1. (j + 1) + 1 = j + 2
                    BY <1>3
                <5> QED BY <1>9, <4>1, <5>1
            <4>7. j + 1 = n <=> j = n - 1
                BY <1>3
            <4> QED BY <4>3, <4>5, <4>6, <4>7
        <3> QED BY <1>3, <3>1, <3>2
    <2>8. buckets'[c] = IF n - 1 = 0 THEN NULL ELSE q[1]
        <3>1. CASE n = 1
            BY <1>3, <2>2, <2>6, <3>1
        <3>2. CASE n # 1
            <4>1. 1 \in 1..(n - 1)
                BY <1>3, <3>2
            <4>2. CASE i = 1
                BY <1>3, <1>6, <2>2, <2>6, <3>2, <4>1, <4>2
            <4>3. CASE i # 1
                BY <1>3, <1>6, <1>9, <2>2, <3>2, <4>1, <4>3
            <4> QED BY <4>2, <4>3
        <3> QED BY <3>1, <3>2
    <2>9. Leads(q, n - 1, buckets'[c], next', NULL)
        <3>1. \A j \in 1..(n - 1) : q[j] # NULL
            BY <1>8, MapAssumption
        <3> QED BY <2>7, <2>8, <3>1 DEF Leads
    <2>10. \A j \in 1..(n - 1) :
              /\ q[j] \notin unused'
              /\ key'[q[j]] \in Keys /\ Hash[key'[q[j]]] = c /\ value'[q[j]] \in Values
        <3> SUFFICES ASSUME NEW j \in 1..(n - 1)
                     PROVE  /\ q[j] \notin unused'
                            /\ key'[q[j]] \in Keys /\ Hash[key'[q[j]]] = c
                            /\ value'[q[j]] \in Values
            OBVIOUS
        <3>1. PICK k \in 1..n : q[j] = p[k]
            BY <1>6
        <3> QED BY <1>2, <1>8, <2>3, <2>4, <3>1 DEF IsPath
    <2>11. \A j, k \in 1..(n - 1) : key'[q[j]] = key'[q[k]] => j = k
        <3> SUFFICES ASSUME NEW j \in 1..(n - 1), NEW k \in 1..(n - 1), q[j] = q[k]
                     PROVE  j = k
            <4>1. \A j, k \in 1..(n - 1) : key[q[j]] = key[q[k]] => q[j] = q[k]
                <5>1. \A j \in 1..(n - 1) : \E k \in 1..n : q[j] = p[k]
                    BY <1>6
                <5>2. \A j, k \in 1..n : key[p[j]] = key[p[k]] => j = k
                    BY <1>2 DEF IsPath
                <5> QED BY <5>1, <5>2
            <4> QED BY <2>3, <4>1
        <3>1. CASE j < i /\ k < i
            BY <1>6, <1>7, <3>1
        <3>2. CASE ~ (j < i) /\ ~ (k < i)
            <4>1. j + 1 = k + 1
                BY <1>6, <1>7, <3>2
            <4> QED BY <4>1
        <3>3. CASE j < i /\ ~ (k < i)
            <4>1. j = k + 1
                BY <1>6, <1>7, <3>3
            <4> QED BY <1>3, <3>3, <4>1
        <3>4. CASE ~ (j < i) /\ k < i
            <4>1. j + 1 = k
                BY <1>6, <1>7, <3>4
            <4> QED BY <1>3, <3>4, <4>1
        <3> QED BY <3>1, <3>2, <3>3, <3>4
    <2> QED BY <2>5, <2>9, <2>10, <2>11 DEF IsPath
<1>12. PICK paths, lens : paths = With(path, c, q) /\ lens = With(len, c, n - 1)
    OBVIOUS
<1>13. Chained(paths, lens)'
    BY <1>1, <1>10, <1>11, <1>12, OneBucketChanges
<1>14. Covered(paths, lens)'
    <2> SUFFICES ASSUME NEW d \in Entries \ unused'
                 PROVE  \E b \in Buckets : \E j \in 1..lens[b] : paths[b][j] = d
        BY DEF Covered
    <2>1. d \in Entries \ unused /\ d # e
        BY DEF Unlinked
    <2>2. PICK b \in Buckets : \E j \in 1..len[b] : path[b][j] = d
        BY <1>1, <2>1 DEF Covered
    <2>3. CASE b = c
        <3>1. PICK j \in 1..n : p[j] = d
            BY <2>2, <2>3
        <3>2. paths[c] = q /\ lens[c] = n - 1
            BY <1>12 DEF With
        <3>3. j # i
            BY <1>3, <2>1, <3>1
        <3> HIDE DEF p, n
        <3>4. CASE j < i
            <4>1. j \in 1..(n - 1) /\ q[j] = d
                BY <1>3, <1>6, <3>1, <3>4
            <4> QED BY <3>2, <4>1
        <3>5. CASE j > i
            <4>1. j - 1 \in 1..(n - 1) /\ ~ (j - 1 < i) /\ (j - 1) + 1 = j
                BY <1>3, <3>5
            <4>2. q[j - 1] = d
                BY <1>6, <3>1, <4>1
            <4> QED BY <3>2, <4>1, <4>2
        <3> QED BY <1>3, <3>3, <3>4, <3>5
    <2>4. CASE b # c
        BY <1>12, <2>2, <2>4 DEF With
    <2> QED BY <2>3, <2>4
<1>15. keys' \in Seq(Entries) /\ Listed'
    BY <1>1, <1>4, RemoveKeyKeeps DEF Unlinked
<1>16. Sound(paths, lens)'
    BY <1>13, <1>14, <1>15 DEF Sound
<1>17. TypeOK'
    <2>1. size' \in 0..Cardinality(Keys)
        BY <1>15, <1>16, FewKeysNext DEF Listed
    <2>2. next[e] \in Pointers
        BY <1>4 DEF TypeOK
    <2>3. buckets' \in [Buckets -> Pointers] /\ next' \in [Entries -> Pointers]
        BY <2>2 DEF TypeOK, Unlinked
    <2>4. /\ key' \in [Entries -> Keys \cup {NULL}]
          /\ value' \in [Entries -> Values \cup {NULL}]
          /\ unused' \subseteq Entries
        BY <1>4 DEF TypeOK, Unlinked
    <2> QED BY <1>15, <2>1, <2>3, <2>4 DEF TypeOK
<1>18. Intact'
    BY <1>13, ChainedIntactNext
<1> QED BY <1>16, <1>17, <1>18, Zenon DEF IInv

(***************************************************************************)
(* Some allocated entry lies between two others of its chain.              *)
(***************************************************************************)
Between(e, b) ==
    /\ e \in Chain(b) /\ e # buckets[b] /\ next[e] # NULL

(***************************************************************************)
(* hash_map_delete of the first or the last entry of a chain unlinks it;   *)
(* of another one, the entries after it stay in the chain and are freed.   *)
(***************************************************************************)
LEMMA DeleteKeeps ==
    ASSUME TypeOK, NEW path, NEW len, Sound(path, len), NEW k \in Keys,
           HashMapDelete(k)
    PROVE  /\ IInv'
           /\ Intact' \/ \E e \in Holding(k) : Between(e, Hash[k])
<1> DEFINE c == Hash[k]
           p == path[c]
           n == len[c]
<1>1. c \in Buckets
    BY MapAssumption
<1>2. PICK e \in Holding(k) : /\ DeleteFirst(k, e) \/ DeleteLater(k, e)
                              /\ RemoveKey(e)
                              /\ size' = size - 1
    BY DEF HashMapDelete
<1>3. Chained(path, len) /\ Covered(path, len) /\ Listed
    BY DEF Sound
<1>4. IsPath(p, n, c) /\ Follows(p, n, c)
    BY <1>1, <1>3, WalksFollow DEF Chained
<1>5. e \in Chain(c)
    BY <1>2 DEF Holding
<1>6. PICK i \in 1..n : p[i] = e
    <2> HIDE DEF p, n, c
    <2> QED BY <1>4, <1>5 DEF Follows
<1>7. /\ n \in Nat /\ i \in 1..n /\ n <= Cardinality(Entries)
      /\ \A j \in 1..n : /\ p[j] \in Entries \ unused /\ p[j] # NULL
                         /\ next[p[j]] = IF j = n THEN NULL ELSE p[j + 1]
                         /\ \A h \in 1..n : p[j] = p[h] => j = h
      /\ buckets[c] = p[1]
      /\ Following(e) = {p[j] : j \in i..n}
      /\ Chain(c) = {p[j] : j \in 1..n}
    <2>1. n \in Nat /\ i \in 1..n
        BY <1>4 DEF IsPath
    <2> HIDE DEF p, n, c
    <2>2. n <= Cardinality(Entries)
        BY <1>4, <2>1, MapAssumption, FS_CardinalityType DEF Follows
    <2>3. \A j \in 1..n : p[j] \in Entries \ unused /\ p[j] # NULL
        BY <1>4 DEF IsPath, Leads
    <2>4. \A j \in 1..n : next[p[j]] = IF j = n THEN NULL ELSE p[j + 1]
        BY <1>4 DEF IsPath, Leads
    <2>5. \A j, h \in 1..n : p[j] = p[h] => j = h
        BY <1>4 DEF IsPath
    <2>6. buckets[c] = p[1]
        BY <1>4, <2>1 DEF IsPath, Leads
    <2>7. Following(e) = {p[j] : j \in i..n} /\ Chain(c) = {p[j] : j \in 1..n}
        BY <1>4, <1>6 DEF Follows
    <2> QED BY <2>1, <2>2, <2>3, <2>4, <2>5, <2>6, <2>7
<1> HIDE DEF p, n, c
<1>8. CASE i = 1
    <2>1. DeleteFirst(k, e)
        <3> SUFFICES ASSUME DeleteLater(k, e) PROVE FALSE
            BY <1>2
        <3>1. PICK before \in Chain(c) : next[before] = e
            BY DEF DeleteLater, c
        <3>2. PICK j \in 1..n : before = p[j]
            BY <1>7, <3>1
        <3>3. j # n /\ j + 1 \in 1..n /\ p[j + 1] = p[1]
            BY <1>6, <1>7, <1>8, <3>1, <3>2
        <3> QED BY <1>7, <1>8, <3>2, <3>3
    <2>2. next[e] \in Pointers /\ e \in Entries
        BY <1>6, <1>7 DEF TypeOK
    <2>3. Unlinked(p, n, c, i, e)
        BY <1>2, <1>8, <2>1, <2>2 DEF DeleteFirst, DestroyEntries, Unlinked, c, TypeOK, Pointers
    <2> QED BY <1>1, <1>6, <1>7, <2>3, UnlinkKeeps DEF p, n
<1>9. CASE i # 1
    <2>1. buckets[c] # e
        BY <1>6, <1>7, <1>9
    <2>2. DeleteLater(k, e)
        BY <1>2, <2>1 DEF DeleteFirst, c
    <2>3. i - 1 \in 1..n /\ (i - 1) + 1 = i
        BY <1>7, <1>9
    <2>4. /\ unused' = unused \cup Following(e)
          /\ key' = [d \in Entries |-> IF d \in Following(e) THEN NULL ELSE key[d]]
          /\ value' = [d \in Entries |-> IF d \in Following(e) THEN NULL ELSE value[d]]
          /\ buckets' = buckets
          /\ next' = [d \in Entries |->
                        IF d = p[i - 1] THEN next[e]
                        ELSE IF d \in Following(e) THEN NULL ELSE next[d]]
        <3>1. PICK before \in Chain(c) :
                 /\ next[before] = e
                 /\ next' = [d \in Entries |->
                               IF d = before THEN next[e]
                               ELSE IF d \in Following(e) THEN NULL ELSE next[d]]
            BY <2>2 DEF DeleteLater, c
        <3>2. PICK j \in 1..n : before = p[j]
            BY <1>7, <3>1
        <3>3. j # n /\ j + 1 \in 1..n /\ p[j + 1] = p[i]
            BY <1>6, <1>7, <3>1, <3>2
        <3>4. j + 1 = i
            BY <1>7, <3>3
        <3>5. j = i - 1
            BY <3>4
        <3> QED BY <2>2, <3>1, <3>2, <3>5 DEF DeleteLater, DestroyEntries
    <2>5. CASE i = n
        <3>1. Following(e) = {e}
            BY <1>6, <1>7, <2>5
        <3>2. next' \in [Entries -> Pointers]
            BY <1>6, <1>7, <2>4 DEF TypeOK, Pointers
        <3>3. \A d \in Entries \ {e} :
                 next'[d] = IF i > 1 /\ d = p[i - 1] THEN next[e] ELSE next[d]
            BY <1>7, <1>9, <2>4, <3>1
        <3>4. Unlinked(p, n, c, i, e)
            BY <1>2, <1>9, <2>4, <3>1, <3>2, <3>3 DEF Unlinked
        <3> QED BY <1>1, <1>6, <1>7, <3>4, UnlinkKeeps DEF p, n
    <2>6. CASE i # n
        <3>1. i + 1 \in 1..n /\ p[i + 1] \in Following(e) /\ next[e] = p[i + 1]
            BY <1>6, <1>7, <2>6
        <3>2. Between(e, c)
            BY <1>5, <1>7, <2>1, <3>1 DEF Between
        <3>3. ~ Intact'
            <4>1. PICK r : r = [j \in 1..i |-> IF j < i THEN p[j] ELSE p[i + 1]]
                OBVIOUS
            <4>2. \A j \in 1..(i - 1) : j \in 1..n /\ p[j] \notin Following(e)
                BY <1>7
            <4>3. \A j \in 1..(i - 1) : j \in 1..i /\ r[j] = p[j]
                BY <1>7, <4>1
            <4>4. r[i] = p[i + 1]
                BY <1>7, <4>1
            <4>5. Leads(r, i, buckets'[c], next', NULL)
                <5>1. \A j \in 1..i : r[j] # NULL
                    BY <1>7, <3>1, <4>1
                <5>2. buckets'[c] = r[1]
                    BY <1>7, <1>9, <2>3, <2>4, <4>3
                <5>3. ASSUME NEW j \in 1..i
                      PROVE  next'[r[j]] = IF j = i THEN NULL ELSE r[j + 1]
                    <6>1. CASE j = i
                        <7>1. p[i + 1] # p[i - 1] /\ p[i + 1] \in Entries
                            BY <1>7, <2>3, <3>1
                        <7> QED BY <2>4, <3>1, <4>4, <6>1, <7>1
                    <6>2. CASE j = i - 1
                        <7>1. r[j] = p[i - 1] /\ p[i - 1] \in Entries /\ j # i /\ j + 1 = i
                            BY <1>7, <2>3, <4>3, <6>2
                        <7>2. next'[r[j]] = p[i + 1]
                            BY <2>4, <3>1, <7>1
                        <7> QED BY <4>4, <7>1, <7>2
                    <6>3. CASE j < i - 1
                        <7>1. /\ j \in 1..(i - 1) /\ j + 1 \in 1..(i - 1)
                              /\ j # i - 1 /\ j # n /\ j # i
                            BY <1>7, <6>3
                        <7>2. r[j] = p[j] /\ r[j + 1] = p[j + 1]
                            BY <4>3, <7>1
                        <7>3. p[j] # p[i - 1] /\ p[j] \in Entries
                            BY <1>7, <2>3, <4>2, <7>1
                        <7>4. next'[p[j]] = next[p[j]]
                            BY <2>4, <4>2, <7>1, <7>3
                        <7>5. next[p[j]] = p[j + 1]
                            BY <1>7, <4>2, <7>1
                        <7> QED BY <7>1, <7>2, <7>4, <7>5
                    <6> QED BY <1>7, <6>1, <6>2, <6>3
                <5> QED BY <1>7, <5>1, <5>2, <5>3 DEF Leads
            <4>6. p[i + 1] \in Chain(c)'
                <5> DEFINE length == Cardinality(Entries) + 1
                <5>1. length \in Nat /\ i \in 0..length
                    BY <1>7, MapAssumption, FS_CardinalityType
                <5>2. PICK first, link : first = buckets'[c] /\ link = next'
                    OBVIOUS
                <5>3. PICK walk : walk = Walk(first, link, NULL, length)
                    OBVIOUS
                <5>7. From(buckets[c])' = walk
                    BY <5>2, <5>3 DEF From, Walk
                <5>8. Leads(r, i, first, link, NULL)
                    BY <4>5, <5>2
                <5> HIDE DEF length
                <5>4. {walk[j] : j \in DOMAIN walk} \ {NULL} = {r[j] : j \in 1..i}
                    BY <5>1, <5>3, <5>8, WalkMeets
                <5>5. Chain(c)' = {r[j] : j \in 1..i}
                    BY <5>4, <5>7 DEF Chain, Following
                <5>6. i \in 1..i
                    BY <1>7
                <5> QED BY <4>4, <5>5, <5>6
            <4>7. p[i + 1] \in unused'
                BY <2>4, <3>1
            <4> QED BY <1>1, <4>6, <4>7 DEF Intact
        <3>4. TypeOK'
            <4>1. unused' \subseteq Entries
                <5>1. Following(e) \subseteq {p[j] : j \in 1..n}
                    BY <1>7
                <5>2. {p[j] : j \in 1..n} \subseteq Entries
                    BY <1>7
                <5> QED BY <2>4, <5>1, <5>2 DEF TypeOK
            <4>2. /\ key' \in [Entries -> Keys \cup {NULL}]
                  /\ value' \in [Entries -> Values \cup {NULL}]
                BY <2>4 DEF TypeOK
            <4>3. buckets' \in [Buckets -> Pointers] /\ next' \in [Entries -> Pointers]
                BY <1>6, <1>7, <2>4 DEF TypeOK, Pointers
            <4>4. keys' \in Seq(Entries) /\ size' \in 0..Cardinality(Keys)
                <5>1. PICK j \in 1..Len(keys) : keys' = Seqs!RemoveAt(keys, j)
                    BY <1>2 DEF RemoveKey
                <5>2. keys \in Seq(Entries) /\ Len(keys) \in Nat
                    BY DEF TypeOK
                <5>3. keys' = [h \in 1..(Len(keys) - 1) |->
                                 IF h < j THEN keys[h] ELSE keys[h + 1]]
                    BY <5>1, <5>2, WithoutOne DEF Seqs!RemoveAt
                <5>4. keys' \in [1..(Len(keys) - 1) -> Entries] /\ Len(keys) - 1 \in Nat
                    BY <5>2, <5>3
                <5>5. keys' \in Seq(Entries)
                    BY <5>4
                <5>6. size = Len(keys) /\ Len(keys) >= 1 /\ size' = size - 1
                    BY <1>2, <1>3, <5>1, <5>2 DEF Listed
                <5>7. Cardinality(Keys) \in Nat
                    BY MapAssumption, FS_CardinalityType
                <5> QED BY <5>5, <5>6, <5>7 DEF TypeOK
            <4> QED BY <4>1, <4>2, <4>3, <4>4 DEF TypeOK
        <3>5. IInv'
            BY <3>3, <3>4 DEF IInv
        <3> QED BY <1>2, <3>2, <3>5 DEF c
    <2> QED BY <2>5, <2>6
<1> QED BY <1>8, <1>9

(***************************************************************************)
(* A map without entries has empty paths.                                  *)
(***************************************************************************)
LEMMA EmptySound ==
    (/\ buckets = [b \in Buckets |-> NULL] /\ unused = Entries
     /\ keys = <<>> /\ size = 0)
       => \E path, len : Sound(path, len)
<1> SUFFICES ASSUME buckets = [b \in Buckets |-> NULL], unused = Entries,
                    keys = <<>>, size = 0
             PROVE  \E path, len : Sound(path, len)
    OBVIOUS
<1>1. PICK path, len : path = [b \in Buckets |-> <<>>] /\ len = [b \in Buckets |-> 0]
    OBVIOUS
<1>2. ASSUME NEW b \in Buckets PROVE IsPath(path[b], len[b], b)
    <2>1. path[b] = <<>> /\ len[b] = 0 /\ buckets[b] = NULL
        BY <1>1
    <2>2. <<>> \in [1..0 -> Entries] /\ 1..0 = {}
        OBVIOUS
    <2> QED BY <2>1, <2>2 DEF IsPath, Leads
<1>3. Covered(path, len)
    BY DEF Covered
<1>4. Listed
    BY DEF Listed
<1>5. Sound(path, len)
    BY <1>2, <1>3, <1>4 DEF Sound, Chained
<1> QED BY <1>5, Zenon

LEMMA EmptySoundNext ==
    (/\ buckets' = [b \in Buckets |-> NULL] /\ unused' = Entries
     /\ keys' = <<>> /\ size' = 0)
       => \E path, len : Sound(path, len)'
<1>1. ((/\ buckets = [b \in Buckets |-> NULL] /\ unused = Entries
        /\ keys = <<>> /\ size = 0)
          => \E path, len : Sound(path, len))'
    BY EmptySound, PTL
<1> QED BY <1>1

(***************************************************************************)
(* destroy_hash_map frees every entry.                                     *)
(***************************************************************************)
LEMMA DestroyKeeps ==
    ASSUME TypeOK, NEW path, NEW len, Sound(path, len), DestroyHashMap
    PROVE  IInv' /\ Intact'
<1>1. Chained(path, len) /\ Covered(path, len)
    BY DEF Sound
<1>2. unused' = Entries
    <2>1. unused' = unused \cup UNION {Chain(b) : b \in Buckets}
        BY DEF DestroyHashMap, DestroyEntries
    <2>2. ASSUME NEW e \in Entries \ unused PROVE \E b \in Buckets : e \in Chain(b)
        <3>1. Hash[key[e]] \in Buckets /\ e \in Chain(Hash[key[e]])
            BY <1>1, AllocatedHold, MapAssumption
        <3> QED BY <3>1
    <2>3. ASSUME NEW b \in Buckets, NEW e \in Chain(b) PROVE e \in Entries
        <3> DEFINE p == path[b]
                   n == len[b]
        <3>1. IsPath(p, n, b) /\ Follows(p, n, b)
            BY <1>1, WalksFollow DEF Chained
        <3> HIDE DEF p, n
        <3> QED BY <3>1 DEF IsPath, Follows
    <2> QED BY <2>1, <2>2, <2>3 DEF TypeOK
<1>3. /\ buckets' = [b \in Buckets |-> NULL] /\ keys' = <<>> /\ size' = 0
      /\ next' = [d \in Entries |-> NULL]
      /\ key' \in [Entries -> Keys \cup {NULL}]
      /\ value' \in [Entries -> Values \cup {NULL}]
    BY DEF DestroyHashMap, DestroyEntries, TypeOK
<1>4. \E paths, lens : Sound(paths, lens)'
    BY <1>2, <1>3, EmptySoundNext
<1>5. Intact'
    BY <1>4, ChainedIntactNext, Zenon DEF Sound
<1>6. TypeOK'
    <2>1. 0 \in 0..Cardinality(Keys)
        BY MapAssumption, FS_CardinalityType
    <2> QED BY <1>2, <1>3, <2>1 DEF TypeOK, Pointers
<1> QED BY <1>4, <1>5, <1>6, Zenon DEF IInv

(***************************************************************************)
(* The invariant holds at first ...                                        *)
(***************************************************************************)
LEMMA InitIInv == Init => IInv /\ Intact
<1> SUFFICES ASSUME Init PROVE IInv /\ Intact
    OBVIOUS
<1>1. \E path, len : Sound(path, len)
    BY EmptySound DEF Init
<1>2. Intact
    BY <1>1, ChainedIntact, Zenon DEF Sound
<1>3. TypeOK
    <2>1. 0 \in 0..Cardinality(Keys)
        BY MapAssumption, FS_CardinalityType
    <2>2. /\ key \in [Entries -> Keys \cup {NULL}]
          /\ value \in [Entries -> Values \cup {NULL}]
          /\ next \in [Entries -> Pointers]
        BY DEF Init, Pointers
    <2> QED BY <2>1, <2>2 DEF Init, TypeOK, Pointers
<1> QED BY <1>1, <1>2, <1>3, Zenon DEF IInv

(***************************************************************************)
(* ... and after every step, which keeps the map intact unless it deletes  *)
(* an entry between two others.                                            *)
(***************************************************************************)
DeletesBetween ==
    \E k \in Keys : HashMapDelete(k) /\ \E e \in Holding(k) : Between(e, Hash[k])

LEMMA NextIInv ==
    IInv /\ [Next]_vars => IInv' /\ (Intact => Intact' \/ DeletesBetween)
<1> SUFFICES ASSUME IInv, [Next]_vars
             PROVE  IInv' /\ (Intact => Intact' \/ DeletesBetween)
    OBVIOUS
<1> TypeOK
    BY Zenon DEF IInv
<1> DEFINE Goal == IInv' /\ (Intact => Intact' \/ DeletesBetween)
<1>1. ASSUME UNCHANGED vars PROVE Goal
    <2>1. Intact' <=> Intact
        BY <1>1 DEF vars, entries, Intact, Chain, Following, From
    <2>2. TypeOK'
        BY <1>1 DEF vars, entries, TypeOK
    <2>3. ASSUME NEW path, NEW len, Sound(path, len) PROVE Sound(path, len)'
        <3>1. Chained(path, len)'
            BY <1>1, <2>3 DEF vars, entries, Sound, Chained, IsPath, Leads
        <3>2. Covered(path, len)' /\ Listed'
            BY <1>1, <2>3 DEF vars, entries, Sound, Covered, Listed
        <3> QED BY <3>1, <3>2 DEF Sound
    <2> QED BY <2>1, <2>2, <2>3, Zenon DEF IInv
<1>2. ASSUME Intact, NEW k \in Keys, NEW v \in Values, HashMapInsert(k, v) PROVE Goal
    <2>1. PICK path, len : Sound(path, len)
        BY <1>2, Zenon DEF IInv
    <2>2. IInv' /\ Intact'
        BY <1>2, <2>1, InsertKeeps
    <2> QED BY <2>2
<1>3. ASSUME Intact, NEW k \in Keys, HashMapDelete(k) PROVE Goal
    <2>1. PICK path, len : Sound(path, len)
        BY <1>3, Zenon DEF IInv
    <2>2. IInv' /\ (Intact' \/ \E e \in Holding(k) : Between(e, Hash[k]))
        BY <1>3, <2>1, DeleteKeeps
    <2> QED BY <1>3, <2>2 DEF DeletesBetween
<1>4. ASSUME Intact, DestroyHashMap PROVE Goal
    <2>1. PICK path, len : Sound(path, len)
        BY <1>4, Zenon DEF IInv
    <2>2. IInv' /\ Intact'
        BY <1>4, <2>1, DestroyKeeps
    <2> QED BY <2>2
<1> HIDE DEF Goal
<1>5. Goal
    BY <1>1, <1>2, <1>3, <1>4
       DEF Next, HashMapInsert, RefuseInsert, HashMapDelete, RefuseDelete, DestroyHashMap
<1> QED BY <1>5 DEF Goal

(***************************************************************************)
(* TypeOK holds in every state of the map, broken ones included.           *)
(***************************************************************************)
THEOREM MapTyped == Spec => []TypeOK
<1>1. IInv => TypeOK
    BY Zenon DEF IInv
<1> QED BY InitIInv, NextIInv, <1>1, PTL DEF Spec

(***************************************************************************)
(* As long as the map is intact, its chains are sound and the list of keys *)
(* says what they hold.                                                    *)
(***************************************************************************)
THEOREM IntactMapSound == Spec => [](Intact => ChainsSound /\ KeysListed)
BY InitIInv, NextIInv, IInvImplies, PTL DEF Spec

(***************************************************************************)
(* Only hash_map_delete of an entry between two others of its chain ends   *)
(* that: no insertion, refusal or destruction, and no other deletion.      *)
(***************************************************************************)
THEOREM OnlyDeleteBreaks == Spec => [][Intact => Intact' \/ DeletesBetween]_vars
BY InitIInv, NextIInv, PTL DEF Spec

-------------------------------------------------------------------------------
(***************************************************************************)
(* A map whose buckets hold two keys at most: no entry is between others.  *)
(***************************************************************************)
TwoKeysPerBucket ==
    \A k, l, m \in Keys : Hash[k] = Hash[l] /\ Hash[l] = Hash[m] => k = l \/ l = m \/ k = m

LEMMA NoneBetween ==
    ASSUME TwoKeysPerBucket, IInv, Intact, NEW k \in Keys, NEW e \in Holding(k),
           Between(e, Hash[k])
    PROVE  FALSE
<1>1. PICK path, len : Sound(path, len)
    BY Zenon DEF IInv
<1> DEFINE c == Hash[k]
           p == path[c]
           n == len[c]
<1>2. c \in Buckets
    BY MapAssumption
<1>3. IsPath(p, n, c) /\ Follows(p, n, c)
    BY <1>1, <1>2, WalksFollow DEF Chained, Sound
<1>4. e \in Chain(c) /\ e # buckets[c] /\ next[e] # NULL
    BY DEF Between
<1> HIDE DEF p, n, c
<1>5. PICK i \in 1..n : e = p[i]
    BY <1>3, <1>4 DEF Follows
<1>6. n \in Nat /\ i # 1 /\ i # n
    BY <1>3, <1>4, <1>5 DEF IsPath, Leads
<1>7. 1 \in 1..n /\ n \in 1..n /\ 1 # n
    BY <1>6
<1>8. key[p[1]] = key[p[i]] \/ key[p[i]] = key[p[n]] \/ key[p[1]] = key[p[n]]
    BY <1>3, <1>7 DEF IsPath, TwoKeysPerBucket
<1> QED BY <1>3, <1>6, <1>7, <1>8 DEF IsPath

(***************************************************************************)
(* Such a map is intact: what hashmap.h says of hash_map_delete is true.   *)
(***************************************************************************)
THEOREM ShortChainsIntact == ASSUME TwoKeysPerBucket PROVE Spec => []DeletesOneEntry
<1>1. IInv /\ Intact /\ [Next]_vars => IInv' /\ Intact'
    <2>1. IInv /\ Intact => ~ DeletesBetween
        BY NoneBetween DEF DeletesBetween
    <2> QED BY <2>1, NextIInv
<1> QED BY <1>1, InitIInv, PTL DEF Spec, DeletesOneEntry

(***************************************************************************)
(* Its chains end, and hold each key once, in the bucket of its hash.      *)
(***************************************************************************)
THEOREM ShortChainsSound == ASSUME TwoKeysPerBucket PROVE Spec => []ChainsSound
BY ShortChainsIntact, IntactMapSound, PTL DEF DeletesOneEntry

(***************************************************************************)
(* The list of keys and the size say what its buckets hold.                *)
(***************************************************************************)
THEOREM ShortChainsListed == ASSUME TwoKeysPerBucket PROVE Spec => []KeysListed
BY ShortChainsIntact, IntactMapSound, PTL DEF DeletesOneEntry

-------------------------------------------------------------------------------
(***************************************************************************)
(* The dictionary: the value of each key, and the keys in order.           *)
(***************************************************************************)
Binding == [k \in Present |-> Get(k)]
Order   == [j \in 1..Len(keys) |-> key[keys[j]]]

(***************************************************************************)
(* A lookup finds the one allocated entry of its key, and its value.       *)
(***************************************************************************)
LEMMA LookupsFind ==
    \A path, len : TypeOK /\ Sound(path, len) =>
        /\ \A k \in Keys : Contains(k) <=> \E e \in Entries \ unused : key[e] = k
        /\ \A e \in Entries \ unused : Holding(key[e]) = {e} /\ Get(key[e]) = value[e]
<1> SUFFICES ASSUME NEW path, NEW len, TypeOK, Sound(path, len)
             PROVE  /\ \A k \in Keys :
                          Contains(k) <=> \E e \in Entries \ unused : key[e] = k
                    /\ \A e \in Entries \ unused :
                          Holding(key[e]) = {e} /\ Get(key[e]) = value[e]
    OBVIOUS
<1>1. Chained(path, len) /\ Covered(path, len)
    BY DEF Sound
<1>2. \A e \in Entries \ unused :
         /\ key[e] \in Keys /\ e \in Chain(Hash[key[e]])
         /\ \A f \in Entries \ unused : key[f] = key[e] => f = e
    BY <1>1, AllocatedHold
<1>3. ASSUME NEW b \in Buckets
      PROVE  /\ IsPath(path[b], len[b], b)
             /\ Follows(path[b], len[b], b)
             /\ Chain(b) \subseteq Entries \ unused
    <2> DEFINE p == path[b]
               n == len[b]
    <2>1. IsPath(p, n, b) /\ Follows(p, n, b)
        BY <1>1, WalksFollow DEF Chained
    <2> HIDE DEF p, n
    <2>2. Chain(b) \subseteq Entries \ unused
        BY <2>1 DEF IsPath, Follows
    <2> QED BY <2>1, <2>2 DEF p, n
<1>4. ASSUME NEW k \in Keys
      PROVE  Contains(k) <=> \E e \in Entries \ unused : key[e] = k
    <2>1. Hash[k] \in Buckets
        BY MapAssumption
    <2> QED BY <1>2, <1>3, <2>1 DEF Contains, Holding
<1>5. ASSUME NEW e \in Entries \ unused
      PROVE  Holding(key[e]) = {e} /\ Get(key[e]) = value[e]
    <2> DEFINE k == key[e]
               b == Hash[k]
               p == path[b]
               n == len[b]
               chain == From(buckets[b])
               IsFirst(j) == /\ chain[j] \in Holding(k)
                             /\ \A i \in 1..(j - 1) : chain[i] \notin Holding(k)
               first == CHOOSE j \in DOMAIN chain : IsFirst(j)
    <2>1. b \in Buckets /\ e \in Chain(b)
        BY <1>2, MapAssumption
    <2>2. IsPath(p, n, b) /\ Follows(p, n, b)
        BY <1>3, <2>1
    <2>3. Holding(k) = {e}
        BY <1>2, <1>3, <2>1 DEF Holding
    <2>4. Get(k) = value[chain[first]]
        BY DEF Get
    <2> HIDE DEF p, n, b, k
    <2>5. PICK i \in 1..n : e = p[i]
        BY <2>1, <2>2 DEF Follows
    <2>6. Cardinality(Entries) \in Nat
        BY MapAssumption, FS_CardinalityType
    <2>7. /\ n \in 0..Cardinality(Entries)
          /\ DOMAIN chain = 1..(Cardinality(Entries) + 1)
          /\ \A j \in 1..n : chain[j] = p[j]
        BY <2>2, <2>6 DEF Follows
    <2>8. \A j \in 1..n : p[j] = e => j = i
        BY <2>2, <2>5 DEF IsPath
    <2>9. i \in DOMAIN chain /\ IsFirst(i)
        <3>1. i \in DOMAIN chain /\ chain[i] = e
            BY <2>5, <2>6, <2>7
        <3>2. \A j \in 1..(i - 1) : j \in 1..n /\ j # i
            BY <2>5, <2>7
        <3>3. \A j \in 1..(i - 1) : chain[j] # e
            BY <2>7, <2>8, <3>2
        <3> QED BY <2>3, <3>1, <3>3
    <2>10. IsFirst(first)
        <3> HIDE DEF IsFirst, chain
        <3> QED BY <2>9, Zenon
    <2> QED BY <2>3, <2>4, <2>10 DEF k
<1> QED BY <1>4, <1>5

(***************************************************************************)
(* So the binding is that of the allocated entries.                        *)
(***************************************************************************)
LEMMA BindingIs ==
    \A path, len : TypeOK /\ Sound(path, len) =>
        /\ Present = {key[e] : e \in Entries \ unused}
        /\ DOMAIN Binding = Present
        /\ \A e \in Entries \ unused : Binding[key[e]] = value[e]
        /\ Binding = [k \in Present |-> Binding[k]]
<1> SUFFICES ASSUME NEW path, NEW len, TypeOK, Sound(path, len)
             PROVE  /\ Present = {key[e] : e \in Entries \ unused}
                    /\ DOMAIN Binding = Present
                    /\ \A e \in Entries \ unused : Binding[key[e]] = value[e]
                    /\ Binding = [k \in Present |-> Binding[k]]
    OBVIOUS
<1>1. \A e \in Entries \ unused : key[e] \in Keys
    BY AllocatedHold DEF Sound
<1>2. /\ \A k \in Keys : Contains(k) <=> \E e \in Entries \ unused : key[e] = k
      /\ \A e \in Entries \ unused : Get(key[e]) = value[e]
    BY LookupsFind
<1>3. Present = {key[e] : e \in Entries \ unused}
    BY <1>1, <1>2 DEF Present
<1> QED BY <1>2, <1>3 DEF Binding

LEMMA BindingIsNext ==
    \A path, len : TypeOK' /\ Sound(path, len)' =>
        /\ Present' = {key'[e] : e \in Entries \ unused'}
        /\ DOMAIN Binding' = Present'
        /\ \A e \in Entries \ unused' : Binding'[key'[e]] = value'[e]
        /\ Binding' = [k \in Present' |-> Binding'[k]]
<1>1. (\A path, len : TypeOK /\ Sound(path, len) =>
        /\ Present = {key[e] : e \in Entries \ unused}
        /\ DOMAIN Binding = Present
        /\ \A e \in Entries \ unused : Binding[key[e]] = value[e]
        /\ Binding = [k \in Present |-> Binding[k]])'
    BY BindingIs, PTL
<1> QED BY <1>1

(***************************************************************************)
(* hash_map_insert binds its key, and puts it after the others.            *)
(***************************************************************************)
LEMMA InsertStep ==
    ASSUME IInv, Intact, IInv', Intact', NEW k \in Keys, NEW v \in Values,
           HashMapInsert(k, v)
    PROVE  Abstract!Insert(k, v)
<1>1. PICK path, len : Sound(path, len)
    BY Zenon DEF IInv
<1>2. PICK paths, lens : Sound(paths, lens)'
    BY Zenon DEF IInv
<1>3. TypeOK /\ TypeOK'
    BY Zenon DEF IInv
<1>4. PICK e \in unused :
         /\ unused' = unused \ {e}
         /\ key' = [key EXCEPT ![e] = k]
         /\ value' = [value EXCEPT ![e] = v]
         /\ keys' = Append(keys, e)
    BY DEF HashMapInsert
<1>5. /\ e \in Entries /\ ~ Contains(k)
      /\ Entries \ unused' = (Entries \ unused) \cup {e}
      /\ key'[e] = k /\ value'[e] = v
      /\ \A f \in Entries \ unused : key'[f] = key[f] /\ value'[f] = value[f]
    BY <1>3, <1>4 DEF HashMapInsert, TypeOK
<1>6. /\ Present = {key[f] : f \in Entries \ unused}
      /\ DOMAIN Binding = Present
      /\ \A f \in Entries \ unused : Binding[key[f]] = value[f]
    BY <1>1, <1>3, BindingIs
<1>7. /\ Present' = {key'[f] : f \in Entries \ unused'}
      /\ \A f \in Entries \ unused' : Binding'[key'[f]] = value'[f]
      /\ Binding' = [l \in Present' |-> Binding'[l]]
    BY <1>2, <1>3, BindingIsNext
<1>8. k \notin Present
    BY <1>5 DEF Present
<1>9. Present' = Present \cup {k}
    BY <1>5, <1>6, <1>7
<1>10. ASSUME NEW l \in Present \cup {k}
       PROVE  Binding'[l] = IF l = k THEN v ELSE Binding[l]
    <2>1. CASE l = k
        BY <1>5, <1>7, <2>1
    <2>2. CASE l # k
        <3>1. PICK f \in Entries \ unused : key[f] = l
            BY <1>6, <2>2
        <3> QED BY <1>5, <1>6, <1>7, <2>2, <3>1
    <2> QED BY <2>1, <2>2
<1>11. Binding' = [l \in Present \cup {k} |-> IF l = k THEN v ELSE Binding[l]]
    BY <1>7, <1>9, <1>10
<1>12. Order' = Append(Order, k)
    <2>1. /\ keys \in Seq(Entries) /\ Len(keys) \in Nat
          /\ \A j \in 1..Len(keys) : keys[j] \in Entries \ unused
        BY <1>1, <1>3 DEF TypeOK, Sound, Listed
    <2>2. /\ Len(keys') = Len(keys) + 1
          /\ \A j \in 1..Len(keys) : keys'[j] = keys[j]
          /\ keys'[Len(keys) + 1] = e
        BY <1>4, <1>5, <2>1, AppendProperties
    <2>3. \A f \in Entries \ unused : key[f] \in Keys
        BY <1>1, AllocatedHold DEF Sound
    <2>4. Order \in Seq(Keys) /\ Len(Order) = Len(keys)
        <3>1. Order \in [1..Len(keys) -> Keys]
            BY <2>1, <2>3 DEF Order
        <3> QED BY <2>1, <3>1
    <2> DEFINE r == Append(Order, k)
    <2>5. /\ r \in Seq(Keys) /\ Len(r) = Len(keys) + 1
          /\ \A j \in 1..Len(keys) : r[j] = Order[j]
          /\ r[Len(keys) + 1] = k
        BY <2>4, AppendProperties
    <2> HIDE DEF r
    <2>6. r = [j \in 1..(Len(keys) + 1) |-> r[j]]
        BY <2>5
    <2>7. ASSUME NEW j \in 1..(Len(keys) + 1) PROVE r[j] = key'[keys'[j]]
        <3>1. CASE j = Len(keys) + 1
            BY <1>5, <2>2, <2>5, <3>1
        <3>2. CASE j # Len(keys) + 1
            <4>1. j \in 1..Len(keys)
                BY <2>1, <3>2
            <4>2. r[j] = key[keys[j]]
                BY <2>5, <4>1 DEF Order
            <4> QED BY <1>5, <2>1, <2>2, <4>1, <4>2
        <3> QED BY <3>1, <3>2
    <2>8. Order' = [j \in 1..Len(keys') |-> key'[keys'[j]]]
        BY DEF Order
    <2> QED BY <2>2, <2>6, <2>7, <2>8 DEF r
<1> QED BY <1>6, <1>8, <1>11, <1>12 DEF Abstract!Insert, Binding, Order

(***************************************************************************)
(* hash_map_delete of an entry that is not between two others frees it and *)
(* no other one.                                                           *)
(***************************************************************************)
LEMMA DeleteFreesOne ==
    ASSUME TypeOK, NEW path, NEW len, Sound(path, len), NEW k \in Keys,
           HashMapDelete(k), \A e \in Holding(k) : ~ Between(e, Hash[k])
    PROVE  \E e \in Holding(k) :
              /\ unused' = unused \cup {e}
              /\ key' = [d \in Entries |-> IF d = e THEN NULL ELSE key[d]]
              /\ value' = [d \in Entries |-> IF d = e THEN NULL ELSE value[d]]
              /\ RemoveKey(e)
<1> DEFINE c == Hash[k]
           p == path[c]
           n == len[c]
<1>1. PICK e \in Holding(k) : (DeleteFirst(k, e) \/ DeleteLater(k, e)) /\ RemoveKey(e)
    BY DEF HashMapDelete
<1>2. c \in Buckets
    BY MapAssumption
<1>3. IsPath(p, n, c) /\ Follows(p, n, c)
    BY <1>2, WalksFollow DEF Chained, Sound
<1>4. e \in Chain(c) /\ (e = buckets[c] \/ next[e] = NULL)
    BY DEF Holding, Between
<1>5. ASSUME DeleteLater(k, e) PROVE Following(e) = {e}
    <2>1. PICK before \in Chain(c) : next[before] = e
        BY <1>5 DEF DeleteLater
    <2> HIDE DEF p, n, c
    <2>2. PICK i \in 1..n, j \in 1..n : e = p[i] /\ before = p[j]
        BY <1>3, <1>4, <2>1 DEF Follows
    <2>3. n \in Nat /\ i \in 1..n
        BY <1>3, <2>2 DEF IsPath
    <2>4. /\ \A h \in 1..n : /\ p[h] # NULL
                             /\ next[p[h]] = IF h = n THEN NULL ELSE p[h + 1]
          /\ buckets[c] = p[1]
        BY <1>3, <2>3 DEF IsPath, Leads
    <2>5. \A g, h \in 1..n : p[g] = p[h] => g = h
        BY <1>3 DEF IsPath
    <2>6. i # 1
        <3>1. j # n /\ p[j + 1] = p[i] /\ j + 1 \in 1..n
            BY <2>1, <2>2, <2>3, <2>4
        <3>2. i = j + 1
            BY <2>2, <2>5, <3>1
        <3> QED BY <2>3, <3>1, <3>2
    <2>7. e # buckets[c]
        <3>1. 1 \in 1..n
            BY <2>3
        <3> QED BY <2>2, <2>4, <2>5, <2>6, <3>1
    <2>8. i = n
        <3>1. i # n => i + 1 \in 1..n
            BY <2>3
        <3> QED BY <1>4, <2>2, <2>4, <2>7, <3>1
    <2>9. Following(p[i]) = {p[h] : h \in i..n} /\ i..n = {n}
        <3>1. Following(p[i]) = {p[h] : h \in i..n}
            BY <1>3 DEF Follows
        <3>2. i..n = {n}
            BY <2>3, <2>8
        <3> QED BY <3>1, <3>2
    <2> QED BY <2>2, <2>8, <2>9
<1> QED BY <1>1, <1>5 DEF DeleteFirst, DeleteLater, DestroyEntries

(***************************************************************************)
(* So it unbinds its key, and takes it off the keys.                       *)
(***************************************************************************)
LEMMA DeleteStep ==
    ASSUME TwoKeysPerBucket, IInv, Intact, IInv', Intact', NEW k \in Keys,
           HashMapDelete(k)
    PROVE  Abstract!Delete(k)
<1>1. PICK path, len : Sound(path, len)
    BY Zenon DEF IInv
<1>2. PICK paths, lens : Sound(paths, lens)'
    BY Zenon DEF IInv
<1>3. TypeOK /\ TypeOK'
    BY Zenon DEF IInv
<1>4. \A e \in Holding(k) : ~ Between(e, Hash[k])
    BY NoneBetween
<1>5. PICK e \in Holding(k) :
         /\ unused' = unused \cup {e}
         /\ key' = [d \in Entries |-> IF d = e THEN NULL ELSE key[d]]
         /\ value' = [d \in Entries |-> IF d = e THEN NULL ELSE value[d]]
         /\ RemoveKey(e)
    BY <1>1, <1>3, <1>4, DeleteFreesOne
<1>6. Contains(k) /\ key[e] = k
    BY <1>5 DEF Contains, Holding
<1>7. /\ \A f \in Entries \ unused :
            /\ key[f] \in Keys
            /\ \A g \in Entries \ unused : key[g] = key[f] => g = f
      /\ \A f \in Entries \ unused : Holding(key[f]) = {f}
      /\ Contains(k) <=> \E f \in Entries \ unused : key[f] = k
    BY <1>1, <1>3, AllocatedHold, LookupsFind DEF Sound
<1>8. e \in Entries \ unused
    <2>1. PICK f \in Entries \ unused : key[f] = k
        BY <1>6, <1>7
    <2>2. Holding(k) = {f}
        BY <1>7, <2>1
    <2> QED BY <1>5, <2>1, <2>2
<1>9. /\ Entries \ unused' = (Entries \ unused) \ {e}
      /\ \A f \in Entries \ unused' : key'[f] = key[f] /\ value'[f] = value[f]
    BY <1>5
<1>10. /\ Present = {key[f] : f \in Entries \ unused}
       /\ DOMAIN Binding = Present
       /\ \A f \in Entries \ unused : Binding[key[f]] = value[f]
    BY <1>1, <1>3, BindingIs
<1>11. /\ Present' = {key'[f] : f \in Entries \ unused'}
       /\ \A f \in Entries \ unused' : Binding'[key'[f]] = value'[f]
       /\ Binding' = [l \in Present' |-> Binding'[l]]
    BY <1>2, <1>3, BindingIsNext
<1>12. k \in Present
    BY <1>6 DEF Present
<1>13. Present' = Present \ {k}
    <2>1. \A l \in Present' : l \in Present \ {k}
        BY <1>6, <1>7, <1>8, <1>9, <1>10, <1>11
    <2>2. \A l \in Present \ {k} : l \in Present'
        BY <1>6, <1>9, <1>10, <1>11
    <2> QED BY <2>1, <2>2
<1>14. ASSUME NEW l \in Present \ {k} PROVE Binding'[l] = Binding[l]
    <2>1. PICK f \in Entries \ unused' : key'[f] = l
        BY <1>11, <1>13
    <2>2. Binding'[l] = value[f]
        BY <1>9, <1>11, <2>1
    <2>3. f \in Entries \ unused /\ key[f] = l
        BY <1>9, <2>1
    <2> QED BY <1>10, <2>2, <2>3
<1>15. Binding' = [l \in Present \ {k} |-> Binding[l]]
    BY <1>11, <1>13, <1>14
<1>16. \E j \in 1..Len(Order) : Order[j] = k /\ Order' = Abstract!Seqs!RemoveAt(Order, j)
    <2>1. PICK j \in 1..Len(keys) : keys[j] = e /\ keys' = Seqs!RemoveAt(keys, j)
        BY <1>5 DEF RemoveKey
    <2>2. /\ keys \in Seq(Entries) /\ Len(keys) \in Nat
          /\ \A h \in 1..Len(keys) : keys[h] \in Entries \ unused
          /\ \A h \in 1..Len(keys') : keys'[h] \in Entries \ unused'
        <3>1. keys \in Seq(Entries) /\ keys' \in Seq(Entries)
            BY <1>3 DEF TypeOK
        <3>2. Listed /\ Listed'
            BY <1>1, <1>2 DEF Sound
        <3>3. \A h \in 1..Len(keys) : keys[h] \in Entries \ unused
            BY <3>1, <3>2 DEF Listed
        <3>4. \A h \in 1..Len(keys') : keys'[h] \in Entries \ unused'
            BY <3>1, <3>2 DEF Listed
        <3> QED BY <3>1, <3>3, <3>4
    <2>3. keys' = [h \in 1..(Len(keys) - 1) |-> IF h < j THEN keys[h] ELSE keys[h + 1]]
        BY <2>1, <2>2, WithoutOne DEF Seqs!RemoveAt
    <2>4. Len(keys') = Len(keys) - 1
        BY <2>2, <2>3
    <2>5. Order \in Seq(Keys) /\ Len(Order) = Len(keys)
        <3>1. Order \in [1..Len(keys) -> Keys]
            BY <1>7, <2>2 DEF Order
        <3> QED BY <2>2, <3>1
    <2>6. Abstract!Seqs!RemoveAt(Order, j)
            = [h \in 1..(Len(keys) - 1) |-> IF h < j THEN Order[h] ELSE Order[h + 1]]
        BY <2>5, WithoutOne DEF Abstract!Seqs!RemoveAt
    <2>7. ASSUME NEW h \in 1..(Len(keys) - 1)
          PROVE  key'[keys'[h]] = IF h < j THEN Order[h] ELSE Order[h + 1]
        <3>1. h \in 1..Len(keys) /\ h + 1 \in 1..Len(keys)
            BY <2>2
        <3>2. key'[keys'[h]] = key[keys'[h]]
            BY <1>9, <2>2, <2>4
        <3>3. keys'[h] = IF h < j THEN keys[h] ELSE keys[h + 1]
            BY <2>3
        <3>4. Order[h] = key[keys[h]] /\ Order[h + 1] = key[keys[h + 1]]
            BY <3>1 DEF Order
        <3> QED BY <3>2, <3>3, <3>4
    <2>8. Order' = [h \in 1..Len(keys') |-> key'[keys'[h]]]
        BY DEF Order
    <2>9. Order' = Abstract!Seqs!RemoveAt(Order, j)
        BY <2>4, <2>6, <2>7, <2>8
    <2>10. Order[j] = k
        BY <1>6, <2>1 DEF Order
    <2> QED BY <2>1, <2>5, <2>9, <2>10
<1> QED BY <1>10, <1>12, <1>15, <1>16 DEF Abstract!Delete, Binding, Order

(***************************************************************************)
(* A map with no entries is the empty dictionary.                          *)
(***************************************************************************)
LEMMA EmptyDictionary ==
    ASSUME IInv, Intact, unused = Entries, keys = <<>>
    PROVE  Binding = <<>> /\ Order = <<>>
<1>1. PICK path, len : Sound(path, len)
    BY Zenon DEF IInv
<1>2. TypeOK
    BY Zenon DEF IInv
<1>3. Present = {}
    BY <1>1, <1>2, BindingIs
<1> QED BY <1>3 DEF Binding, Order

LEMMA EmptyDictionaryNext ==
    IInv' /\ Intact' /\ unused' = Entries /\ keys' = <<>>
        => Binding' = <<>> /\ Order' = <<>>
<1>1. IInv /\ Intact /\ unused = Entries /\ keys = <<>> => Binding = <<>> /\ Order = <<>>
    BY EmptyDictionary
<1>2. (IInv /\ Intact /\ unused = Entries /\ keys = <<>>
          => Binding = <<>> /\ Order = <<>>)'
    BY <1>1, PTL
<1> QED BY <1>2

LEMMA DestroyStep ==
    ASSUME IInv, Intact, IInv', Intact', DestroyHashMap
    PROVE  Abstract!Clear
<1>1. keys' = <<>>
    BY DEF DestroyHashMap
<1>2. unused' = Entries
    <2>1. PICK path, len : Sound(path, len)
        BY Zenon DEF IInv
    <2>2. TypeOK /\ TypeOK'
        BY Zenon DEF IInv
    <2>3. ASSUME NEW e \in Entries \ unused PROVE \E b \in Buckets : e \in Chain(b)
        <3>1. Hash[key[e]] \in Buckets /\ e \in Chain(Hash[key[e]])
            BY <2>1, AllocatedHold, MapAssumption DEF Sound
        <3> QED BY <3>1
    <2> QED BY <2>2, <2>3 DEF DestroyHashMap, DestroyEntries, TypeOK
<1> QED BY <1>1, <1>2, EmptyDictionaryNext DEF Abstract!Clear, Binding, Order

(***************************************************************************)
(* What changes nothing changes no binding.                                *)
(***************************************************************************)
LEMMA StutterStep == UNCHANGED vars => UNCHANGED Abstract!vars
<1> SUFFICES ASSUME UNCHANGED vars PROVE UNCHANGED Abstract!vars
    OBVIOUS
<1>1. UNCHANGED <<buckets, key, value, next, unused, keys, size>>
    BY DEF vars, entries
<1>2. Binding' = Binding
    BY <1>1 DEF Binding, Present, Contains, Holding, Get, Chain, Following, From
<1>3. Order' = Order
    BY <1>1 DEF Order
<1> QED BY <1>2, <1>3 DEF Abstract!vars, Binding, Order

(***************************************************************************)
(* A map whose buckets hold two keys at most is the dictionary hashmap.h   *)
(* promises: an insertion binds a key that was not there, a deletion       *)
(* unbinds that key alone, and the list of keys is in the order they came. *)
(***************************************************************************)
THEOREM ShortChainsDictionary == ASSUME TwoKeysPerBucket PROVE Spec => KeepsDictionary
<1>1. Init => Abstract!Init
    <2> SUFFICES ASSUME Init PROVE Abstract!Init
        OBVIOUS
    <2>1. Binding = <<>> /\ Order = <<>>
        BY InitIInv, EmptyDictionary DEF Init
    <2> QED BY <2>1 DEF Abstract!Init, Binding, Order
<1>2. IInv /\ Intact /\ [Next]_vars => IInv' /\ Intact'
    <2>1. IInv /\ Intact => ~ DeletesBetween
        BY NoneBetween DEF DeletesBetween
    <2> QED BY <2>1, NextIInv
<1>3. IInv /\ Intact /\ [Next]_vars => [Abstract!Next]_(Abstract!vars)
    <2> SUFFICES ASSUME IInv, Intact, [Next]_vars
                 PROVE  Abstract!Next \/ UNCHANGED Abstract!vars
        OBVIOUS
    <2> IInv' /\ Intact'
        BY <1>2
    <2>1. ASSUME NEW k \in Keys, NEW v \in Values, HashMapInsert(k, v)
          PROVE  Abstract!Next
        BY <2>1, InsertStep DEF Abstract!Next
    <2>2. ASSUME NEW k \in Keys, HashMapDelete(k) PROVE Abstract!Next
        BY <2>2, DeleteStep DEF Abstract!Next
    <2>3. ASSUME DestroyHashMap PROVE Abstract!Next
        BY <2>3, DestroyStep DEF Abstract!Next
    <2>4. ASSUME UNCHANGED vars PROVE UNCHANGED Abstract!vars
        BY <2>4, StutterStep
    <2> QED BY <2>1, <2>2, <2>3, <2>4 DEF Next, RefuseInsert, RefuseDelete
<1>4. Spec => [](IInv /\ Intact)
    BY <1>2, InitIInv, PTL DEF Spec
<1>5. Spec => [][Abstract!Next]_(Abstract!vars)
    BY <1>3, <1>4, PTL DEF Spec
<1> QED BY <1>1, <1>5, PTL DEF Spec, KeepsDictionary, Abstract!Spec
===============================================================================
