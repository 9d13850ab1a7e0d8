------------------------------ MODULE ChainFacts ------------------------------
(***************************************************************************)
(* Facts about chains of nodes linked by a pointer, for the proofs about   *)
(* linked_list.c and hashmap.c.  The nodes a walk along the pointers meets *)
(* are a recursive function in the models; here they are shown to be the   *)
(* nodes of any sequence that has the links, so that the proofs can speak  *)
(* of the sequence.  The least number principle stands in for induction.   *)
(***************************************************************************)
EXTENDS Integers, Sequences, TLAPS, WellFoundedInduction, SequenceTheorems

(***************************************************************************)
(* Every set of natural numbers that is not empty has a least element.     *)
(***************************************************************************)
LEMMA LeastNumber ==
    ASSUME NEW T, T \subseteq Nat, T # {}
    PROVE  \E n \in T : \A m \in T : n <= m
<1> DEFINE Less == OpToRel(<, Nat)
<1>1. IsWellFoundedOn(Less, Nat)
    BY NatLessThanWellFounded
<1>2. PICK n \in T : \A m \in T : <<m, n>> \notin Less
    <2> HIDE DEF Less
    <2> QED BY <1>1, WFMin, Zenon
<1>3. \A m \in T : n <= m
    <2> TAKE m \in T
    <2>1. m \in Nat /\ n \in Nat
        OBVIOUS
    <2>2. m < n => <<m, n>> \in Less
        BY <2>1 DEF OpToRel
    <2>3. ~ (m < n)
        <3> HIDE DEF Less
        <3> QED BY <1>2, <2>2
    <2> HIDE DEF Less
    <2> QED BY <2>1, <2>3
<1> QED BY <1>3

\* The nodes met from first along link, up to length of them.
Walk(first, link, null, length) ==
    LET at[k \in 1..length] ==
            IF k = 1 THEN first
            ELSE IF at[k - 1] = null THEN null ELSE link[at[k - 1]]
    IN  at

\* p lists the n nodes from first to the one whose link is null.
Leads(p, n, first, link, null) ==
    /\ \A k \in 1..n : p[k] # null
    /\ first = IF n = 0 THEN null ELSE p[1]
    /\ \A k \in 1..n : link[p[k]] = IF k = n THEN null ELSE p[k + 1]

(***************************************************************************)
(* A walk meets the nodes of the path and then null.                       *)
(***************************************************************************)
LEMMA WalkFollows ==
    ASSUME NEW length \in Nat, NEW n \in 0..length, NEW p, NEW first, NEW link,
           NEW null, Leads(p, n, first, link, null)
    PROVE  Walk(first, link, null, length)
             = [k \in 1..length |-> IF k <= n THEN p[k] ELSE null]
<1> DEFINE Step(f) == [k \in 1..length |->
                         IF k = 1 THEN first
                         ELSE IF f[k - 1] = null THEN null ELSE link[f[k - 1]]]
           path == [k \in 1..length |-> IF k <= n THEN p[k] ELSE null]
           walk == Walk(first, link, null, length)
<1>1. path = Step(path)
    <2> SUFFICES ASSUME NEW k \in 1..length PROVE path[k] = Step(path)[k]
        OBVIOUS
    <2>1. CASE k = 1
        BY <2>1 DEF Leads
    <2>2. CASE k # 1
        <3>1. k - 1 \in 1..length
            BY <2>2
        <3>2. CASE k - 1 <= n
            BY <2>2, <3>1, <3>2 DEF Leads
        <3>3. CASE k - 1 > n
            BY <2>2, <3>1, <3>3
        <3> QED BY <3>1, <3>2, <3>3
    <2> QED BY <2>1, <2>2
<1>2. walk = CHOOSE f : f = Step(f)
    BY DEF Walk
<1>3. walk = Step(walk)
    <2> HIDE DEF Step, path, walk
    <2> QED BY <1>1, <1>2, Zenon
<1>4. ASSUME NEW k \in 1..length, walk[k] # path[k] PROVE FALSE
    <2> DEFINE T == {j \in 1..length : walk[j] # path[j]}
    <2>1. T \subseteq Nat /\ T # {}
        BY <1>4
    <2>2. PICK j \in T : \A i \in T : j <= i
        <3> HIDE DEF T
        <3> QED BY <2>1, LeastNumber, Zenon
    <2>3. j # 1
        BY <1>1, <1>3
    <2>4. j - 1 \in 1..length /\ walk[j - 1] = path[j - 1]
        BY <2>2, <2>3
    <2>5. walk[j] = path[j]
        <3> HIDE DEF path, walk
        <3> QED BY <1>1, <1>3, <2>3, <2>4
    <2> QED BY <2>5
<1>5. walk = [k \in 1..length |-> walk[k]]
    BY <1>3
<1> QED BY <1>4, <1>5

(***************************************************************************)
(* The nodes a walk meets are those of the path.                           *)
(***************************************************************************)
LEMMA WalkMeets ==
    ASSUME NEW length \in Nat, NEW n \in 0..length, NEW p, NEW first, NEW link,
           NEW null, Leads(p, n, first, link, null), NEW walk,
           walk = Walk(first, link, null, length)
    PROVE  {walk[k] : k \in DOMAIN walk} \ {null} = {p[k] : k \in 1..n}
<1>1. walk = [k \in 1..length |-> IF k <= n THEN p[k] ELSE null]
    BY WalkFollows
<1>2. \A k \in 1..n : p[k] # null /\ k \in DOMAIN walk /\ walk[k] = p[k]
    BY <1>1 DEF Leads
<1>3. \A k \in DOMAIN walk : walk[k] # null => k \in 1..n /\ walk[k] = p[k]
    BY <1>1
<1> QED BY <1>2, <1>3

(***************************************************************************)
(* A sequence without its i-th element.                                    *)
(***************************************************************************)
LEMMA WithoutOne ==
    ASSUME NEW S, NEW c \in Seq(S), NEW i \in 1..Len(c)
    PROVE  SubSeq(c, 1, i - 1) \o SubSeq(c, i + 1, Len(c))
             = [k \in 1..(Len(c) - 1) |-> IF k < i THEN c[k] ELSE c[k + 1]]
<1> DEFINE front == SubSeq(c, 1, i - 1)
           back == SubSeq(c, i + 1, Len(c))
           all == front \o back
<1>1. Len(c) \in Nat
    OBVIOUS
<1>2. /\ front \in Seq(S) /\ Len(front) = i - 1
      /\ \A k \in 1..(i - 1) : front[k] = c[k]
    BY <1>1
<1>3. /\ back \in Seq(S) /\ Len(back) = Len(c) - i
      /\ \A k \in 1..(Len(c) - i) : back[k] = c[k + i]
    BY <1>1
<1> HIDE DEF front, back
<1>4. /\ all \in Seq(S) /\ Len(all) = Len(front) + Len(back)
      /\ \A k \in 1..(Len(front) + Len(back)) :
            all[k] = IF k <= Len(front) THEN front[k] ELSE back[k - Len(front)]
    BY <1>2, <1>3, ConcatProperties
<1> HIDE DEF all
<1>5. Len(all) = Len(c) - 1
    BY <1>1, <1>2, <1>3, <1>4
<1>6. ASSUME NEW k \in 1..(Len(c) - 1)
      PROVE  all[k] = IF k < i THEN c[k] ELSE c[k + 1]
    <2>1. all[k] = IF k <= i - 1 THEN front[k] ELSE back[k - (i - 1)]
        BY <1>1, <1>2, <1>3, <1>4
    <2>2. CASE k < i
        BY <1>1, <1>2, <2>1, <2>2
    <2>3. CASE k >= i
        <3>1. k - (i - 1) \in 1..(Len(c) - i) /\ (k - (i - 1)) + i = k + 1
            BY <1>1, <2>3
        <3> QED BY <1>1, <1>3, <2>1, <2>3, <3>1
    <2> QED BY <1>1, <2>2, <2>3
<1>7. all = [k \in 1..Len(all) |-> all[k]]
    BY <1>4
<1> QED BY <1>5, <1>6, <1>7 DEF all, front, back
===============================================================================
