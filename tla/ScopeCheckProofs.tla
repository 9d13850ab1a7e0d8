---------------------------- MODULE ScopeCheckProofs ----------------------------
(***************************************************************************)
(* Proofs about the scope checker of scope.c, for any names, headers and   *)
(* bounds of the walk.  The invariant says, of every node being visited,   *)
(* what may be around it, and of every binding in its table, under which   *)
(* kind of key it is, how many functions are around it, and that it is     *)
(* marked when it was captured.  Its parts take the tables and the nodes   *)
(* as parameters, so that the same lemmas speak of them before and after   *)
(* a step.                                                                 *)
(***************************************************************************)
EXTENDS ScopeCheck, ChainFacts, FiniteSetTheorems

(***************************************************************************)
(* A bounded set of natural numbers that is not empty has a greatest one.  *)
(***************************************************************************)
LEMMA GreatestNumber ==
    ASSUME NEW T, NEW n \in Nat, T \subseteq 0..n, T # {}
    PROVE  \E k \in T : \A m \in T : m <= k
<1> DEFINE U == {n - m : m \in T}
<1>1. U \subseteq Nat /\ U # {}
    <2>1. \A m \in T : n - m \in Nat
        OBVIOUS
    <2> QED BY <2>1
<1>2. PICK l \in U : \A u \in U : l <= u
    <2> HIDE DEF U
    <2> QED BY <1>1, LeastNumber, Zenon
<1>3. PICK k \in T : l = n - k
    OBVIOUS
<1>4. ASSUME NEW m \in T PROVE m <= k
    <2>1. n - m \in U /\ m \in 0..n /\ k \in 0..n
        OBVIOUS
    <2>2. n - k <= n - m
        BY <1>2, <1>3, <2>1
    <2> QED BY <2>1, <2>2
<1> QED BY <1>4

(***************************************************************************)
(* The search from the inside stops at the innermost table with the key.   *)
(***************************************************************************)
LEMMA NearestIs ==
    ASSUME NEW S, NEW chain \in Seq(S), NEW key, symbol_table_contains(chain, key)
    PROVE  /\ Nearest(chain, key) \in 1..Len(chain)
           /\ key \in DOMAIN chain[Nearest(chain, key)]
           /\ \A j \in 1..Len(chain) : key \in DOMAIN chain[j] => j <= Nearest(chain, key)
<1> DEFINE H == Holders(chain, key)
<1>1. Len(chain) \in Nat /\ DOMAIN chain = 1..Len(chain)
    OBVIOUS
<1>2. H \subseteq 0..Len(chain) /\ H # {}
    BY <1>1 DEF Holders, symbol_table_contains
<1>3. \E k \in H : \A j \in H : j <= k
    <2> HIDE DEF H
    <2> QED BY <1>1, <1>2, GreatestNumber, Zenon
<1>4. Nearest(chain, key) \in H /\ \A j \in H : j <= Nearest(chain, key)
    <2>1. Nearest(chain, key) = CHOOSE i \in H : \A j \in H : j <= i
        BY DEF Nearest
    <2> HIDE DEF H
    <2> QED BY <1>3, <2>1, Zenon
<1> QED BY <1>1, <1>4 DEF Holders

(***************************************************************************)
(* How many of the first i nodes of s are of these kinds.                  *)
(***************************************************************************)
Count(s, kinds, i) == Cardinality({j \in 1..i : s[j].kind \in kinds})

LEMMA CountSame ==
    ASSUME NEW s, NEW t, NEW i \in Nat, \A j \in 1..i : s[j].kind = t[j].kind, NEW kinds
    PROVE  Count(s, kinds, i) = Count(t, kinds, i)
<1>1. {j \in 1..i : s[j].kind \in kinds} = {j \in 1..i : t[j].kind \in kinds}
    OBVIOUS
<1> QED BY <1>1 DEF Count

LEMMA CountType ==
    ASSUME NEW s, NEW i \in Nat, NEW kinds
    PROVE  Count(s, kinds, i) \in 0..i
<1> DEFINE C == {j \in 1..i : s[j].kind \in kinds}
<1>1. IsFiniteSet(1..i) /\ Cardinality(1..i) = i
    BY FS_Interval
<1>2. C \in SUBSET (1..i)
    OBVIOUS
<1> HIDE DEF C
<1>3. IsFiniteSet(C) /\ Cardinality(C) <= i
    BY <1>1, <1>2, FS_Subset
<1>4. Cardinality(C) \in Nat
    BY <1>3, FS_CardinalityType
<1> QED BY <1>3, <1>4 DEF Count, C

LEMMA CountNext ==
    ASSUME NEW s, NEW i \in Nat, NEW kinds
    PROVE  Count(s, kinds, i + 1)
             = Count(s, kinds, i) + IF s[i + 1].kind \in kinds THEN 1 ELSE 0
<1> DEFINE C == {j \in 1..i : s[j].kind \in kinds}
           D == {j \in 1..(i + 1) : s[j].kind \in kinds}
<1>1. IsFiniteSet(1..i)
    BY FS_Interval
<1>2. C \in SUBSET (1..i) /\ i + 1 \notin C
    OBVIOUS
<1>3. CASE s[i + 1].kind \in kinds
    <2>1. D = C \cup {i + 1}
        BY <1>3
    <2> HIDE DEF C, D
    <2>2. IsFiniteSet(C)
        BY <1>1, <1>2, FS_Subset
    <2>3. Cardinality(C \cup {i + 1}) = Cardinality(C) + 1
        BY <1>2, <2>2, FS_AddElement
    <2> QED BY <1>3, <2>1, <2>3 DEF Count, C, D
<1>4. CASE s[i + 1].kind \notin kinds
    <2>1. D = C
        BY <1>4
    <2>2. Count(s, kinds, i) \in 0..i
        BY CountType
    <2> QED BY <1>4, <2>1, <2>2 DEF Count
<1> QED BY <1>3, <1>4

LEMMA CountGrows ==
    ASSUME NEW s, NEW i \in Nat, NEW k \in Nat, i <= k, NEW kinds
    PROVE  /\ Count(s, kinds, i) <= Count(s, kinds, k)
           /\ Count(s, kinds, i) = Count(s, kinds, k)
                <=> ~ \E j \in (i + 1)..k : s[j].kind \in kinds
<1> DEFINE C == {j \in 1..i : s[j].kind \in kinds}
           D == {j \in 1..k : s[j].kind \in kinds}
<1>1. IsFiniteSet(1..k)
    BY FS_Interval
<1>2. D \in SUBSET (1..k) /\ C \in SUBSET D
    OBVIOUS
<1>3. /\ Cardinality(C) <= Cardinality(D)
      /\ Cardinality(D) = Cardinality(C) => D = C
    <2> HIDE DEF C, D
    <2>1. IsFiniteSet(D)
        BY <1>1, <1>2, FS_Subset
    <2> QED BY <1>2, <2>1, FS_Subset
<1>4. D = C <=> ~ \E j \in (i + 1)..k : s[j].kind \in kinds
    OBVIOUS
<1> HIDE DEF C, D
<1> QED BY <1>3, <1>4 DEF Count, C, D

-------------------------------------------------------------------------------
(***************************************************************************)
(* The invariant: what a table of the chain holds ...                      *)
(***************************************************************************)
BlockKinds    == {"module", "block"}
FunctionKinds == {"module", "function"}

\* Labels hold variables and arrays of the depth in them, plain names the others.
Named(key, kind, depth) ==
    \/ \E x \in Names \cup {Main} : key = Plain(x) /\ kind \in {"function", "parameter"}
    \/ \E x \in Names :
          key = scope_generate_label(x, depth) /\ kind \in {"variable", "array"}

TableSound(t, i, s, marks) ==
    \A key \in DOMAIN t :
        /\ t[key] \in Infos
        /\ t[key].func_nesting_depth = Count(s, FunctionKinds, i)
        /\ Named(key, t[key].kind, Count(s, BlockKinds, i))
        /\ t[key].escaping = 1 <=> <<i, key>> \in marks

(***************************************************************************)
(* ... and what a node says: where it is, that a result means that every   *)
(* path returns, and that there is room for what it still has to visit.    *)
(***************************************************************************)
NodeSound(s, i) ==
    /\ s[i].kind = "program" <=> i = 1
    /\ s[i].kind = "module" <=> i = 2
    /\ s[i].kind = "block" => s[i - 1].kind \in {"function", "if", "while"}
    /\ s[i].kind = "function" =>
          /\ i < Len(s) => s[i].ends
          /\ s[i].was_in = 1 <=> Count(s, {"function"}, i - 1) > 0
    /\ s[i].kind \in {"block", "function"} /\ s[i].r = 1 => s[i].ends
    /\ s[i].pending # <<>> => i + 2 <= MaxScopes
    /\ s[i].more => i + 1 <= MaxScopes

Keys ==
    {Plain(x) : x \in Names \cup {Main}}
      \cup {scope_generate_label(x, d) : x \in Names, d \in Nat}
Tables == UNION {[D -> Infos] : D \in SUBSET Keys}

Shape ==
    /\ scope \in Seq(Tables) /\ node \in Seq(Nodes)
    /\ Len(node) = Len(scope) /\ Len(scope) \in 1..MaxScopes

Sound ==
    /\ \A i \in 1..Top : NodeSound(node, i)
    /\ \A i \in 1..Top : TableSound(scope[i], i, node, captured)
    /\ \A c \in captured : c[1] \in 1..Top /\ c[2] \in DOMAIN scope[c[1]]

Counters ==
    /\ nesting_depth = Count(node, BlockKinds, Top)
    /\ func_nesting_depth = Count(node, FunctionKinds, Top)
    /\ is_in_function \in {0, 1}
    /\ is_in_function = 1 <=> Count(node, {"function"}, Top) > 0

Others ==
    /\ main_def \in {0, 1}
    /\ errors \subseteq Messages
    /\ phase \in {"walk", "done", "crashed"}
    /\ steps \in 0..MaxSteps

IInv == Shape /\ Sound /\ Counters /\ Others

(***************************************************************************)
(* A table stays sound while the nodes it is under and its marks stay.     *)
(***************************************************************************)
LEMMA TableKept ==
    ASSUME NEW t, NEW i \in Nat, NEW s, NEW u, NEW marks, NEW marked,
           TableSound(t, i, s, marks), \A j \in 1..i : s[j].kind = u[j].kind,
           \A key : <<i, key>> \in marks <=> <<i, key>> \in marked
    PROVE  TableSound(t, i, u, marked)
<1>1. /\ Count(s, BlockKinds, i) = Count(u, BlockKinds, i)
      /\ Count(s, FunctionKinds, i) = Count(u, FunctionKinds, i)
    BY CountSame
<1> QED BY <1>1 DEF TableSound

(***************************************************************************)
(* What the invariant says of the types.                                   *)
(***************************************************************************)
LEMMA IInvTypes == IInv => TypeOK
<1> SUFFICES ASSUME IInv PROVE TypeOK
    OBVIOUS
<1>1. /\ scope \in Seq(Tables) /\ node \in Seq(Nodes)
      /\ Len(node) = Len(scope) /\ Len(scope) \in 1..MaxScopes
      /\ DOMAIN scope = 1..Top
    BY DEF IInv, Shape, Top
<1>2. \A i \in DOMAIN scope : \A key \in DOMAIN scope[i] : scope[i][key] \in Infos
    BY <1>1 DEF IInv, Sound, TableSound
<1>3. nesting_depth \in 0..MaxScopes /\ func_nesting_depth \in 0..MaxScopes
    <2>1. Top \in Nat /\ Top <= MaxScopes /\ MaxScopes \in Nat
        BY <1>1, ScopeAssumption DEF Top
    <2>2. \A kinds : Count(node, kinds, Top) \in 0..Top
        BY <2>1, CountType
    <2> QED BY <2>1, <2>2 DEF IInv, Counters
<1>4. \A c \in captured : c[1] \in DOMAIN scope /\ c[2] \in DOMAIN scope[c[1]]
    BY <1>1 DEF IInv, Sound
<1> QED BY <1>1, <1>2, <1>3, <1>4 DEF IInv, Counters, Others, TypeOK

(***************************************************************************)
(* Of the scopes that declare a name under labels, an outer one has no     *)
(* greater label, and the one with the greatest is found.                  *)
(***************************************************************************)
LEMMA IInvResolves == IInv => ResolvesLexically
<1> SUFFICES ASSUME IInv, NEW x \in Names, ~ HidesPlain(x)
             PROVE  /\ Known(x) <=> Declaring(x) # {}
                    /\ \A i \in Declaring(x) : i <= Nearest(scope, Resolve(x))
    BY DEF ResolvesLexically
<1>1. /\ scope \in Seq(Tables) /\ Top \in Nat /\ Top = Len(scope) /\ DOMAIN scope = 1..Top
      /\ nesting_depth = Count(node, BlockKinds, Top)
    BY DEF IInv, Shape, Counters, Top
<1> DEFINE depth(i) == Count(node, BlockKinds, i)
<1>2. \A i \in 1..Top : depth(i) \in Nat /\ depth(i) <= nesting_depth
    <2> TAKE i \in 1..Top
    <2>1. i \in Nat /\ i <= Top
        BY <1>1
    <2>2. depth(i) \in Nat
        BY <2>1, CountType
    <2>3. depth(i) <= depth(Top)
        BY <1>1, <2>1, CountGrows
    <2> QED BY <1>1, <2>2, <2>3
<1>3. \A i, j \in 1..Top : i <= j => depth(i) <= depth(j)
    <2> SUFFICES ASSUME NEW i \in 1..Top, NEW j \in 1..Top, i <= j
                 PROVE  depth(i) <= depth(j)
        OBVIOUS
    <2>1. i \in Nat /\ j \in Nat
        BY <1>1
    <2> QED BY <2>1, CountGrows
<1>4. \A i \in 1..Top : \A key \in DOMAIN scope[i] :
         \/ \E y \in Names \cup {Main} : key = Plain(y)
         \/ \E y \in Names : key = scope_generate_label(y, depth(i))
    BY DEF IInv, Sound, TableSound, Named
<1> HIDE DEF depth
<1>5. /\ \A y : Plain(y)[Len(Plain(y))] = y
      /\ \A y, d : scope_generate_label(y, d)[Len(scope_generate_label(y, d))] = y
      /\ \A y, z, d : Plain(y) # scope_generate_label(z, d)
      /\ \A y, z, d, e : scope_generate_label(y, d) = scope_generate_label(z, e) => d = e
    BY DEF Plain, scope_generate_label
<1> HIDE DEF Plain, scope_generate_label
<1>6. ASSUME NEW i \in Declaring(x)
      PROVE  /\ i \in 1..Top
             /\ Plain(x) \in DOMAIN scope[i]
                  \/ scope_generate_label(x, depth(i)) \in DOMAIN scope[i]
    <2>1. PICK key \in DOMAIN scope[i] : i \in 1..Top /\ key[Len(key)] = x
        BY <1>1 DEF Declaring
    <2>2. CASE \E y \in Names \cup {Main} : key = Plain(y)
        BY <1>5, <2>1, <2>2
    <2>3. CASE \E y \in Names : key = scope_generate_label(y, depth(i))
        BY <1>5, <2>1, <2>3
    <2> QED BY <1>4, <2>1, <2>2, <2>3
<1>7. ASSUME NEW i \in 1..Top, NEW d, scope_generate_label(x, d) \in DOMAIN scope[i]
      PROVE  d = depth(i) /\ d \in 0..nesting_depth /\ i \in Declaring(x)
    <2>1. d = depth(i)
        BY <1>4, <1>5, <1>7
    <2>2. i \in Declaring(x)
        BY <1>1, <1>5, <1>7 DEF Declaring
    <2>3. nesting_depth \in Nat
        BY <1>1, CountType
    <2> QED BY <1>2, <2>1, <2>2, <2>3
<1>8. ASSUME NEW i \in 1..Top, Plain(x) \in DOMAIN scope[i] PROVE i \in Declaring(x)
    BY <1>1, <1>5, <1>8 DEF Declaring
<1>9. \A key : symbol_table_contains(scope, key)
                 <=> \E i \in 1..Top : key \in DOMAIN scope[i]
    BY <1>1 DEF symbol_table_contains, Holders
<1>10. Depths(x) = {d \in 0..nesting_depth :
                      \E i \in 1..Top : scope_generate_label(x, d) \in DOMAIN scope[i]}
    BY <1>9 DEF Depths
<1>11. Known(x) <=> Declaring(x) # {}
    <2>1. ASSUME Known(x) PROVE Declaring(x) # {}
        BY <1>7, <1>8, <1>9, <1>10, <2>1 DEF Known
    <2>2. ASSUME NEW i \in Declaring(x) PROVE Known(x)
        <3>1. CASE Plain(x) \in DOMAIN scope[i]
            BY <1>6, <1>9, <3>1 DEF Known
        <3>2. CASE scope_generate_label(x, depth(i)) \in DOMAIN scope[i]
            BY <1>6, <1>7, <1>10, <3>2 DEF Known
        <3> QED BY <1>6, <3>1, <3>2
    <2> QED BY <2>1, <2>2
<1>12. ASSUME NEW i \in Declaring(x) PROVE i <= Nearest(scope, Resolve(x))
    <2>1. CASE symbol_table_contains(scope, Plain(x))
        <3>1. Resolve(x) = Plain(x)
            BY <2>1 DEF Resolve
        <3> DEFINE at == Nearest(scope, Plain(x))
        <3>2. /\ at \in 1..Top /\ Plain(x) \in DOMAIN scope[at]
              /\ \A j \in 1..Top : Plain(x) \in DOMAIN scope[j] => j <= at
            BY <1>1, <2>1, NearestIs
        <3> HIDE DEF at
        <3>3. CASE Plain(x) \in DOMAIN scope[i]
            BY <1>6, <3>1, <3>2, <3>3 DEF at
        <3>4. CASE scope_generate_label(x, depth(i)) \in DOMAIN scope[i]
            <4>1. depth(i) \in 0..nesting_depth
                BY <1>6, <1>7, <3>4
            <4>2. ~ (at < i)
                BY <1>1, <1>6, <3>2, <3>4, <4>1 DEF HidesPlain
            <4> QED BY <1>6, <3>1, <3>2, <4>2 DEF at
        <3> QED BY <1>6, <3>3, <3>4
    <2>2. CASE ~ symbol_table_contains(scope, Plain(x))
        <3> DEFINE IsGreatest(d) == \A e \in Depths(x) : e <= d
                   d == CHOOSE d \in Depths(x) : IsGreatest(d)
                   key == scope_generate_label(x, d)
        <3>1. Resolve(x) = key
            BY <2>2 DEF Resolve
        <3>2. depth(i) \in Depths(x) /\ scope_generate_label(x, depth(i)) \in DOMAIN scope[i]
            BY <1>6, <1>7, <1>9, <1>10, <2>2
        <3>3. \E e \in Depths(x) : IsGreatest(e)
            <4>1. Depths(x) \subseteq 0..nesting_depth /\ Depths(x) # {}
                BY <1>10, <3>2
            <4>2. nesting_depth \in Nat
                BY <1>1, CountType
            <4> QED BY <4>1, <4>2, GreatestNumber
        <3>4. d \in Depths(x) /\ IsGreatest(d)
            <4> HIDE DEF IsGreatest
            <4> QED BY <3>3, Zenon
        <3>5. depth(i) <= d
            BY <3>2, <3>4
        <3> HIDE DEF d
        <3>6. symbol_table_contains(scope, key)
            BY <1>9, <1>10, <3>4
        <3> DEFINE at == Nearest(scope, key)
        <3>7. /\ at \in 1..Top /\ key \in DOMAIN scope[at]
              /\ \A j \in 1..Top : key \in DOMAIN scope[j] => j <= at
            <4> HIDE DEF key
            <4> QED BY <1>1, <3>6, NearestIs
        <3>8. d = depth(at)
            BY <1>7, <3>7
        <3>9. ASSUME at < i PROVE FALSE
            <4>1. depth(at) <= depth(i)
                BY <1>3, <1>6, <3>7, <3>9
            <4>2. depth(i) = d
                BY <1>2, <1>6, <3>5, <3>7, <3>8, <4>1
            <4>3. i <= at
                BY <1>6, <3>2, <3>7, <4>2
            <4> QED BY <1>6, <3>7, <3>9, <4>3
        <3> QED BY <1>6, <3>1, <3>7, <3>9
    <2> QED BY <2>1, <2>2
<1> QED BY <1>11, <1>12

(***************************************************************************)
(* The counters and the marks are part of the invariant.                   *)
(***************************************************************************)
LEMMA IInvDepths == IInv => StaticDepths /\ EscapesMarked
<1> SUFFICES ASSUME IInv PROVE StaticDepths /\ EscapesMarked
    OBVIOUS
<1>1. scope \in Seq(Tables) /\ DOMAIN scope = 1..Top
    BY DEF IInv, Shape, Top
<1>2. \A kinds, i : Opened(kinds, i) = Count(node, kinds, i)
    BY DEF Opened, Count
<1>3. StaticDepths
    BY <1>1, <1>2 DEF IInv, Counters, Sound, TableSound, StaticDepths,
                      BlockKinds, FunctionKinds
<1>4. EscapesMarked
    BY <1>1 DEF IInv, Sound, TableSound, EscapesMarked
<1> QED BY <1>3, <1>4

(***************************************************************************)
(* The walk starts at the program, with an empty table.                    *)
(***************************************************************************)
LEMMA InitIInv == Init => IInv
<1> SUFFICES ASSUME Init PROVE IInv
    OBVIOUS
<1>1. /\ scope = << <<>> >> /\ node = <<Node("program")>> /\ captured = {}
      /\ Len(scope) = 1 /\ Len(node) = 1 /\ scope[1] = <<>> /\ node[1] = Node("program")
    BY DEF Init
<1>2. <<>> \in Tables
    <2>1. <<>> \in [{} -> Infos]
        OBVIOUS
    <2> QED BY <2>1 DEF Tables
<1>3. Node("program") \in Nodes
    BY DEF Node, Nodes
<1>4. Shape
    BY <1>1, <1>2, <1>3, ScopeAssumption DEF Shape
<1>5. \A kinds : Count(node, kinds, 1) = IF "program" \in kinds THEN 1 ELSE 0
    <2> TAKE kinds
    <2>1. Count(node, kinds, 0) = 0
        BY CountType
    <2>2. node[1].kind = "program"
        BY <1>1 DEF Node
    <2> QED BY <2>1, <2>2, CountNext
<1>6. Sound
    <2>1. NodeSound(node, 1)
        BY <1>1 DEF NodeSound, Node
    <2>2. TableSound(scope[1], 1, node, captured)
        BY <1>1 DEF TableSound
    <2> QED BY <1>1, <2>1, <2>2 DEF Sound, Top
<1>7. Counters
    BY <1>1, <1>5 DEF Init, Counters, Top, BlockKinds, FunctionKinds
<1>8. Others
    BY ScopeAssumption DEF Init, Others
<1> QED BY <1>4, <1>6, <1>7, <1>8 DEF IInv

-------------------------------------------------------------------------------
(***************************************************************************)
(* Inside of a module there is a depth of blocks and of functions.         *)
(***************************************************************************)
LEMMA BodyDepths ==
    ASSUME IInv, InBody
    PROVE  /\ Top \in 2..MaxScopes
           /\ nesting_depth \in 1..Top /\ func_nesting_depth \in 1..Top
           /\ node[Top].kind \in BlockKinds
<1>1. Top \in 1..MaxScopes /\ Top \in Nat /\ MaxScopes \in Nat
    BY ScopeAssumption DEF IInv, Shape, Top
<1>2. node[Top].kind \in BlockKinds
    BY DEF InBody, At, BlockKinds
<1>3. NodeSound(node, Top)
    BY <1>1 DEF IInv, Sound
<1>4. Top >= 2
    BY <1>1, <1>2, <1>3 DEF NodeSound, BlockKinds
<1>5. node[2].kind = "module"
    BY <1>1, <1>4 DEF IInv, Sound, NodeSound
<1>6. ASSUME NEW kinds, "module" \in kinds PROVE Count(node, kinds, Top) \in 1..Top
    <2>1. Count(node, kinds, 1) \in 0..1 /\ Count(node, kinds, Top) \in 0..Top
        BY <1>1, CountType
    <2>2. /\ Count(node, kinds, 1) <= Count(node, kinds, Top)
          /\ Count(node, kinds, 1) # Count(node, kinds, Top)
        <3>1. 2 \in (1 + 1)..Top /\ 1 <= Top
            BY <1>1, <1>4
        <3>2. \E j \in (1 + 1)..Top : node[j].kind \in kinds
            BY <1>5, <1>6, <3>1
        <3> QED BY <1>1, <3>1, <3>2, CountGrows
    <2> QED BY <1>1, <2>1, <2>2
<1>7. nesting_depth \in 1..Top /\ func_nesting_depth \in 1..Top
    BY <1>6 DEF IInv, Counters, BlockKinds, FunctionKinds
<1> QED BY <1>1, <1>2, <1>4, <1>7

(***************************************************************************)
(* A step that changes no table and no node.                               *)
(***************************************************************************)
LEMMA StayKeeps ==
    ASSUME Shape, Sound, Counters, UNCHANGED <<scope, node, captured>>,
           UNCHANGED <<nesting_depth, func_nesting_depth, is_in_function>>
    PROVE  Shape' /\ Sound' /\ Counters'
BY DEF Shape, Sound, Counters, Top

(***************************************************************************)
(* A return: the node being visited gets a result, and ends.               *)
(***************************************************************************)
LEMMA ReturnKeeps ==
    ASSUME IInv, Return
    PROVE  Shape' /\ Sound' /\ Counters'
<1>1. CASE node[Top].kind = "module"
    BY <1>1, StayKeeps DEF IInv, Return, counters
<1>2. CASE node[Top].kind # "module"
    <2> DEFINE n == [node[Top] EXCEPT !.r = 1, !.ends = TRUE]
    <2>1. Top \in 2..MaxScopes /\ Top \in Nat
        <3>1. InBody
            BY DEF Return
        <3> QED BY <3>1, BodyDepths, ScopeAssumption
    <2>2. /\ scope' = scope /\ captured' = captured /\ Top' = Top
          /\ node' = [node EXCEPT ![Top].r = 1, ![Top].ends = TRUE]
          /\ UNCHANGED <<nesting_depth, func_nesting_depth, is_in_function>>
        BY <1>2 DEF Return, counters, Top
    <2>3. node \in Seq(Nodes) /\ Len(node) = Top /\ node[Top] \in Nodes
        BY <2>1 DEF IInv, Shape, Top
    <2>4. n \in Nodes /\ n.kind = node[Top].kind /\ n.was_in = node[Top].was_in
          /\ n.pending = node[Top].pending /\ n.more = node[Top].more /\ n.ends
        BY <2>3 DEF Nodes
    <2>5. node' = [node EXCEPT ![Top] = n]
        BY <2>1, <2>2, <2>3
    <2> HIDE DEF n
    <2>6. /\ node' \in Seq(Nodes) /\ Len(node') = Top
          /\ \A i \in 1..Top : i # Top => node'[i] = node[i]
          /\ node'[Top] = n
        BY <2>1, <2>3, <2>4, <2>5
    <2>7. \A i \in 1..Top : node'[i].kind = node[i].kind
        BY <2>4, <2>6
    <2>8. \A i \in 0..Top : \A kinds : Count(node', kinds, i) = Count(node, kinds, i)
        <3> TAKE i \in 0..Top
        <3>1. i \in Nat /\ \A j \in 1..i : node'[j].kind = node[j].kind
            BY <2>1, <2>7
        <3> QED BY <3>1, CountSame
    <2>9. ASSUME NEW i \in 1..Top PROVE NodeSound(node', i)
        <3>1. NodeSound(node, i)
            BY DEF IInv, Sound
        <3>2. i # 1 => i - 1 \in 1..Top
            BY <2>1
        <3>3. Count(node', {"function"}, i - 1) = Count(node, {"function"}, i - 1)
            BY <2>1, <2>8
        <3>4. i = 1 => node[i].kind # "block"
            BY <3>1 DEF NodeSound
        <3> QED BY <2>3, <2>4, <2>6, <2>7, <3>1, <3>2, <3>3, <3>4 DEF NodeSound
    <2>10. ASSUME NEW i \in 1..Top PROVE TableSound(scope[i], i, node', captured)
        <3>1. TableSound(scope[i], i, node, captured)
            BY DEF IInv, Sound
        <3>2. i \in Nat /\ \A j \in 1..i : node[j].kind = node'[j].kind
            BY <2>1, <2>7
        <3> QED BY <3>1, <3>2, TableKept
    <2>11. Shape'
        BY <2>2, <2>6 DEF IInv, Shape, Top
    <2>12. Sound'
        BY <2>2, <2>9, <2>10 DEF IInv, Sound
    <2>13. Counters'
        <3>1. Top \in 0..Top
            BY <2>1
        <3> QED BY <2>2, <2>8, <3>1 DEF IInv, Counters
    <2> QED BY <2>11, <2>12, <2>13
<1> QED BY <1>1, <1>2

(***************************************************************************)
(* A declaration: the innermost table gets a binding that is not marked,   *)
(* or keeps the one it has.                                                *)
(***************************************************************************)
LEMMA InsertKeeps ==
    ASSUME IInv, InBody, NEW key \in Keys, NEW info \in Infos,
           info.func_nesting_depth = func_nesting_depth, info.escaping = 0,
           Named(key, info.kind, nesting_depth),
           scope' = symbol_table_insert(scope, key, info),
           UNCHANGED <<node, captured>>,
           UNCHANGED <<nesting_depth, func_nesting_depth, is_in_function>>
    PROVE  Shape' /\ Sound' /\ Counters'
<1>1. CASE key \in DOMAIN scope[Len(scope)]
    BY <1>1, StayKeeps DEF IInv, symbol_table_insert
<1>2. CASE key \notin DOMAIN scope[Len(scope)]
    <2> DEFINE t == Bind(scope[Top], key, info)
    <2>1. Top \in 2..MaxScopes /\ Top = Len(scope) /\ Top \in 1..Top
        BY BodyDepths DEF Top
    <2>2. scope \in Seq(Tables) /\ scope[Top] \in Tables
        BY <2>1 DEF IInv, Shape
    <2>3. scope' = [scope EXCEPT ![Top] = t]
        BY <1>2, <2>1 DEF symbol_table_insert
    <2>4. /\ t \in Tables /\ DOMAIN t = DOMAIN scope[Top] \cup {key}
          /\ t[key] = info
          /\ \A k \in DOMAIN scope[Top] : t[k] = scope[Top][k]
        <3>1. PICK D \in SUBSET Keys : scope[Top] \in [D -> Infos]
            BY <2>2 DEF Tables
        <3>2. t \in [D \cup {key} -> Infos] /\ D \cup {key} \in SUBSET Keys
            BY <3>1 DEF Bind
        <3>3. t \in Tables
            BY <3>2 DEF Tables
        <3> QED BY <1>2, <2>1, <3>1, <3>3 DEF Bind
    <2> HIDE DEF t
    <2>5. /\ scope' \in Seq(Tables) /\ Len(scope') = Top
          /\ \A i \in 1..Top : i # Top => scope'[i] = scope[i]
          /\ scope'[Top] = t
        BY <2>1, <2>2, <2>3, <2>4
    <2>6. Top' = Top
        BY <2>5 DEF Top
    <2>7. TableSound(scope[Top], Top, node, captured)
        BY <2>1 DEF IInv, Sound
    <2>8. <<Top, key>> \notin captured
        <3>1. \A c \in captured : c[2] \in DOMAIN scope[c[1]]
            BY DEF IInv, Sound
        <3> QED BY <1>2, <2>1, <3>1
    <2>9. TableSound(t, Top, node, captured)
        BY <2>4, <2>7, <2>8 DEF TableSound, IInv, Counters
    <2>10. \A i \in 1..Top : TableSound(scope'[i], i, node, captured)
        BY <2>5, <2>9 DEF IInv, Sound
    <2>11. \A c \in captured : c[1] \in 1..Top /\ c[2] \in DOMAIN scope'[c[1]]
        BY <2>4, <2>5 DEF IInv, Sound
    <2>12. Sound'
        BY <2>6, <2>10, <2>11 DEF IInv, Sound
    <2>13. Shape' /\ Counters'
        BY <2>1, <2>5, <2>6 DEF IInv, Shape, Counters
    <2> QED BY <2>12, <2>13
<1> QED BY <1>1, <1>2

LEMMA DeclareKeeps ==
    ASSUME IInv, NEW x \in Names, DeclareVariable(x) \/ DeclareArray(x)
    PROVE  Shape' /\ Sound' /\ Counters'
<1> DEFINE label == scope_generate_label(x, nesting_depth)
           info(kind) == create_var_info(kind, nesting_depth, func_nesting_depth, 0)
<1>1. InBody /\ UNCHANGED <<node, captured>>
      /\ UNCHANGED <<nesting_depth, func_nesting_depth, is_in_function>>
    BY DEF DeclareVariable, DeclareArray, counters
<1>2. \/ scope' = scope
      \/ \E kind \in {"variable", "array"} :
            scope' = symbol_table_insert(scope, label, info(kind))
    BY DEF DeclareVariable, DeclareArray
<1>3. nesting_depth \in 1..MaxScopes /\ func_nesting_depth \in 1..MaxScopes
      /\ nesting_depth \in Nat
    BY <1>1, BodyDepths, ScopeAssumption
<1>4. label \in Keys
    BY <1>3 DEF Keys
<1>5. ASSUME NEW kind \in {"variable", "array"}
      PROVE  /\ info(kind) \in Infos
             /\ info(kind).func_nesting_depth = func_nesting_depth
             /\ info(kind).escaping = 0
             /\ Named(label, info(kind).kind, nesting_depth)
    BY <1>3 DEF create_var_info, Infos, Named
<1>6. CASE scope' = scope
    BY <1>1, <1>6, StayKeeps DEF IInv
<1>7. ASSUME NEW kind \in {"variable", "array"},
             scope' = symbol_table_insert(scope, label, info(kind))
      PROVE  Shape' /\ Sound' /\ Counters'
    <2> HIDE DEF info, label
    <2> QED BY <1>1, <1>4, <1>5, <1>7, InsertKeeps DEF label
<1> QED BY <1>2, <1>6, <1>7

(***************************************************************************)
(* An identifier that is known is bound where the search stops.            *)
(***************************************************************************)
LEMMA ResolveBound ==
    ASSUME IInv, NEW x \in Names, Known(x)
    PROVE  LET key == Resolve(x)
               at  == Nearest(scope, key)
           IN  /\ key \in Keys
               /\ at \in 1..Top /\ key \in DOMAIN scope[at]
<1> DEFINE key == Resolve(x)
           at == Nearest(scope, key)
<1>1. scope \in Seq(Tables) /\ Top = Len(scope)
    BY DEF IInv, Shape, Top
<1>2. nesting_depth \in Nat
    <2>1. Top \in Nat
        BY <1>1
    <2> QED BY <2>1, CountType DEF IInv, Counters
<1>3. key \in Keys /\ symbol_table_contains(scope, key)
    <2>1. CASE symbol_table_contains(scope, Plain(x))
        BY <2>1 DEF Resolve, Keys
    <2>2. CASE ~ symbol_table_contains(scope, Plain(x))
        <3> DEFINE IsGreatest(d) == \A e \in Depths(x) : e <= d
                   d == CHOOSE d \in Depths(x) : IsGreatest(d)
        <3>1. key = scope_generate_label(x, d)
            BY <2>2 DEF Resolve
        <3>2. Depths(x) \subseteq 0..nesting_depth /\ Depths(x) # {}
            BY <2>2 DEF Known, Depths
        <3>3. \E e \in Depths(x) : IsGreatest(e)
            BY <1>2, <3>2, GreatestNumber
        <3>4. d \in Depths(x)
            <4> HIDE DEF IsGreatest
            <4> QED BY <3>3, Zenon
        <3> HIDE DEF d
        <3>5. symbol_table_contains(scope, scope_generate_label(x, d)) /\ d \in Nat
            BY <1>2, <3>4 DEF Depths
        <3> HIDE DEF key
        <3> QED BY <3>1, <3>5 DEF Keys
    <2> QED BY <2>1, <2>2
<1> HIDE DEF key
<1>4. at \in 1..Top /\ key \in DOMAIN scope[at]
    BY <1>1, <1>3, NearestIs
<1> QED BY <1>3, <1>4 DEF key

(***************************************************************************)
(* A use: the binding is marked and captured, or neither, since the depths *)
(* of functions differ when a function is opened between the two.          *)
(***************************************************************************)
LEMMA UseKeeps ==
    ASSUME IInv, NEW x \in Names, Use(x)
    PROVE  Shape' /\ Sound' /\ Counters'
<1> DEFINE key == Resolve(x)
           at == Nearest(scope, key)
           v == scope[at][key]
           inner == \E j \in (at + 1)..Top : node[j].kind = "function"
<1>1. InBody /\ Known(x) /\ UNCHANGED node
      /\ UNCHANGED <<nesting_depth, func_nesting_depth, is_in_function>>
    BY DEF Use, counters
<1>2. /\ scope' = IF (key # Plain(x) /\ v.kind = "function") \/ ~ Escapes(v) THEN scope
                  ELSE [scope EXCEPT ![at][key].escaping = 1]
      /\ captured' = IF inner THEN captured \cup {<<at, key>>} ELSE captured
    BY DEF Use
<1>3. /\ key \in Keys /\ at \in 1..Top /\ key \in DOMAIN scope[at]
    BY <1>1, ResolveBound
<1>4. key = Plain(x) \/ \E d : key = scope_generate_label(x, d)
    BY DEF Resolve
<1> HIDE DEF key, at
<1>5. /\ scope \in Seq(Tables) /\ Top = Len(scope) /\ Top \in Nat
      /\ scope[at] \in Tables
    BY <1>3 DEF IInv, Shape, Top
<1>6. TableSound(scope[at], at, node, captured)
    BY <1>3 DEF IInv, Sound
<1>7. /\ v \in Infos
      /\ v.func_nesting_depth = Count(node, FunctionKinds, at)
      /\ Named(key, v.kind, Count(node, BlockKinds, at))
      /\ v.escaping = 1 <=> <<at, key>> \in captured
    BY <1>3, <1>6 DEF TableSound
<1>8. ~ (key # Plain(x) /\ v.kind = "function")
    <2>1. CASE \E y \in Names \cup {Main} : key = Plain(y)
        BY <1>4, <2>1 DEF Plain, scope_generate_label
    <2>2. CASE v.kind \in {"variable", "array"}
        BY <2>2
    <2> QED BY <1>7, <2>1, <2>2 DEF Named
<1>9. Escapes(v) <=> inner
    <2>1. Escapes(v) <=> Count(node, FunctionKinds, at) # Count(node, FunctionKinds, Top)
        BY <1>7 DEF Escapes, IInv, Counters
    <2>2. at \in Nat /\ at <= Top
        BY <1>3, <1>5
    <2>3. Count(node, FunctionKinds, at) = Count(node, FunctionKinds, Top)
            <=> ~ \E j \in (at + 1)..Top : node[j].kind \in FunctionKinds
        BY <1>5, <2>2, CountGrows
    <2>4. at # 1
        <3>1. CASE at = 1
            <4>1. NodeSound(node, 1)
                BY <1>3, <3>1 DEF IInv, Sound
            <4>2. node[1].kind = "program"
                BY <4>1 DEF NodeSound
            <4>3. Count(node, FunctionKinds, 0 + 1) = Count(node, FunctionKinds, 0)
                BY <4>2, CountNext, CountType DEF FunctionKinds
            <4>4. Count(node, FunctionKinds, 0) = 0
                BY CountType
            <4>5. v.func_nesting_depth >= 1
                BY <1>7 DEF Infos
            <4> QED BY <1>7, <3>1, <4>3, <4>4, <4>5
        <3> QED BY <3>1
    <2>5. \A j \in (at + 1)..Top : node[j].kind \in FunctionKinds <=> node[j].kind = "function"
        <3> SUFFICES ASSUME NEW j \in (at + 1)..Top PROVE node[j].kind # "module"
            BY DEF FunctionKinds
        <3>1. j \in 1..Top /\ j # 2
            BY <1>3, <2>4
        <3> QED BY <3>1 DEF IInv, Sound, NodeSound
    <2> QED BY <2>1, <2>3, <2>5
<1> HIDE DEF inner
<1>10. CASE ~ inner
    BY <1>1, <1>2, <1>9, <1>10, StayKeeps DEF IInv
<1>11. CASE inner
    <2> DEFINE w == [v EXCEPT !.escaping = 1]
               t == [scope[at] EXCEPT ![key] = w]
    <2>1. scope' = [scope EXCEPT ![at] = t] /\ captured' = captured \cup {<<at, key>>}
        BY <1>2, <1>8, <1>9, <1>11
    <2>2. /\ w \in Infos /\ w.kind = v.kind /\ w.escaping = 1
          /\ w.func_nesting_depth = v.func_nesting_depth
        BY <1>7 DEF Infos
    <2> HIDE DEF v, w
    <2>3. /\ t \in Tables /\ DOMAIN t = DOMAIN scope[at] /\ t[key] = w
          /\ \A k \in DOMAIN scope[at] : k # key => t[k] = scope[at][k]
        <3>1. PICK D \in SUBSET Keys : scope[at] \in [D -> Infos]
            BY <1>5 DEF Tables
        <3>2. t \in [D -> Infos]
            BY <1>3, <2>2, <3>1
        <3>3. t \in Tables
            BY <3>2 DEF Tables
        <3> QED BY <1>3, <3>1, <3>3
    <2> HIDE DEF t
    <2>4. /\ scope' \in Seq(Tables) /\ Len(scope') = Top
          /\ \A i \in 1..Top : i # at => scope'[i] = scope[i]
          /\ scope'[at] = t
        BY <1>3, <1>5, <2>1, <2>3
    <2>5. Top' = Top
        BY <2>4 DEF Top
    <2>6. TableSound(t, at, node, captured')
        BY <1>6, <1>7, <2>1, <2>2, <2>3 DEF TableSound
    <2>7. ASSUME NEW i \in 1..Top, i # at PROVE TableSound(scope'[i], i, node, captured')
        <3>1. TableSound(scope[i], i, node, captured)
            BY DEF IInv, Sound
        <3>2. i \in Nat /\ \A k : <<i, k>> \in captured <=> <<i, k>> \in captured'
            BY <1>5, <2>1, <2>7
        <3>3. TableSound(scope[i], i, node, captured')
            BY <3>1, <3>2, TableKept
        <3> QED BY <2>4, <2>7, <3>3
    <2>8. \A c \in captured' : c[1] \in 1..Top /\ c[2] \in DOMAIN scope'[c[1]]
        BY <1>3, <2>1, <2>3, <2>4 DEF IInv, Sound
    <2>9. Sound'
        BY <1>1, <2>4, <2>5, <2>6, <2>7, <2>8 DEF IInv, Sound
    <2>10. Shape' /\ Counters'
        BY <1>1, <1>5, <2>4, <2>5 DEF IInv, Shape, Counters
    <2> QED BY <2>9, <2>10
<1> QED BY <1>10, <1>11

-------------------------------------------------------------------------------
(***************************************************************************)
(* What a step may not change in a node that is still being visited.       *)
(***************************************************************************)
Alike(m, n) ==
    /\ n.kind = m.kind /\ n.was_in = m.was_in
    /\ n.pending # <<>> => m.pending # <<>>
    /\ n.more => m.more

(***************************************************************************)
(* A new node and its table go on top of those being visited.              *)
(***************************************************************************)
LEMMA PushKeeps ==
    ASSUME Shape, Sound, node[Top].kind # "function",
           NEW m \in {Top + 1, Top + 2}, m <= MaxScopes,
           scope' \in Seq(Tables), Len(scope') = m,
           node' \in Seq(Nodes), Len(node') = m, captured' = captured,
           \A i \in 1..Top : /\ scope'[i] = scope[i] /\ Alike(node[i], node'[i])
                             /\ node'[i].r = node[i].r /\ node'[i].ends = node[i].ends,
           \A i \in (Top + 1)..m : NodeSound(node', i) /\ TableSound(scope'[i], i, node', {})
    PROVE  Shape' /\ Sound'
<1>1. Top \in Nat /\ Top >= 1 /\ Top' = m /\ Len(node) = Top
    BY DEF Shape, Top
<1>2. \A i \in 0..Top : \A kinds : Count(node', kinds, i) = Count(node, kinds, i)
    <2> TAKE i \in 0..Top
    <2>1. i \in Nat /\ \A j \in 1..i : node'[j].kind = node[j].kind
        BY <1>1 DEF Alike
    <2> QED BY <2>1, CountSame
<1>3. ASSUME NEW i \in 1..Top PROVE NodeSound(node', i)
    <2>1. NodeSound(node, i) /\ Alike(node[i], node'[i])
        BY DEF Sound
    <2>2. node'[i].r = node[i].r /\ node'[i].ends = node[i].ends
        OBVIOUS
    <2>3. i # 1 => node'[i - 1].kind = node[i - 1].kind
        BY <1>1 DEF Alike
    <2>4. i = 1 => node[i].kind # "block"
        BY <2>1 DEF NodeSound
    <2>5. Count(node', {"function"}, i - 1) = Count(node, {"function"}, i - 1)
        BY <1>1, <1>2
    <2>6. node'[i].kind = "function" => i < Len(node)
        BY <1>1, <2>1 DEF Alike
    <2> QED BY <2>1, <2>2, <2>3, <2>4, <2>5, <2>6 DEF NodeSound, Alike
<1>4. ASSUME NEW i \in 1..Top PROVE TableSound(scope'[i], i, node', captured)
    <2>1. TableSound(scope[i], i, node, captured)
        BY DEF Sound
    <2>2. i \in Nat /\ \A j \in 1..i : node[j].kind = node'[j].kind
        BY <1>1 DEF Alike
    <2>3. TableSound(scope[i], i, node', captured)
        BY <2>1, <2>2, TableKept
    <2> QED BY <2>3
<1>5. ASSUME NEW i \in (Top + 1)..m PROVE TableSound(scope'[i], i, node', captured)
    <2>1. i \in Nat
        BY <1>1
    <2>2. \A k : <<i, k>> \notin captured
        <3>1. \A c \in captured : c[1] \in 1..Top
            BY DEF Sound
        <3> QED BY <1>1, <3>1
    <2>3. TableSound(scope'[i], i, node', {})
        OBVIOUS
    <2> QED BY <2>1, <2>2, <2>3, TableKept
<1>6. \A c \in captured : c[1] \in 1..m /\ c[2] \in DOMAIN scope'[c[1]]
    BY <1>1 DEF Sound
<1>7. \A i \in 1..m : i \in 1..Top \/ i \in (Top + 1)..m
    BY <1>1
<1>8. Sound'
    BY <1>1, <1>3, <1>4, <1>5, <1>6, <1>7 DEF Sound
<1>9. Shape'
    BY <1>1 DEF Shape
<1> QED BY <1>8, <1>9

(***************************************************************************)
(* The innermost node and its table are left; its parent may get a result. *)
(***************************************************************************)
LEMMA LeaveKeeps ==
    ASSUME Shape, Sound, Top >= 2, NEW nodes \in Seq(Nodes), Len(nodes) = Top, Leave(nodes),
           \A i \in 1..(Top - 1) :
              /\ Alike(node[i], nodes[i])
              /\ node[i].ends => nodes[i].ends \/ i = Top - 1
              /\ nodes[i].kind \in {"block", "function"} /\ nodes[i].r = 1 => nodes[i].ends
    PROVE  /\ Shape' /\ Sound' /\ Top' = Top - 1
           /\ \A kinds : Count(node', kinds, Top') = Count(node, kinds, Top - 1)
<1>1. /\ Top \in Nat /\ Len(node) = Top /\ Top = Len(scope) /\ scope \in Seq(Tables)
      /\ Top \in 2..MaxScopes
    BY DEF Shape, Top
<1>2. /\ scope' = SubSeq(scope, 1, Top - 1) /\ node' = SubSeq(nodes, 1, Top - 1)
      /\ captured' = {c \in captured : c[1] < Top}
    BY DEF Leave
<1>3. /\ scope' \in Seq(Tables) /\ Len(scope') = Top - 1
      /\ \A i \in 1..(Top - 1) : scope'[i] = scope[i]
    BY <1>1, <1>2
<1>4. /\ node' \in Seq(Nodes) /\ Len(node') = Top - 1
      /\ \A i \in 1..(Top - 1) : node'[i] = nodes[i]
    BY <1>1, <1>2
<1>5. Top' = Top - 1
    BY <1>3 DEF Top
<1>6. \A i \in 0..(Top - 1) : \A kinds : Count(node', kinds, i) = Count(node, kinds, i)
    <2> TAKE i \in 0..(Top - 1)
    <2>1. i \in Nat /\ \A j \in 1..i : node'[j].kind = node[j].kind
        BY <1>1, <1>4 DEF Alike
    <2> QED BY <2>1, CountSame
<1>7. ASSUME NEW i \in 1..(Top - 1) PROVE NodeSound(node', i)
    <2>1. NodeSound(node, i) /\ Alike(node[i], node'[i])
        BY <1>1, <1>4 DEF Sound
    <2>2. i # 1 => node'[i - 1].kind = node[i - 1].kind
        BY <1>1, <1>4 DEF Alike
    <2>3. i = 1 => node[i].kind # "block"
        BY <2>1 DEF NodeSound
    <2>4. Count(node', {"function"}, i - 1) = Count(node, {"function"}, i - 1)
        BY <1>1, <1>6
    <2>5. node'[i].kind = "function" /\ i < Len(node') => node'[i].ends
        BY <1>1, <1>4, <2>1 DEF NodeSound, Alike
    <2>6. node'[i].kind \in {"block", "function"} /\ node'[i].r = 1 => node'[i].ends
        BY <1>4
    <2> QED BY <2>1, <2>2, <2>3, <2>4, <2>5, <2>6 DEF NodeSound, Alike
<1>8. ASSUME NEW i \in 1..(Top - 1) PROVE TableSound(scope'[i], i, node', captured')
    <2>1. TableSound(scope[i], i, node, captured)
        BY <1>1 DEF Sound
    <2>2. i \in Nat /\ \A j \in 1..i : node[j].kind = node'[j].kind
        BY <1>1, <1>4 DEF Alike
    <2>3. \A k : <<i, k>> \in captured <=> <<i, k>> \in captured'
        BY <1>1, <1>2
    <2>4. TableSound(scope[i], i, node', captured')
        BY <2>1, <2>2, <2>3, TableKept
    <2> QED BY <1>3, <2>4
<1>9. \A c \in captured' : c[1] \in 1..(Top - 1) /\ c[2] \in DOMAIN scope'[c[1]]
    BY <1>1, <1>2, <1>3 DEF Sound
<1>10. Sound'
    BY <1>5, <1>7, <1>8, <1>9 DEF Sound
<1>11. Shape'
    <2>1. Top - 1 \in 1..MaxScopes
        BY <1>1, ScopeAssumption
    <2> QED BY <1>3, <1>4, <2>1 DEF Shape
<1>12. \A kinds : Count(node', kinds, Top') = Count(node, kinds, Top - 1)
    BY <1>1, <1>5, <1>6
<1> QED BY <1>5, <1>10, <1>11, <1>12

(***************************************************************************)
(* The counters after a level is opened or left.                           *)
(***************************************************************************)
LEMMA CountTop ==
    ASSUME NEW s, NEW i \in Nat, i >= 1
    PROVE  \A kinds : Count(s, kinds, i)
                        = Count(s, kinds, i - 1) + IF s[i].kind \in kinds THEN 1 ELSE 0
<1> TAKE kinds
<1>1. i - 1 \in Nat /\ (i - 1) + 1 = i
    OBVIOUS
<1> QED BY <1>1, CountNext

LEMMA LeaveBlockKeeps ==
    ASSUME IInv, LeaveBlock
    PROVE  Shape' /\ Sound' /\ Counters'
<1> DEFINE parent == [node[Top - 1] EXCEPT !.r = node[Top].r,
                                           !.ends = @ /\ node[Top].ends]
           nodes == [node EXCEPT ![Top - 1].r = node[Top].r,
                                 ![Top - 1].ends = @ /\ node[Top].ends]
<1>1. /\ Top \in Nat /\ Len(node) = Top /\ Top \in 1..MaxScopes /\ node \in Seq(Nodes)
    BY DEF IInv, Shape, Top
<1>2. node[Top].kind = "block" /\ NodeSound(node, Top)
    BY <1>1 DEF LeaveBlock, At, IInv, Sound
<1>3. Top >= 2
    BY <1>1, <1>2 DEF NodeSound
<1>4. /\ node[Top - 1].kind \in {"function", "if", "while"}
      /\ node[Top].r = 1 => node[Top].ends
    BY <1>2 DEF NodeSound
<1>5. node[Top - 1] \in Nodes /\ node[Top] \in Nodes
    BY <1>1, <1>3
<1>6. NodeSound(node, Top - 1)
    BY <1>1, <1>3 DEF IInv, Sound
<1>7. /\ parent \in Nodes /\ Alike(node[Top - 1], parent)
      /\ parent.kind \in {"block", "function"} /\ parent.r = 1 => parent.ends
    <2>1. node[Top - 1].kind = "function" => node[Top - 1].ends
        BY <1>1, <1>3, <1>6 DEF NodeSound
    <2> QED BY <1>4, <1>5, <2>1 DEF Nodes, Alike
<1>8. nodes = [node EXCEPT ![Top - 1] = parent]
    BY <1>1, <1>3, <1>5
<1>9. Leave(nodes)
    BY DEF LeaveBlock
<1> HIDE DEF parent, nodes
<1>10. /\ nodes \in Seq(Nodes) /\ Len(nodes) = Top
       /\ nodes[Top - 1] = parent
       /\ \A i \in 1..(Top - 1) : i # Top - 1 => nodes[i] = node[i]
    BY <1>1, <1>3, <1>7, <1>8
<1>11. \A i \in 1..(Top - 1) :
          /\ Alike(node[i], nodes[i])
          /\ node[i].ends => nodes[i].ends \/ i = Top - 1
          /\ nodes[i].kind \in {"block", "function"} /\ nodes[i].r = 1 => nodes[i].ends
    BY <1>1, <1>7, <1>10 DEF Alike, IInv, Sound, NodeSound
<1>12. /\ Shape' /\ Sound' /\ Top' = Top - 1
       /\ \A kinds : Count(node', kinds, Top') = Count(node, kinds, Top - 1)
    BY <1>3, <1>9, <1>10, <1>11, LeaveKeeps DEF IInv
<1>13. Counters'
    <2>1. \A kinds : Count(node, kinds, Top) = Count(node, kinds, Top - 1)
                       + IF node[Top].kind \in kinds THEN 1 ELSE 0
        BY <1>1, <1>3, CountTop
    <2>2. \A kinds : Count(node, kinds, Top - 1) \in Nat
        <3>1. Top - 1 \in Nat
            BY <1>1, <1>3
        <3> QED BY <3>1, CountType
    <2>3. /\ nesting_depth' = nesting_depth - 1
          /\ func_nesting_depth' = func_nesting_depth /\ is_in_function' = is_in_function
        BY DEF LeaveBlock
    <2> QED BY <1>2, <1>12, <2>1, <2>2, <2>3 DEF IInv, Counters, BlockKinds, FunctionKinds
<1> QED BY <1>12, <1>13

LEMMA LeaveStatementKeeps ==
    ASSUME IInv, LeaveStatement
    PROVE  Shape' /\ Sound' /\ Counters'
<1> DEFINE parent == [node[Top - 1] EXCEPT !.ends = @ \/ node[Top].ends]
           nodes == [node EXCEPT ![Top - 1].ends = @ \/ node[Top].ends]
<1>1. /\ Top \in Nat /\ Len(node) = Top /\ Top \in 1..MaxScopes /\ node \in Seq(Nodes)
    BY DEF IInv, Shape, Top
<1>2. node[Top].kind \in {"if", "while"} /\ NodeSound(node, Top)
    BY <1>1 DEF LeaveStatement, At, IInv, Sound
<1>3. Top >= 2
    BY <1>1, <1>2 DEF NodeSound
<1>4. node[Top - 1] \in Nodes /\ node[Top] \in Nodes
    BY <1>1, <1>3
<1>5. NodeSound(node, Top - 1)
    BY <1>1, <1>3 DEF IInv, Sound
<1>6. /\ parent \in Nodes /\ Alike(node[Top - 1], parent)
      /\ parent.kind \in {"block", "function"} /\ parent.r = 1 => parent.ends
    BY <1>4, <1>5 DEF Nodes, Alike, NodeSound
<1>7. nodes = [node EXCEPT ![Top - 1] = parent]
    BY <1>1, <1>3, <1>4
<1>8. Leave(nodes)
    BY DEF LeaveStatement
<1> HIDE DEF parent, nodes
<1>9. /\ nodes \in Seq(Nodes) /\ Len(nodes) = Top
      /\ nodes[Top - 1] = parent
      /\ \A i \in 1..(Top - 1) : i # Top - 1 => nodes[i] = node[i]
    BY <1>1, <1>3, <1>6, <1>7
<1>10. \A i \in 1..(Top - 1) :
          /\ Alike(node[i], nodes[i])
          /\ node[i].ends => nodes[i].ends \/ i = Top - 1
          /\ nodes[i].kind \in {"block", "function"} /\ nodes[i].r = 1 => nodes[i].ends
    BY <1>1, <1>6, <1>9 DEF Alike, IInv, Sound, NodeSound
<1>11. /\ Shape' /\ Sound' /\ Top' = Top - 1
       /\ \A kinds : Count(node', kinds, Top') = Count(node, kinds, Top - 1)
    BY <1>3, <1>8, <1>9, <1>10, LeaveKeeps DEF IInv
<1>12. Counters'
    <2>1. \A kinds : Count(node, kinds, Top) = Count(node, kinds, Top - 1)
                       + IF node[Top].kind \in kinds THEN 1 ELSE 0
        BY <1>1, <1>3, CountTop
    <2>2. \A kinds : Count(node, kinds, Top - 1) \in Nat
        <3>1. Top - 1 \in Nat
            BY <1>1, <1>3
        <3> QED BY <3>1, CountType
    <2>3. UNCHANGED <<nesting_depth, func_nesting_depth, is_in_function>>
        BY DEF LeaveStatement, counters
    <2> QED BY <1>2, <1>11, <2>1, <2>2, <2>3 DEF IInv, Counters, BlockKinds, FunctionKinds
<1> QED BY <1>11, <1>12

\* The function and the module leave their parents as they were.
LEMMA LeaveOuterKeeps ==
    ASSUME IInv, LeaveFunction \/ LeaveModule
    PROVE  Shape' /\ Sound' /\ Counters'
<1>1. /\ Top \in Nat /\ Len(node) = Top /\ Top \in 1..MaxScopes /\ node \in Seq(Nodes)
    BY DEF IInv, Shape, Top
<1>2. node[Top].kind \in FunctionKinds /\ NodeSound(node, Top) /\ Leave(node)
    <2>1. node[Top].kind \in FunctionKinds /\ Leave(node)
        BY DEF LeaveFunction, LeaveModule, At, FunctionKinds
    <2>2. NodeSound(node, Top)
        BY <1>1 DEF IInv, Sound
    <2> QED BY <2>1, <2>2
<1>3. Top >= 2
    BY <1>1, <1>2 DEF NodeSound, FunctionKinds
<1>4. \A i \in 1..(Top - 1) :
         /\ Alike(node[i], node[i])
         /\ node[i].kind \in {"block", "function"} /\ node[i].r = 1 => node[i].ends
    BY <1>1 DEF Alike, IInv, Sound, NodeSound
<1>5. /\ Shape' /\ Sound' /\ Top' = Top - 1
      /\ \A kinds : Count(node', kinds, Top') = Count(node, kinds, Top - 1)
    BY <1>1, <1>2, <1>3, <1>4, LeaveKeeps DEF IInv
<1>6. \A kinds : Count(node, kinds, Top) = Count(node, kinds, Top - 1)
                   + IF node[Top].kind \in kinds THEN 1 ELSE 0
    BY <1>1, <1>3, CountTop
<1>7. \A kinds : Count(node, kinds, Top - 1) \in Nat
    <2>1. Top - 1 \in Nat
        BY <1>1, <1>3
    <2> QED BY <2>1, CountType
<1>8. Counters'
    <2>1. CASE LeaveFunction
        <3>1. /\ nesting_depth' = nesting_depth
              /\ func_nesting_depth' = func_nesting_depth - 1
              /\ is_in_function' = node[Top].was_in
              /\ node[Top].kind = "function"
            BY <2>1 DEF LeaveFunction, At
        <3>2. is_in_function' \in {0, 1}
            <4>1. node[Top] \in Nodes
                BY <1>1
            <4> QED BY <3>1, <4>1 DEF Nodes
        <3> QED BY <1>2, <1>5, <1>6, <1>7, <3>1, <3>2
                DEF IInv, Counters, NodeSound, BlockKinds, FunctionKinds
    <2>2. CASE LeaveModule
        <3>1. /\ nesting_depth' = nesting_depth - 1
              /\ func_nesting_depth' = func_nesting_depth - 1
              /\ is_in_function' = is_in_function
              /\ node[Top].kind = "module"
            BY <2>2 DEF LeaveModule, At
        <3> QED BY <1>5, <1>6, <1>7, <3>1 DEF IInv, Counters, BlockKinds, FunctionKinds
    <2> QED BY <2>1, <2>2
<1> QED BY <1>5, <1>8

(***************************************************************************)
(* A new node that is not a function, nor a module, has no bindings yet.   *)
(***************************************************************************)
LEMMA EmptyTable == <<>> \in Tables /\ \A i, s, marks : TableSound(<<>>, i, s, marks)
<1>1. <<>> \in [{} -> Infos]
    OBVIOUS
<1> QED BY <1>1 DEF Tables, TableSound

LEMMA EnterElseKeeps ==
    ASSUME IInv, EnterElse
    PROVE  Shape' /\ Sound' /\ Counters'
<1> DEFINE n == [node[Top] EXCEPT !.more = FALSE]
<1>1. /\ Top \in Nat /\ Len(node) = Top /\ Top \in 1..MaxScopes /\ node \in Seq(Nodes)
      /\ scope \in Seq(Tables) /\ Len(scope) = Top /\ MaxScopes \in Nat
    BY ScopeAssumption DEF IInv, Shape, Top
<1>2. /\ node[Top].kind = "if" /\ node[Top].more
      /\ scope' = Append(scope, <<>>)
      /\ node' = Append([node EXCEPT ![Top].more = FALSE], Node("block"))
      /\ nesting_depth' = nesting_depth + 1
      /\ UNCHANGED <<func_nesting_depth, is_in_function, captured>>
    BY DEF EnterElse, At
<1>3. node[Top] \in Nodes /\ NodeSound(node, Top)
    BY <1>1 DEF IInv, Sound
<1>4. /\ n \in Nodes /\ Alike(node[Top], n) /\ n.r = node[Top].r /\ n.ends = node[Top].ends
    BY <1>3 DEF Nodes, Alike
<1>5. [node EXCEPT ![Top].more = FALSE] = [node EXCEPT ![Top] = n]
    BY <1>1, <1>3
<1> HIDE DEF n
<1>6. Node("block") \in Nodes
    BY DEF Node, Nodes
<1>7. /\ node' \in Seq(Nodes) /\ Len(node') = Top + 1
      /\ \A i \in 1..Top : node'[i] = IF i = Top THEN n ELSE node[i]
      /\ node'[Top + 1] = Node("block")
    <2> DEFINE m == [node EXCEPT ![Top] = n]
    <2>1. /\ m \in Seq(Nodes) /\ Len(m) = Top
          /\ \A i \in 1..Top : m[i] = IF i = Top THEN n ELSE node[i]
        BY <1>1, <1>4
    <2> HIDE DEF m
    <2>2. node' = Append(m, Node("block"))
        BY <1>2, <1>5 DEF m
    <2> QED BY <1>1, <1>6, <2>1, <2>2, AppendProperties
<1>8. /\ scope' \in Seq(Tables) /\ Len(scope') = Top + 1
      /\ \A i \in 1..Top : scope'[i] = scope[i]
      /\ scope'[Top + 1] = <<>>
    BY <1>1, <1>2, EmptyTable, AppendProperties
<1>9. Top + 1 <= MaxScopes
    BY <1>2, <1>3 DEF NodeSound
<1>10. NodeSound(node', Top + 1)
    <2>1. node'[(Top + 1) - 1].kind = "if"
        BY <1>1, <1>2, <1>4, <1>7 DEF Alike
    <2>2. Top # 1
        BY <1>2, <1>3 DEF NodeSound
    <2>3. Top + 1 # 2 /\ Top + 1 # 1
        BY <1>1, <2>2
    <2> QED BY <1>7, <2>1, <2>3 DEF NodeSound, Node
<1>11. TableSound(scope'[Top + 1], Top + 1, node', {})
    BY <1>8, EmptyTable
<1>12. \A i \in 1..Top : /\ Alike(node[i], node'[i])
                         /\ node'[i].r = node[i].r /\ node'[i].ends = node[i].ends
    BY <1>4, <1>7 DEF Alike
<1>13. Shape' /\ Sound' /\ Top' = Top + 1
    <2>1. Shape' /\ Sound'
        <3> DEFINE m == Top + 1
        <3>1. \A i \in (Top + 1)..m : NodeSound(node', i) /\ TableSound(scope'[i], i, node', {})
            BY <1>1, <1>10, <1>11
        <3>2. m <= MaxScopes /\ Len(scope') = m /\ Len(node') = m /\ m \in {Top + 1, Top + 2}
            BY <1>7, <1>8, <1>9
        <3> HIDE DEF m
        <3> QED BY <1>2, <1>7, <1>8, <1>12, <3>1, <3>2, PushKeeps DEF IInv
    <2> QED BY <1>8, <2>1 DEF Top
<1>14. Counters'
    <2>1. \A kinds : Count(node', kinds, Top + 1) = Count(node, kinds, Top)
                       + IF "block" \in kinds THEN 1 ELSE 0
        <3> TAKE kinds
        <3>1. Count(node', kinds, Top) = Count(node, kinds, Top)
            BY <1>1, <1>12, CountSame DEF Alike
        <3>2. node'[Top + 1].kind = "block"
            BY <1>7 DEF Node
        <3> QED BY <1>1, <3>1, <3>2, CountNext
    <2>2. \A kinds : Count(node, kinds, Top) \in Nat
        BY <1>1, CountType
    <2>3. /\ Count(node', BlockKinds, Top') = Count(node, BlockKinds, Top) + 1
          /\ Count(node', FunctionKinds, Top') = Count(node, FunctionKinds, Top)
          /\ Count(node', {"function"}, Top') = Count(node, {"function"}, Top)
        BY <1>13, <2>1, <2>2 DEF BlockKinds, FunctionKinds
    <2> QED BY <1>2, <2>3 DEF IInv, Counters
<1> QED BY <1>13, <1>14

(***************************************************************************)
(* The kinds among the nodes when two more are visited.                    *)
(***************************************************************************)
LEMMA CountTwo ==
    ASSUME NEW s, NEW n \in Nat, NEW kinds
    PROVE  Count(s, kinds, n + 2)
             = Count(s, kinds, n + 1) + IF s[n + 2].kind \in kinds THEN 1 ELSE 0
<1>1. n + 1 \in Nat /\ (n + 1) + 1 = n + 2
    OBVIOUS
<1>2. Count(s, kinds, (n + 1) + 1)
        = Count(s, kinds, n + 1) + IF s[(n + 1) + 1].kind \in kinds THEN 1 ELSE 0
    BY <1>1, CountNext
<1> QED BY <1>1, <1>2

(***************************************************************************)
(* What becomes of two sequences when two elements are added.              *)
(***************************************************************************)
LEMMA AddTwo ==
    ASSUME NEW S, NEW s \in Seq(S), NEW a \in S, NEW b \in S
    PROVE  /\ s \o <<a, b>> \in Seq(S) /\ Len(s \o <<a, b>>) = Len(s) + 2
           /\ \A i \in 1..Len(s) : (s \o <<a, b>>)[i] = s[i]
           /\ (s \o <<a, b>>)[Len(s) + 1] = a /\ (s \o <<a, b>>)[Len(s) + 2] = b
OBVIOUS

(***************************************************************************)
(* The statement of an if or a while, and the block in it.                 *)
(***************************************************************************)
LEMMA EnterBranchKeeps ==
    ASSUME IInv, EnterIf \/ EnterWhile
    PROVE  Shape' /\ Sound' /\ Counters'
<1>1. PICK statement \in Nodes :
         /\ EnterBranch(statement)
         /\ statement.kind \in {"if", "while"} /\ statement.pending = <<>>
    <2>1. CASE EnterWhile
        <3> DEFINE n == Node("while")
        <3>1. n \in Nodes /\ n.kind = "while" /\ n.pending = <<>>
            BY DEF Node, Nodes
        <3>2. EnterBranch(n)
            BY <2>1 DEF EnterWhile
        <3> HIDE DEF n
        <3> QED BY <3>1, <3>2
    <2>2. CASE EnterIf
        <3>1. PICK else \in BOOLEAN :
                 EnterBranch([Node("if") EXCEPT !.more = else, !.ends = else])
            BY <2>2 DEF EnterIf
        <3> DEFINE m == Node("if")
                   n == [m EXCEPT !.more = else, !.ends = else]
        <3>2. m \in Nodes /\ m.kind = "if" /\ m.pending = <<>>
            BY DEF Node, Nodes
        <3>3. n \in Nodes /\ n.kind = "if" /\ n.pending = <<>>
            <4> HIDE DEF m
            <4> QED BY <3>2 DEF Nodes
        <3>4. EnterBranch(n)
            BY <3>1
        <3> HIDE DEF n
        <3> QED BY <3>3, <3>4
    <2> QED BY <2>1, <2>2
<1>2. /\ InBody /\ Top + 2 <= MaxScopes
      /\ scope' = scope \o << <<>>, <<>> >>
      /\ node' = node \o <<statement, Node("block")>>
      /\ nesting_depth' = nesting_depth + 1
      /\ UNCHANGED <<func_nesting_depth, is_in_function, captured>>
    BY <1>1 DEF EnterBranch
<1>3. /\ Top \in Nat /\ Top >= 2 /\ Len(node) = Top /\ node \in Seq(Nodes)
      /\ scope \in Seq(Tables) /\ Len(scope) = Top /\ node[Top].kind \in BlockKinds
    BY <1>2, BodyDepths, ScopeAssumption DEF IInv, Shape, Top
<1>4. Node("block") \in Nodes
    BY DEF Node, Nodes
<1>5. /\ node' \in Seq(Nodes) /\ Len(node') = Top + 2
      /\ \A i \in 1..Top : node'[i] = node[i]
      /\ node'[Top + 1] = statement /\ node'[Top + 2] = Node("block")
    <2> DEFINE block == Node("block")
    <2> HIDE DEF block
    <2>1. block \in Nodes /\ node' = node \o <<statement, block>>
        BY <1>2, <1>4 DEF block
    <2>2. /\ node' \in Seq(Nodes) /\ Len(node') = Top + 2
          /\ \A i \in 1..Top : node'[i] = node[i]
          /\ node'[Top + 1] = statement /\ node'[Top + 2] = block
        BY <1>3, <2>1, AddTwo
    <2> QED BY <2>2 DEF block
<1>6. /\ scope' \in Seq(Tables) /\ Len(scope') = Top + 2
      /\ \A i \in 1..Top : scope'[i] = scope[i]
      /\ scope'[Top + 1] = <<>> /\ scope'[Top + 2] = <<>>
    <2> DEFINE empty == <<>>
    <2>1. empty \in Tables
        BY EmptyTable
    <2>2. scope' = scope \o <<empty, empty>>
        BY <1>2
    <2> HIDE DEF empty
    <2>3. /\ scope' \in Seq(Tables) /\ Len(scope') = Top + 2
          /\ \A i \in 1..Top : scope'[i] = scope[i]
          /\ scope'[Top + 1] = empty /\ scope'[Top + 2] = empty
        BY <1>3, <2>1, <2>2, AddTwo
    <2> QED BY <2>3 DEF empty
<1>7. NodeSound(node', Top + 1)
    <2>1. Top + 1 # 1 /\ Top + 1 # 2 /\ (Top + 1) + 1 <= MaxScopes
        BY <1>2, <1>3
    <2> QED BY <1>1, <1>5, <2>1 DEF NodeSound
<1>8. NodeSound(node', Top + 2)
    <2>1. Top + 2 # 1 /\ Top + 2 # 2 /\ (Top + 2) - 1 = Top + 1
        BY <1>3
    <2> QED BY <1>1, <1>5, <2>1 DEF NodeSound, Node
<1>9. \A i \in 1..Top : /\ Alike(node[i], node'[i])
                        /\ node'[i].r = node[i].r /\ node'[i].ends = node[i].ends
    BY <1>5 DEF Alike
<1>10. Shape' /\ Sound'
    <2> DEFINE m == Top + 2
    <2>1. \A i \in (Top + 1)..m : NodeSound(node', i) /\ TableSound(scope'[i], i, node', {})
        <3> TAKE i \in (Top + 1)..m
        <3>1. i = Top + 1 \/ i = Top + 2
            BY <1>3
        <3>2. TableSound(scope'[i], i, node', {})
            BY <1>6, <3>1, EmptyTable
        <3> QED BY <1>7, <1>8, <3>1, <3>2
    <2>2. m <= MaxScopes /\ Len(scope') = m /\ Len(node') = m /\ m \in {Top + 1, Top + 2}
        BY <1>2, <1>5, <1>6
    <2>3. node[Top].kind # "function"
        BY <1>3 DEF BlockKinds
    <2> HIDE DEF m
    <2> QED BY <1>2, <1>5, <1>6, <1>9, <2>1, <2>2, <2>3, PushKeeps DEF IInv
<1>11. Counters'
    <2>1. Top' = Top + 2
        BY <1>6 DEF Top
    <2>2. \A i \in 1..Top : node[i].kind = node'[i].kind
        BY <1>5
    <2>3. \A kinds :
             /\ Count(node, kinds, Top) \in Nat
             /\ Count(node', kinds, Top + 1)
                  = Count(node, kinds, Top) + IF node'[Top + 1].kind \in kinds THEN 1 ELSE 0
             /\ Count(node', kinds, Top + 2)
                  = Count(node', kinds, Top + 1) + IF node'[Top + 2].kind \in kinds THEN 1 ELSE 0
        <3> TAKE kinds
        <3>1. Count(node, kinds, Top) \in Nat
            BY <1>3, CountType
        <3>2. Count(node', kinds, Top) = Count(node, kinds, Top)
            BY <1>3, <2>2, CountSame
        <3>3. Count(node', kinds, Top + 1)
                = Count(node', kinds, Top) + IF node'[Top + 1].kind \in kinds THEN 1 ELSE 0
            BY <1>3, CountNext
        <3>4. Count(node', kinds, Top + 2)
                = Count(node', kinds, Top + 1) + IF node'[Top + 2].kind \in kinds THEN 1 ELSE 0
            BY <1>3, CountTwo
        <3> QED BY <3>1, <3>2, <3>3, <3>4
    <2>4. node'[Top + 1].kind \in {"if", "while"} /\ node'[Top + 2].kind = "block"
        BY <1>1, <1>5 DEF Node
    <2>5. /\ Count(node', BlockKinds, Top') = Count(node, BlockKinds, Top) + 1
          /\ Count(node', FunctionKinds, Top') = Count(node, FunctionKinds, Top)
          /\ Count(node', {"function"}, Top') = Count(node, {"function"}, Top)
        BY <2>1, <2>3, <2>4 DEF BlockKinds, FunctionKinds
    <2> QED BY <1>2, <2>5 DEF IInv, Counters
<1> QED BY <1>10, <1>11

(***************************************************************************)
(* The functions of a body are bound under their names, one level deeper.  *)
(***************************************************************************)
LEMMA DefinitionsType ==
    ASSUME NEW fs \in Definitions
    PROVE  fs \in Seq(Functions) /\ Len(fs) \in Nat /\ DOMAIN fs = 1..Len(fs)
<1>1. PICK n \in 0..MaxFunctions : fs \in [1..n -> Functions]
    BY DEF Definitions
<1>2. n \in Nat
    BY ScopeAssumption
<1>3. fs \in Seq(Functions)
    BY <1>1, <1>2
<1> QED BY <1>3

\* A table of the functions and the parameters around a body.
Headers(t, func_depth) ==
    /\ t \in Tables
    /\ \A key \in DOMAIN t :
          /\ \E x \in Names \cup {Main} : key = Plain(x)
          /\ t[key] \in Infos /\ t[key].kind \in {"function", "parameter"}
          /\ t[key].func_nesting_depth = func_depth /\ t[key].escaping = 0

LEMMA FunctionTableSound ==
    ASSUME NEW chain, NEW fs \in Definitions,
           NEW depth \in 1..MaxScopes, NEW func_depth \in 1..MaxScopes
    PROVE  Headers(FunctionTable(chain, fs, depth, func_depth), func_depth)
<1> DEFINE bound == DOMAIN fs \ Refused(chain, fs)
           D == {Plain(fs[k].name) : k \in bound}
           of(key) == CHOOSE k \in bound : Plain(fs[k].name) = key
           info(key) == create_var_info("function", depth, func_depth, Len(fs[of(key)].params))
           t == [key \in D |-> info(key)]
<1>1. fs \in Seq(Functions) /\ DOMAIN fs = 1..Len(fs)
    BY DefinitionsType
<1>2. \A k \in bound : fs[k] \in Functions
    BY <1>1
<1>3. \A f \in Functions : f.name \in Names \cup {Main} /\ Len(f.params) \in Nat
    <2> TAKE f \in Functions
    <2>1. f \in [name : Names \cup {Main}, params : Seq(Names), void : BOOLEAN]
        BY ScopeAssumption
    <2>2. f.params \in Seq(Names) /\ f.name \in Names \cup {Main}
        BY <2>1
    <2> QED BY <2>2
<1>4. FunctionTable(chain, fs, depth, func_depth) = t
    BY DEF FunctionTable
<1>5. \A key \in D : \E x \in Names \cup {Main} : key = Plain(x)
    BY <1>2, <1>3
<1>6. \A key \in D : of(key) \in bound
    <2> TAKE key \in D
    <2>1. \E k \in bound : Plain(fs[k].name) = key
        OBVIOUS
    <2> HIDE DEF bound
    <2> QED BY <2>1, Zenon
<1> HIDE DEF bound, of
<1>7. ASSUME NEW key \in D
      PROVE  /\ info(key) \in Infos /\ info(key).kind = "function"
             /\ info(key).func_nesting_depth = func_depth /\ info(key).escaping = 0
    <2>1. Len(fs[of(key)].params) \in Nat
        BY <1>2, <1>3, <1>6
    <2> QED BY <2>1 DEF create_var_info, Infos
<1> HIDE DEF info, D
<1>8. t \in Tables
    <2>1. D \in SUBSET Keys
        BY <1>5 DEF Keys
    <2>2. t \in [D -> Infos]
        BY <1>7
    <2> HIDE DEF t
    <2> QED BY <2>1, <2>2 DEF Tables
<1> QED BY <1>4, <1>5, <1>7, <1>8 DEF Headers

(***************************************************************************)
(* The module, whose table binds its functions.                            *)
(***************************************************************************)
LEMMA EnterModuleKeeps ==
    ASSUME IInv, NEW fs \in Definitions, EnterModule(fs)
    PROVE  Shape' /\ Sound' /\ Counters'
<1> DEFINE t == FunctionTable(scope, fs, nesting_depth + 1, func_nesting_depth + 1)
           n == [Node("module") EXCEPT !.pending = fs]
<1>1. /\ node[Top].kind = "program"
      /\ fs # <<>> => Top + 3 <= MaxScopes
      /\ scope' = Append(scope, t) /\ node' = Append(node, n)
      /\ nesting_depth' = nesting_depth + 1
      /\ func_nesting_depth' = func_nesting_depth + 1
      /\ UNCHANGED <<is_in_function, captured>>
    BY DEF EnterModule, At
<1>2. /\ Top \in Nat /\ Len(node) = Top /\ Top \in 1..MaxScopes /\ node \in Seq(Nodes)
      /\ scope \in Seq(Tables) /\ Len(scope) = Top /\ MaxScopes \in Nat
    BY ScopeAssumption DEF IInv, Shape, Top
<1>3. NodeSound(node, Top)
    BY <1>2 DEF IInv, Sound
<1>4. Top = 1
    BY <1>1, <1>3 DEF NodeSound
<1>5. \A kinds : Count(node, kinds, Top) = IF "program" \in kinds THEN 1 ELSE 0
    <2> TAKE kinds
    <2>1. Count(node, kinds, 0) = 0
        BY CountType
    <2>2. Count(node, kinds, 0 + 1)
            = Count(node, kinds, 0) + IF node[0 + 1].kind \in kinds THEN 1 ELSE 0
        BY CountNext
    <2> QED BY <1>1, <1>4, <2>1, <2>2
<1>6. nesting_depth = 0 /\ func_nesting_depth = 0
    BY <1>5 DEF IInv, Counters, BlockKinds, FunctionKinds
<1>7. nesting_depth + 1 \in 1..MaxScopes /\ func_nesting_depth + 1 \in 1..MaxScopes
    BY <1>2, <1>4, <1>6
<1>8. Headers(t, 1) /\ t \in Tables
    BY <1>6, <1>7, FunctionTableSound DEF Headers
<1>9. n \in Nodes /\ n.kind = "module" /\ n.pending = fs /\ ~ n.more
    <2> DEFINE m == Node("module")
    <2>1. m \in Nodes /\ m.kind = "module" /\ ~ m.more
        BY DEF Node, Nodes
    <2>2. fs \in Seq(Functions)
        BY DefinitionsType
    <2> HIDE DEF m
    <2>3. LET k == [m EXCEPT !.pending = fs]
          IN  k \in Nodes /\ k.kind = "module" /\ k.pending = fs /\ ~ k.more
        BY <2>1, <2>2 DEF Nodes
    <2> QED BY <2>3 DEF m
<1> HIDE DEF t, n
<1>10. /\ node' \in Seq(Nodes) /\ Len(node') = Top + 1
       /\ \A i \in 1..Top : node'[i] = node[i]
       /\ node'[Top + 1] = n
    BY <1>1, <1>2, <1>9, AppendProperties
<1>11. /\ scope' \in Seq(Tables) /\ Len(scope') = Top + 1
       /\ \A i \in 1..Top : scope'[i] = scope[i]
       /\ scope'[Top + 1] = t
    BY <1>1, <1>2, <1>8, AppendProperties
<1>12. NodeSound(node', Top + 1)
    <2>1. Top + 1 = 2 /\ 2 # 1 /\ (fs # <<>> => (Top + 1) + 2 <= MaxScopes)
        BY <1>1, <1>4
    <2> QED BY <1>9, <1>10, <2>1 DEF NodeSound
<1>13. \A kinds : Count(node', kinds, Top + 1)
                    = Count(node, kinds, Top) + IF "module" \in kinds THEN 1 ELSE 0
    <2> TAKE kinds
    <2>1. Count(node', kinds, Top) = Count(node, kinds, Top)
        BY <1>2, <1>10, CountSame
    <2>2. Count(node', kinds, Top + 1)
            = Count(node', kinds, Top) + IF node'[Top + 1].kind \in kinds THEN 1 ELSE 0
        BY <1>2, CountNext
    <2> QED BY <1>9, <1>10, <2>1, <2>2
<1>14. /\ Count(node', BlockKinds, Top + 1) = 1 /\ Count(node', FunctionKinds, Top + 1) = 1
       /\ Count(node', {"function"}, Top + 1) = 0
       /\ Count(node, {"function"}, Top) = 0
    BY <1>5, <1>13 DEF BlockKinds, FunctionKinds
<1>15. TableSound(scope'[Top + 1], Top + 1, node', {})
    <2>1. ASSUME NEW key \in DOMAIN t
          PROVE  /\ t[key] \in Infos /\ t[key].func_nesting_depth = 1
                 /\ Named(key, t[key].kind, 1) /\ t[key].escaping # 1
        BY <1>8 DEF Headers, Named
    <2> QED BY <1>11, <1>14, <2>1 DEF TableSound
<1>16. \A i \in 1..Top : /\ Alike(node[i], node'[i])
                         /\ node'[i].r = node[i].r /\ node'[i].ends = node[i].ends
    BY <1>10 DEF Alike
<1>17. Top' = Top + 1
    BY <1>11 DEF Top
<1>18. Shape' /\ Sound'
    <2> DEFINE m == Top + 1
    <2>1. \A i \in (Top + 1)..m : NodeSound(node', i) /\ TableSound(scope'[i], i, node', {})
        BY <1>2, <1>12, <1>15
    <2>2. m <= MaxScopes /\ Len(scope') = m /\ Len(node') = m /\ m \in {Top + 1, Top + 2}
        BY <1>2, <1>4, <1>10, <1>11, ScopeAssumption
    <2>3. node[Top].kind # "function"
        BY <1>1
    <2> HIDE DEF m
    <2> QED BY <1>1, <1>10, <1>11, <1>16, <2>1, <2>2, <2>3, PushKeeps DEF IInv
<1>19. Counters'
    BY <1>1, <1>6, <1>14, <1>17 DEF IInv, Counters
<1> QED BY <1>18, <1>19

(***************************************************************************)
(* The parameters are bound in the same table, those that are not refused. *)
(***************************************************************************)
LEMMA ParameterTableSound ==
    ASSUME NEW table, NEW params \in Seq(Names),
           NEW depth \in 1..MaxScopes, NEW func_depth \in 1..MaxScopes,
           Headers(table, func_depth)
    PROVE  Headers(ParameterTable(table, params, depth, func_depth), func_depth)
<1> DEFINE D == DOMAIN table \cup {Plain(params[k]) : k \in DOMAIN params}
           info == create_var_info("parameter", depth, func_depth, 0)
           t == [key \in D |-> IF key \in DOMAIN table THEN table[key] ELSE info]
<1>1. ParameterTable(table, params, depth, func_depth) = t
    BY DEF ParameterTable
<1>2. \A key \in D : \E x \in Names \cup {Main} : key = Plain(x)
    <2>1. \A k \in DOMAIN params : params[k] \in Names
        OBVIOUS
    <2> QED BY <2>1 DEF Headers
<1>3. /\ info \in Infos /\ info.kind = "parameter"
      /\ info.func_nesting_depth = func_depth /\ info.escaping = 0
    BY DEF create_var_info, Infos
<1> HIDE DEF info, D
<1>4. ASSUME NEW key \in D
      PROVE  /\ t[key] \in Infos /\ t[key].kind \in {"function", "parameter"}
             /\ t[key].func_nesting_depth = func_depth /\ t[key].escaping = 0
    BY <1>3 DEF Headers
<1>5. t \in Tables
    <2>1. D \in SUBSET Keys
        BY <1>2 DEF Keys
    <2>2. t \in [D -> Infos]
        BY <1>4
    <2> HIDE DEF t
    <2> QED BY <2>1, <2>2 DEF Tables
<1> QED BY <1>1, <1>2, <1>4, <1>5 DEF Headers

(***************************************************************************)
(* A function and the block of it, whether the definition was bound by the *)
(* pass over the body or not.                                              *)
(***************************************************************************)
LEMMA EnterFunctionKeeps ==
    ASSUME IInv, InBody, NEW f \in Functions, NEW nested \in Definitions,
           NEW outer \in Seq(Nodes), Len(outer) = Top,
           \A i \in 1..Top : /\ Alike(node[i], outer[i])
                             /\ outer[i].r = node[i].r /\ outer[i].ends = node[i].ends,
           Top + 2 <= MaxScopes, EnterFunction(f, nested, outer)
    PROVE  Shape' /\ Sound' /\ Counters'
<1> DEFINE functions == FunctionTable(scope, nested, nesting_depth + 1, func_nesting_depth + 1)
           t == ParameterTable(functions, f.params, nesting_depth + 1, func_nesting_depth + 1)
           n == [Node("function") EXCEPT !.void = f.void, !.was_in = is_in_function,
                                         !.ends = TRUE]
           b == [Node("block") EXCEPT !.pending = nested]
<1>1. /\ Top \in Nat /\ Top >= 2 /\ Len(node) = Top /\ node \in Seq(Nodes)
      /\ scope \in Seq(Tables) /\ Len(scope) = Top /\ MaxScopes \in Nat
      /\ node[Top].kind \in BlockKinds
      /\ nesting_depth \in 1..Top /\ func_nesting_depth \in 1..Top
    BY BodyDepths, ScopeAssumption DEF IInv, Shape, Top
<1>2. /\ nested # <<>> => Top + 4 <= MaxScopes
      /\ scope' = scope \o <<t, <<>> >> /\ node' = outer \o <<n, b>>
      /\ nesting_depth' = nesting_depth + 1
      /\ func_nesting_depth' = func_nesting_depth + 1
      /\ is_in_function' = 1 /\ captured' = captured
    BY DEF EnterFunction
<1>3. nesting_depth + 1 \in 1..MaxScopes /\ func_nesting_depth + 1 \in 1..MaxScopes
    BY <1>1
<1>4. f.params \in Seq(Names) /\ f.void \in BOOLEAN
    <2>1. f \in [name : Names \cup {Main}, params : Seq(Names), void : BOOLEAN]
        BY ScopeAssumption
    <2> QED BY <2>1
<1>5. Headers(functions, func_nesting_depth + 1)
    BY <1>3, FunctionTableSound
<1> HIDE DEF functions
<1>6. Headers(t, func_nesting_depth + 1) /\ t \in Tables
    <2>1. Headers(t, func_nesting_depth + 1)
        BY <1>3, <1>4, <1>5, ParameterTableSound
    <2> QED BY <2>1 DEF Headers
<1> HIDE DEF t
<1>7. /\ n \in Nodes /\ n.kind = "function" /\ n.pending = <<>> /\ ~ n.more
      /\ n.ends /\ n.was_in = is_in_function
    <2> DEFINE m == Node("function")
    <2>1. m \in Nodes /\ m.kind = "function" /\ m.pending = <<>> /\ ~ m.more
        BY DEF Node, Nodes
    <2>2. is_in_function \in {0, 1}
        BY DEF IInv, Counters
    <2> HIDE DEF m
    <2>3. LET k == [m EXCEPT !.void = f.void, !.was_in = is_in_function, !.ends = TRUE]
          IN  /\ k \in Nodes /\ k.kind = "function" /\ k.pending = <<>> /\ ~ k.more
              /\ k.ends /\ k.was_in = is_in_function
        BY <1>4, <2>1, <2>2 DEF Nodes
    <2> QED BY <2>3 DEF m
<1>8. b \in Nodes /\ b.kind = "block" /\ b.pending = nested /\ ~ b.more /\ b.r = 0
    <2> DEFINE m == Node("block")
    <2>1. m \in Nodes /\ m.kind = "block" /\ ~ m.more /\ m.r = 0
        BY DEF Node, Nodes
    <2>2. nested \in Seq(Functions)
        BY DefinitionsType
    <2> HIDE DEF m
    <2>3. LET k == [m EXCEPT !.pending = nested]
          IN  k \in Nodes /\ k.kind = "block" /\ k.pending = nested /\ ~ k.more /\ k.r = 0
        BY <2>1, <2>2 DEF Nodes
    <2> QED BY <2>3 DEF m
<1> HIDE DEF n, b
<1>9. /\ node' \in Seq(Nodes) /\ Len(node') = Top + 2
      /\ \A i \in 1..Top : node'[i] = outer[i]
      /\ node'[Top + 1] = n /\ node'[Top + 2] = b
    BY <1>1, <1>2, <1>7, <1>8, AddTwo
<1>10. /\ scope' \in Seq(Tables) /\ Len(scope') = Top + 2
       /\ \A i \in 1..Top : scope'[i] = scope[i]
       /\ scope'[Top + 1] = t /\ scope'[Top + 2] = <<>>
    <2> DEFINE empty == <<>>
    <2>1. empty \in Tables
        BY EmptyTable
    <2>2. scope' = scope \o <<t, empty>>
        BY <1>2
    <2> HIDE DEF empty
    <2>3. /\ scope' \in Seq(Tables) /\ Len(scope') = Top + 2
          /\ \A i \in 1..Top : scope'[i] = scope[i]
          /\ scope'[Top + 1] = t /\ scope'[Top + 2] = empty
        BY <1>1, <1>6, <2>1, <2>2, AddTwo
    <2> QED BY <2>3 DEF empty
<1>11. \A i \in 1..Top : /\ Alike(node[i], node'[i])
                         /\ node'[i].r = node[i].r /\ node'[i].ends = node[i].ends
    BY <1>9
<1>12. \A kinds : /\ Count(node, kinds, Top) \in Nat
                  /\ Count(node', kinds, Top) = Count(node, kinds, Top)
                  /\ Count(node', kinds, Top + 1)
                       = Count(node, kinds, Top) + IF "function" \in kinds THEN 1 ELSE 0
                  /\ Count(node', kinds, Top + 2)
                       = Count(node', kinds, Top + 1) + IF "block" \in kinds THEN 1 ELSE 0
    <2> TAKE kinds
    <2>1. Count(node, kinds, Top) \in Nat
        BY <1>1, CountType
    <2>2. Top \in Nat /\ \A i \in 1..Top : node'[i].kind = node[i].kind
        BY <1>1, <1>11 DEF Alike
    <2>3. Count(node', kinds, Top) = Count(node, kinds, Top)
        BY <2>2, CountSame, Zenon
    <2>4. Count(node', kinds, Top + 1)
            = Count(node', kinds, Top) + IF node'[Top + 1].kind \in kinds THEN 1 ELSE 0
        BY <1>1, CountNext
    <2>5. Count(node', kinds, Top + 2)
            = Count(node', kinds, Top + 1) + IF node'[Top + 2].kind \in kinds THEN 1 ELSE 0
        BY <1>1, CountTwo
    <2> QED BY <1>7, <1>8, <1>9, <2>1, <2>3, <2>4, <2>5
<1>13. NodeSound(node', Top + 1)
    <2>1. Top + 1 # 1 /\ Top + 1 # 2 /\ (Top + 1) - 1 = Top
        BY <1>1
    <2>2. n.was_in = 1 <=> Count(node', {"function"}, Top) > 0
        BY <1>7, <1>12 DEF IInv, Counters
    <2> QED BY <1>7, <1>9, <2>1, <2>2 DEF NodeSound
<1>14. NodeSound(node', Top + 2)
    <2>1. Top + 2 # 1 /\ Top + 2 # 2 /\ (Top + 2) - 1 = Top + 1
          /\ (nested # <<>> => (Top + 2) + 2 <= MaxScopes)
        BY <1>1, <1>2
    <2> QED BY <1>7, <1>8, <1>9, <2>1 DEF NodeSound
<1>15. /\ Count(node', BlockKinds, Top + 2) = nesting_depth + 1
       /\ Count(node', FunctionKinds, Top + 1) = func_nesting_depth + 1
       /\ Count(node', FunctionKinds, Top + 2) = func_nesting_depth + 1
       /\ Count(node', {"function"}, Top + 2) > 0
    <2>1. nesting_depth = Count(node, BlockKinds, Top)
          /\ func_nesting_depth = Count(node, FunctionKinds, Top)
        BY DEF IInv, Counters
    <2>2. Count(node', BlockKinds, Top + 2) = nesting_depth + 1
        BY <1>12, <2>1 DEF BlockKinds
    <2>3. /\ Count(node', FunctionKinds, Top + 1) = func_nesting_depth + 1
          /\ Count(node', FunctionKinds, Top + 2) = func_nesting_depth + 1
        BY <1>12, <2>1 DEF FunctionKinds
    <2>4. Count(node', {"function"}, Top + 2) > 0
        BY <1>12
    <2> QED BY <2>2, <2>3, <2>4
<1>16. TableSound(scope'[Top + 1], Top + 1, node', {})
    <2>1. ASSUME NEW key \in DOMAIN t, NEW depth
          PROVE  /\ t[key] \in Infos /\ t[key].func_nesting_depth = func_nesting_depth + 1
                 /\ Named(key, t[key].kind, depth) /\ t[key].escaping # 1
        BY <1>6 DEF Headers, Named
    <2> QED BY <1>10, <1>15, <2>1 DEF TableSound
<1>17. Top' = Top + 2
    BY <1>10 DEF Top
<1>18. Shape' /\ Sound'
    <2> DEFINE m == Top + 2
    <2>1. \A i \in (Top + 1)..m : NodeSound(node', i) /\ TableSound(scope'[i], i, node', {})
        <3> TAKE i \in (Top + 1)..m
        <3>1. i = Top + 1 \/ i = Top + 2
            BY <1>1
        <3>2. TableSound(scope'[Top + 2], Top + 2, node', {})
            BY <1>10, EmptyTable
        <3> QED BY <1>13, <1>14, <1>16, <3>1, <3>2
    <2>2. m <= MaxScopes /\ Len(scope') = m /\ Len(node') = m /\ m \in {Top + 1, Top + 2}
        BY <1>9, <1>10
    <2>3. node[Top].kind # "function"
        BY <1>1 DEF BlockKinds
    <2> HIDE DEF m
    <2> QED BY <1>2, <1>9, <1>10, <1>11, <2>1, <2>2, <2>3, PushKeeps DEF IInv
<1>19. Counters'
    BY <1>2, <1>15, <1>17 DEF Counters
<1> QED BY <1>18, <1>19

LEMMA DefineKeeps ==
    ASSUME IInv, NEW fs \in Definitions,
           DefineFunction(fs) \/ \E f \in Functions : DefineInBranch(f, fs)
    PROVE  Shape' /\ Sound' /\ Counters'
<1>1. /\ Top \in Nat /\ Len(node) = Top /\ Top \in 1..MaxScopes /\ node \in Seq(Nodes)
    BY DEF IInv, Shape, Top
<1>2. CASE DefineFunction(fs)
    <2> DEFINE pending == node[Top].pending
               n == [node[Top] EXCEPT !.pending = Tail(pending)]
               outer == [node EXCEPT ![Top].pending = Tail(@)]
    <2>1. /\ InBody /\ pending # <<>>
          /\ EnterFunction(Head(pending), fs, outer)
        BY <1>2 DEF DefineFunction
    <2>2. node[Top] \in Nodes /\ NodeSound(node, Top)
        BY <1>1 DEF IInv, Sound
    <2>3. pending \in Seq(Functions) /\ Top + 2 <= MaxScopes
        BY <2>1, <2>2 DEF Nodes, NodeSound
    <2> HIDE DEF pending
    <2>4. Head(pending) \in Functions /\ Tail(pending) \in Seq(Functions)
        BY <2>1, <2>3
    <2>5. /\ n \in Nodes /\ n.kind = node[Top].kind /\ n.was_in = node[Top].was_in
          /\ n.more = node[Top].more /\ n.r = node[Top].r /\ n.ends = node[Top].ends
        BY <2>2, <2>4 DEF Nodes
    <2>6. outer = [node EXCEPT ![Top] = n]
        BY <1>1, <2>2 DEF pending
    <2>7. Alike(node[Top], n)
        BY <2>1, <2>5 DEF Alike, pending
    <2> HIDE DEF n, outer
    <2>8. /\ outer \in Seq(Nodes) /\ Len(outer) = Top
          /\ \A i \in 1..Top : outer[i] = IF i = Top THEN n ELSE node[i]
        BY <1>1, <2>5, <2>6
    <2>9. \A i \in 1..Top : /\ Alike(node[i], outer[i])
                            /\ outer[i].r = node[i].r /\ outer[i].ends = node[i].ends
        BY <2>5, <2>7, <2>8 DEF Alike
    <2> QED BY <2>1, <2>3, <2>4, <2>8, <2>9, EnterFunctionKeeps
<1>3. ASSUME NEW f \in Functions, DefineInBranch(f, fs)
      PROVE  Shape' /\ Sound' /\ Counters'
    <2>1. InBody /\ Top + 2 <= MaxScopes /\ EnterFunction(f, fs, node)
        BY <1>3 DEF DefineInBranch, InBody, At
    <2>2. \A i \in 1..Top : Alike(node[i], node[i])
        BY DEF Alike
    <2> QED BY <1>1, <2>1, <2>2, EnterFunctionKeeps
<1> QED BY <1>2, <1>3

-------------------------------------------------------------------------------
(***************************************************************************)
(* The rest of the state.                                                  *)
(***************************************************************************)
LEMMA GrowSteps ==
    ASSUME Others, NEW n \in Nat, Grow(n)
    PROVE  steps' \in 0..MaxSteps
BY ScopeAssumption DEF Others, Grow

LEMMA DefinitionOthers ==
    ASSUME Others, NEW f, NEW nested \in Definitions, NEW outer, NEW n \in Nat,
           Grow(n + Len(nested)), EnterFunction(f, nested, outer)
    PROVE  Others'
<1>1. Len(nested) \in Nat
    BY DefinitionsType
<1>2. n + Len(nested) \in Nat
    BY <1>1
<1>3. steps' \in 0..MaxSteps
    BY <1>2, GrowSteps
<1>4. errors' \subseteq Messages
    BY DEF EnterFunction, Others, Report, Messages
<1> QED BY <1>3, <1>4 DEF EnterFunction, Others

LEMMA OthersKeeps ==
    ASSUME Others, Next
    PROVE  Others'
<1>1. ASSUME NEW fs \in Definitions, EnterModule(fs) PROVE Others'
    <2>1. 1 + Len(fs) \in Nat
        BY DefinitionsType
    <2>2. Grow(1 + Len(fs))
        BY <1>1 DEF EnterModule
    <2>3. steps' \in 0..MaxSteps
        BY <2>1, <2>2, GrowSteps
    <2>4. main_def' \in {0, 1} /\ errors' \subseteq Messages /\ phase' = phase
        BY <1>1 DEF EnterModule, Others, Report, Messages
    <2> QED BY <2>3, <2>4 DEF Others
<1>2. ASSUME NEW fs \in Definitions, DefineFunction(fs) PROVE Others'
    <2>1. Grow(0 + Len(fs))
        BY <1>2, DefinitionsType DEF DefineFunction
    <2> QED BY <1>2, <2>1, DefinitionOthers DEF DefineFunction
<1>3. ASSUME NEW f \in Functions, NEW fs \in Definitions, DefineInBranch(f, fs)
      PROVE  Others'
    BY <1>3, DefinitionOthers DEF DefineInBranch
<1>4. ASSUME NEW x \in Names, DeclareVariable(x) PROVE Others'
    <2>1. steps' \in 0..MaxSteps
        BY <1>4, GrowSteps DEF DeclareVariable
    <2> QED BY <1>4, <2>1 DEF DeclareVariable, Others, Report, Messages, counters
<1>5. ASSUME NEW x \in Names, DeclareArray(x) PROVE Others'
    <2>1. steps' \in 0..MaxSteps
        BY <1>5, GrowSteps DEF DeclareArray
    <2> QED BY <1>5, <2>1 DEF DeclareArray, Others, Report, Messages, counters
<1>6. ASSUME NEW x \in Names, Use(x) PROVE Others'
    <2>1. steps' \in 0..MaxSteps
        BY <1>6, GrowSteps DEF Use
    <2> QED BY <1>6, <2>1 DEF Use, Others, Report, Messages, counters
<1>7. ASSUME NEW x \in Names, UseUnknown(x) PROVE Others'
    <2>1. steps' \in 0..MaxSteps
        BY <1>7, GrowSteps DEF UseUnknown
    <2> QED BY <1>7, <2>1 DEF UseUnknown, Others, Messages, counters
<1>8. ASSUME NEW x, NEW n, Call(x, n) PROVE Others'
    <2>1. steps' \in 0..MaxSteps
        BY <1>8, GrowSteps DEF Call
    <2> QED BY <1>8, <2>1 DEF Call, Others, Report, Messages, counters
<1>9. CASE Return
    <2>1. steps' \in 0..MaxSteps
        BY <1>9, GrowSteps DEF Return
    <2> QED BY <1>9, <2>1 DEF Return, Others, Report, Messages, counters
<1>10. CASE EnterIf \/ EnterWhile
    <2>1. PICK statement : EnterBranch(statement)
        BY <1>10 DEF EnterIf, EnterWhile
    <2>2. steps' \in 0..MaxSteps
        BY <2>1, GrowSteps DEF EnterBranch
    <2> QED BY <2>1, <2>2 DEF EnterBranch, Others
<1>11. CASE EnterElse
    BY <1>11 DEF EnterElse, Others
<1>12. CASE LeaveBlock \/ LeaveStatement \/ LeaveModule
    BY <1>12 DEF LeaveBlock, LeaveStatement, LeaveModule, Others, counters
<1>13. CASE LeaveFunction
    BY <1>13 DEF LeaveFunction, Others, Report, Messages
<1>14. CASE Finish
    BY <1>14 DEF Finish, Others, Report, Messages, counters
<1>15. CASE Stopped
    BY <1>15 DEF Stopped, vars, Others, counters
<1> QED BY <1>1, <1>2, <1>3, <1>4, <1>5, <1>6, <1>7, <1>8, <1>9, <1>10, <1>11, <1>12,
           <1>13, <1>14, <1>15 DEF Next

(***************************************************************************)
(* Every step of the walk keeps the invariant.                             *)
(***************************************************************************)
LEMMA NextIInv == IInv /\ [Next]_vars => IInv'
<1> SUFFICES ASSUME IInv, [Next]_vars PROVE IInv'
    OBVIOUS
<1>1. CASE Next
    <2>1. Others'
        BY <1>1, OthersKeeps DEF IInv
    <2>2. ASSUME NEW fs \in Definitions, EnterModule(fs) \/ DefineFunction(fs)
          PROVE  Shape' /\ Sound' /\ Counters'
        BY <2>2, EnterModuleKeeps, DefineKeeps
    <2>3. ASSUME NEW f \in Functions, NEW fs \in Definitions, DefineInBranch(f, fs)
          PROVE  Shape' /\ Sound' /\ Counters'
        BY <2>3, DefineKeeps
    <2>4. ASSUME NEW x \in Names, DeclareVariable(x) \/ DeclareArray(x)
          PROVE  Shape' /\ Sound' /\ Counters'
        BY <2>4, DeclareKeeps
    <2>5. ASSUME NEW x \in Names, Use(x) PROVE Shape' /\ Sound' /\ Counters'
        BY <2>5, UseKeeps
    <2>6. ASSUME NEW x \in Names, UseUnknown(x) PROVE Shape' /\ Sound' /\ Counters'
        BY <2>6, StayKeeps DEF IInv, UseUnknown, counters
    <2>7. ASSUME NEW x, NEW n, Call(x, n) PROVE Shape' /\ Sound' /\ Counters'
        BY <2>7, StayKeeps DEF IInv, Call, counters
    <2>8. ASSUME Finish
          PROVE  Shape' /\ Sound' /\ Counters'
        BY <2>8, StayKeeps DEF IInv, Finish, counters
    <2>9. ASSUME Stopped
          PROVE  Shape' /\ Sound' /\ Counters'
        BY <2>9, StayKeeps DEF IInv, Stopped, vars, counters
    <2>10. ASSUME Return \/ EnterIf \/ EnterElse \/ EnterWhile
          PROVE  Shape' /\ Sound' /\ Counters'
        BY <2>10, ReturnKeeps, EnterBranchKeeps, EnterElseKeeps
    <2>11. ASSUME LeaveBlock \/ LeaveStatement \/ LeaveFunction \/ LeaveModule
          PROVE  Shape' /\ Sound' /\ Counters'
        BY <2>11, LeaveBlockKeeps, LeaveStatementKeeps, LeaveOuterKeeps
    <2>12. Shape' /\ Sound' /\ Counters'
        BY <1>1, <2>2, <2>3, <2>4, <2>5, <2>6, <2>7, <2>8, <2>9, <2>10, <2>11 DEF Next
    <2> QED BY <2>1, <2>12 DEF IInv
<1>2. CASE UNCHANGED vars
    <2>1. Shape' /\ Sound' /\ Counters'
        BY <1>2, StayKeeps DEF IInv, vars, counters
    <2>2. Others'
        BY <1>2 DEF IInv, Others, vars, counters
    <2> QED BY <2>1, <2>2 DEF IInv
<1> QED BY <1>1, <1>2

(***************************************************************************)
(* The walk of recurse_scope keeps its types, with any nesting of any      *)
(* declarations: what is bound is a function, a parameter, a variable or   *)
(* an array, at a depth the walk has been at.                              *)
(***************************************************************************)
THEOREM ScopeTyped == Spec => []TypeOK
<1>1. Spec => []IInv
    BY InitIInv, NextIInv, PTL DEF Spec
<1> QED BY <1>1, IInvTypes, PTL

(***************************************************************************)
(* nesting_depth, func_nesting_depth and is_in_function, which are changed *)
(* on the way into and out of each kind of node, count the nodes around    *)
(* the one being visited, and every binding knows the functions around it. *)
(***************************************************************************)
THEOREM DepthsAreStatic == Spec => []StaticDepths
<1>1. Spec => []IInv
    BY InitIInv, NextIInv, PTL DEF Spec
<1> QED BY <1>1, IInvDepths, PTL

(***************************************************************************)
(* Asking for one label after the other, from the greatest depth, finds    *)
(* the nearest scope that declares the name.                               *)
(***************************************************************************)
THEOREM ResolutionIsLexical == Spec => []ResolvesLexically
<1>1. Spec => []IInv
    BY InitIInv, NextIInv, PTL DEF Spec
<1> QED BY <1>1, IInvResolves, PTL

(***************************************************************************)
(* escaping is set for exactly the bindings a function inside uses.        *)
(***************************************************************************)
THEOREM EscapesAreCaptures == Spec => []EscapesMarked
<1>1. Spec => []IInv
    BY InitIInv, NextIInv, PTL DEF Spec
<1> QED BY <1>1, IInvDepths, PTL

-------------------------------------------------------------------------------
(***************************************************************************)
(* Steps and lookups: what is bound stays bound where it was, and what is  *)
(* bound anew was bound nowhere.                                           *)
(***************************************************************************)
Marked(v) == [v EXCEPT !.escaping = 1]

KeepsBindings(key) ==
    \A j \in DOMAIN scope \cap DOMAIN scope' :
        /\ key \in DOMAIN scope'[j] <=> key \in DOMAIN scope[j]
        /\ key \in DOMAIN scope[j] => scope'[j][key] \in {scope[j][key], Marked(scope[j][key])}

Bound(key) == \E j \in DOMAIN scope : key \in DOMAIN scope[j]

\* A label made of the current depth is bound in the innermost table or nowhere.
LEMMA FreshLabel ==
    ASSUME IInv, InBody, NEW x,
           Bound(scope_generate_label(x, nesting_depth))
    PROVE  scope_generate_label(x, nesting_depth) \in DOMAIN scope[Top]
<1> DEFINE label == scope_generate_label(x, nesting_depth)
<1>1. /\ Top \in 2..MaxScopes /\ Top \in Nat /\ node[Top].kind \in BlockKinds
      /\ DOMAIN scope = 1..Top
    BY BodyDepths, ScopeAssumption DEF IInv, Shape, Top
<1>2. PICK j \in 1..Top : label \in DOMAIN scope[j]
    BY <1>1 DEF Bound
<1>3. j \in Nat /\ j <= Top
    BY <1>1
<1>4. nesting_depth = Count(node, BlockKinds, j)
    <2>1. TableSound(scope[j], j, node, captured)
        BY DEF IInv, Sound
    <2>2. Named(label, scope[j][label].kind, Count(node, BlockKinds, j))
        BY <1>2, <2>1 DEF TableSound
    <2> QED BY <2>2 DEF Named, Plain, scope_generate_label
<1>5. Count(node, BlockKinds, j) = Count(node, BlockKinds, Top)
    BY <1>4 DEF IInv, Counters
<1>6. ~ \E k \in (j + 1)..Top : node[k].kind \in BlockKinds
    BY <1>1, <1>3, <1>5, CountGrows
<1>7. j = Top
    <2>1. j < Top => Top \in (j + 1)..Top
        BY <1>1, <1>3
    <2> QED BY <1>1, <1>3, <1>6, <2>1
<1> QED BY <1>2, <1>7

LEMMA DeclareKeepsBindings ==
    ASSUME IInv, NEW x, DeclareVariable(x) \/ DeclareArray(x), NEW key, Bound(key)
    PROVE  KeepsBindings(key)
<1> DEFINE label == scope_generate_label(x, nesting_depth)
<1>1. InBody
    BY DEF DeclareVariable, DeclareArray
<1>2. \/ scope' = scope
      \/ \E info : scope' = symbol_table_insert(scope, label, info)
    BY DEF DeclareVariable, DeclareArray
<1>3. scope \in Seq(Tables) /\ Top = Len(scope) /\ DOMAIN scope = 1..Top
    BY DEF IInv, Shape, Top
<1>4. CASE scope' = scope
    BY <1>4 DEF KeepsBindings
<1>5. ASSUME NEW info, scope' = symbol_table_insert(scope, label, info)
      PROVE  KeepsBindings(key)
    <2>1. CASE label \in DOMAIN scope[Top]
        BY <1>3, <1>5, <2>1 DEF symbol_table_insert, KeepsBindings
    <2>2. CASE label \notin DOMAIN scope[Top]
        <3> DEFINE t == Bind(scope[Top], label, info)
        <3>1. scope' = [scope EXCEPT ![Top] = t]
            BY <1>3, <1>5, <2>2 DEF symbol_table_insert
        <3>2. key # label
            BY <1>1, <2>2, FreshLabel
        <3>3. /\ key \in DOMAIN t <=> key \in DOMAIN scope[Top]
              /\ key \in DOMAIN t => t[key] = scope[Top][key]
            BY <3>2 DEF Bind
        <3> HIDE DEF t
        <3> QED BY <1>3, <3>1, <3>3 DEF KeepsBindings
    <2> QED BY <2>1, <2>2
<1> QED BY <1>2, <1>4, <1>5

LEMMA UseKeepsBindings ==
    ASSUME IInv, NEW x \in Names, Use(x), NEW key
    PROVE  KeepsBindings(key)
<1> DEFINE used == Resolve(x)
           at == Nearest(scope, used)
           t == [scope[at] EXCEPT ![used] = Marked(scope[at][used])]
<1>1. /\ InBody /\ Known(x)
      /\ scope' = scope \/ scope' = [scope EXCEPT ![at][used].escaping = 1]
    BY DEF Use
<1>2. at \in 1..Top /\ used \in DOMAIN scope[at]
    BY <1>1, ResolveBound
<1>3. scope \in Seq(Tables) /\ DOMAIN scope = 1..Top /\ Top = Len(scope)
    BY DEF IInv, Shape, Top
<1> HIDE DEF used, at
<1>4. scope' = scope \/ scope' = [scope EXCEPT ![at] = t]
    BY <1>1 DEF Marked
<1>5. \E D : scope[at] \in [D -> Infos]
    <2>1. scope[at] \in Tables
        BY <1>2, <1>3
    <2> QED BY <2>1 DEF Tables
<1>6. /\ DOMAIN t = DOMAIN scope[at]
      /\ \A k \in DOMAIN scope[at] : t[k] \in {scope[at][k], Marked(scope[at][k])}
    BY <1>5
<1> HIDE DEF t
<1> QED BY <1>2, <1>3, <1>4, <1>6 DEF KeepsBindings

LEMMA StepKeepsBindings ==
    ASSUME IInv, [Next]_vars, NEW key, Bound(key)
    PROVE  KeepsBindings(key)
<1>1. scope \in Seq(Tables) /\ Top = Len(scope) /\ DOMAIN scope = 1..Top /\ Top \in Nat
      /\ Top >= 1
    BY DEF IInv, Shape, Top
<1>2. ASSUME UNCHANGED scope PROVE KeepsBindings(key)
    BY <1>2 DEF KeepsBindings
<1>3. ASSUME NEW t, scope' = Append(scope, t) PROVE KeepsBindings(key)
    <2>1. \A j \in 1..Top : scope'[j] = scope[j]
        BY <1>1, <1>3
    <2> QED BY <1>1, <2>1 DEF KeepsBindings
<1>4. ASSUME NEW t, NEW u, scope' = scope \o <<t, u>> PROVE KeepsBindings(key)
    <2>1. \A j \in 1..Top : scope'[j] = scope[j]
        BY <1>1, <1>4
    <2> QED BY <1>1, <2>1 DEF KeepsBindings
<1>5. ASSUME NEW nodes, Leave(nodes) PROVE KeepsBindings(key)
    <2>1. \A j \in DOMAIN scope' : scope'[j] = scope[j]
        BY <1>1, <1>5 DEF Leave
    <2> QED BY <2>1 DEF KeepsBindings
<1>6. ASSUME NEW fs, NEW f, NEW outer, EnterFunction(f, fs, outer) PROVE KeepsBindings(key)
    BY <1>4, <1>6 DEF EnterFunction
<1>7. CASE Next
    <2>1. ASSUME NEW fs, EnterModule(fs) PROVE KeepsBindings(key)
        BY <1>3, <2>1 DEF EnterModule
    <2>2. ASSUME NEW fs, DefineFunction(fs) PROVE KeepsBindings(key)
        BY <1>6, <2>2 DEF DefineFunction
    <2>3. ASSUME NEW f, NEW fs, DefineInBranch(f, fs) PROVE KeepsBindings(key)
        BY <1>6, <2>3 DEF DefineInBranch
    <2>4. ASSUME NEW x \in Names, DeclareVariable(x) \/ DeclareArray(x)
          PROVE  KeepsBindings(key)
        BY <2>4, DeclareKeepsBindings
    <2>5. ASSUME NEW x \in Names, Use(x) PROVE KeepsBindings(key)
        BY <2>5, UseKeepsBindings
    <2>6. ASSUME NEW x, NEW n, UseUnknown(x) \/ Call(x, n) PROVE KeepsBindings(key)
        BY <1>2, <2>6 DEF UseUnknown, Call
    <2>7. ASSUME Return \/ Finish \/ Stopped PROVE KeepsBindings(key)
        BY <1>2, <2>7 DEF Return, Finish, Stopped, vars
    <2>8. ASSUME EnterIf \/ EnterWhile PROVE KeepsBindings(key)
        <3>1. PICK statement : EnterBranch(statement)
            BY <2>8 DEF EnterIf, EnterWhile
        <3> QED BY <1>4, <3>1 DEF EnterBranch
    <2>9. ASSUME EnterElse PROVE KeepsBindings(key)
        BY <1>3, <2>9 DEF EnterElse
    <2>10. ASSUME LeaveBlock \/ LeaveStatement \/ LeaveFunction \/ LeaveModule
           PROVE  KeepsBindings(key)
        <3>1. PICK nodes : Leave(nodes)
            BY <2>10 DEF LeaveBlock, LeaveStatement, LeaveFunction, LeaveModule
        <3> QED BY <1>5, <3>1
    <2> QED BY <1>7, <2>1, <2>2, <2>3, <2>4, <2>5, <2>6, <2>7, <2>8, <2>9, <2>10 DEF Next
<1>8. CASE UNCHANGED vars
    BY <1>2, <1>8 DEF vars
<1> QED BY <1>7, <1>8

(***************************************************************************)
(* Two chains that bind a key in the same tables answer a lookup alike.    *)
(***************************************************************************)
LEMMA LookupKept ==
    ASSUME NEW c \in Seq(Tables), NEW d \in Seq(Tables), Len(c) = Len(d), NEW key,
           symbol_table_contains(c, key),
           \A j \in 1..Len(c) : key \in DOMAIN d[j] <=> key \in DOMAIN c[j],
           \A j \in 1..Len(c) : key \in DOMAIN c[j] => d[j][key] \in {c[j][key], Marked(c[j][key])}
    PROVE  /\ Nearest(d, key) = Nearest(c, key)
           /\ symbol_table_get(d, key)
                \in {symbol_table_get(c, key), Marked(symbol_table_get(c, key))}
<1>1. Holders(d, key) = Holders(c, key)
    BY DEF Holders
<1>2. Nearest(d, key) = Nearest(c, key)
    BY <1>1 DEF Nearest
<1> DEFINE at == Nearest(c, key)
<1>3. at \in 1..Len(c) /\ key \in DOMAIN c[at]
    BY NearestIs
<1> HIDE DEF at
<1>4. d[at][key] \in {c[at][key], Marked(c[at][key])}
    BY <1>3
<1> QED BY <1>2, <1>4 DEF symbol_table_get, at

(***************************************************************************)
(* Type checking and code generation look names up again: what a key names *)
(* in a scope stays what it names there, through every later declaration,  *)
(* and only its mark changes, from 0 to 1.                                 *)
(***************************************************************************)
THEOREM LookupsAreStable == Spec => LookupsStay
<1> DEFINE Kept ==
        \A i \in DOMAIN scope \cap DOMAIN scope' :
         \A key \in UNION {DOMAIN scope[j] : j \in 1..i} :
            LET before == symbol_table_get(SubSeq(scope, 1, i), key)
                after  == symbol_table_get(SubSeq(scope, 1, i), key)'
            IN  /\ Nearest(SubSeq(scope', 1, i), key) = Nearest(SubSeq(scope, 1, i), key)
                /\ after \in {before, [before EXCEPT !.escaping = 1]}
<1>1. IInv /\ IInv' /\ [Next]_vars => Kept
    <2> SUFFICES ASSUME IInv, IInv', [Next]_vars,
                        NEW i \in DOMAIN scope \cap DOMAIN scope',
                        NEW key \in UNION {DOMAIN scope[j] : j \in 1..i}
                 PROVE  LET c == SubSeq(scope, 1, i)
                            d == SubSeq(scope', 1, i)
                        IN  /\ Nearest(d, key) = Nearest(c, key)
                            /\ symbol_table_get(d, key)
                                 \in {symbol_table_get(c, key), Marked(symbol_table_get(c, key))}
        BY DEF Marked
    <2>1. scope \in Seq(Tables) /\ scope' \in Seq(Tables)
        BY DEF IInv, Shape
    <2>2. i \in 1..Len(scope) /\ i \in 1..Len(scope') /\ i \in Nat
        BY <2>1
    <2> DEFINE c == SubSeq(scope, 1, i)
               d == SubSeq(scope', 1, i)
    <2>3. /\ c \in Seq(Tables) /\ Len(c) = i /\ \A j \in 1..i : c[j] = scope[j]
          /\ d \in Seq(Tables) /\ Len(d) = i /\ \A j \in 1..i : d[j] = scope'[j]
        BY <2>1, <2>2
    <2> HIDE DEF c, d
    <2>4. PICK k \in 1..i : key \in DOMAIN scope[k]
        OBVIOUS
    <2>5. KeepsBindings(key)
        <3>1. Bound(key)
            BY <2>1, <2>2, <2>4 DEF Bound
        <3> QED BY <3>1, StepKeepsBindings
    <2>6. \A j \in 1..i :
             /\ key \in DOMAIN d[j] <=> key \in DOMAIN c[j]
             /\ key \in DOMAIN c[j] => d[j][key] \in {c[j][key], Marked(c[j][key])}
        BY <2>1, <2>2, <2>3, <2>5 DEF KeepsBindings
    <2>7. symbol_table_contains(c, key)
        BY <2>3, <2>4 DEF symbol_table_contains, Holders
    <2>8. /\ Nearest(d, key) = Nearest(c, key)
          /\ symbol_table_get(d, key)
               \in {symbol_table_get(c, key), Marked(symbol_table_get(c, key))}
        BY <2>3, <2>6, <2>7, LookupKept
    <2> QED BY <2>8 DEF c, d
<1>2. IInv /\ IInv' /\ [Next]_vars => [Kept]_vars
    BY <1>1
<1>3. Spec => [][Kept]_vars
    <2> HIDE DEF Kept
    <2> QED BY <1>2, InitIInv, NextIInv, PTL DEF Spec
<1> QED BY <1>3 DEF LookupsStay

(***************************************************************************)
(* A function with a result and a path off its end is reported when it is  *)
(* left: the result of a body is 1 only if all its paths return.           *)
(***************************************************************************)
THEOREM EveryMissingReturnReported == Spec => MissingReturnReported
<1> DEFINE Reported ==
        /\ node[Top].kind = "function" /\ Len(scope') < Top
        /\ ~node[Top].void /\ ~node[Top].ends
        => "missing return" \in errors'
<1>1. IInv /\ [Next]_vars => Reported
    <2> SUFFICES ASSUME IInv, [Next]_vars, node[Top].kind = "function", Len(scope') < Top,
                        ~node[Top].void, ~node[Top].ends
                 PROVE  "missing return" \in errors'
        OBVIOUS
    <2>1. Top \in 1..Top /\ Top \in Nat /\ Top = Len(scope) /\ node[Top] \in Nodes
        BY DEF IInv, Shape, Top
    <2>2. scope' # scope
        BY <2>1
    <2>3. Next
        BY <2>2 DEF vars
    <2>4. LeaveFunction
        <3>1. ~ InBody
            BY DEF InBody, At
        <3>2. \A fs \in Definitions : ~ EnterModule(fs) /\ ~ DefineFunction(fs)
            BY <3>1 DEF EnterModule, DefineFunction, At
        <3>3. \A f, fs : ~ DefineInBranch(f, fs)
            BY DEF DefineInBranch, At
        <3>4. \A x, n : /\ ~ DeclareVariable(x) /\ ~ DeclareArray(x) /\ ~ Use(x)
                        /\ ~ UseUnknown(x) /\ ~ Call(x, n)
            BY <3>1 DEF DeclareVariable, DeclareArray, Use, UseUnknown, Call
        <3>5. ~ Return /\ ~ EnterIf /\ ~ EnterWhile /\ ~ EnterElse
            BY <3>1 DEF Return, EnterIf, EnterWhile, EnterElse, EnterBranch, At
        <3>6. ~ LeaveBlock /\ ~ LeaveStatement /\ ~ LeaveModule
            BY DEF LeaveBlock, LeaveStatement, LeaveModule, At
        <3>7. ~ Finish /\ ~ Stopped
            BY <2>2 DEF Finish, Stopped, vars
        <3> QED BY <2>3, <3>2, <3>3, <3>4, <3>5, <3>6, <3>7 DEF Next
    <2>5. NodeSound(node, Top)
        BY <2>1 DEF IInv, Sound
    <2>6. node[Top].r = 0
        BY <2>1, <2>5 DEF NodeSound, Nodes
    <2> QED BY <2>4, <2>6 DEF LeaveFunction, Report
<1>2. IInv /\ [Next]_vars => [Reported]_vars
    BY <1>1
<1>3. Spec => [][Reported]_vars
    <2> HIDE DEF Reported
    <2> QED BY <1>2, InitIInv, NextIInv, PTL DEF Spec
<1> QED BY <1>3 DEF MissingReturnReported
===============================================================================
