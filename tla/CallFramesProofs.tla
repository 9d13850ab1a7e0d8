---------------------------- MODULE CallFramesProofs ----------------------------
(***************************************************************************)
(* The calling convention, for every program the code is right for, every  *)
(* number of registers and every depth of calls.                           *)
(***************************************************************************)
EXTENDS CallFrames, ChainFacts, FiniteSetTheorems

(***************************************************************************)
(* Type correctness.                                                       *)
(***************************************************************************)
CallRecord == [fn : Functions, args : Seq(Value), pops : Nat]

Activation ==
    [fn : Functions, fp : Nat, env : [Functions -> Nat],
     holds : SUBSET (1..MAX_REG), declared : SUBSET Nat,
     count : Nat, calls : Seq(CallRecord)]

Typed ==
    /\ stack \in Seq(Value) /\ reg \in [Registers -> Value]
    /\ acts \in Seq(Activation) /\ n \in 1..MaxActive
    /\ pc \in {"body", "call", "find", "pop"}
    /\ goal \in Functions /\ hops \in Nat
    /\ \A i \in 1..n : /\ acts[i].holds \subseteq Written[acts[i].fn]
                       /\ acts[i].declared \subseteq Variables(acts[i].fn)

(***************************************************************************)
(* The inductive invariant, of a stack m and a sequence s of activations.  *)
(* An activation knows itself, what it knows are activations of the        *)
(* enclosing functions that began no later, and it agrees with each of     *)
(* them on everything around that one.                                     *)
(***************************************************************************)
Agrees(s, i) ==
    \A k \in Enclosing[s[i].fn] : \A h \in Enclosing[k] :
      s[i].env[h] = s[s[i].env[k]].env[h]

KnowsAt(s, i) ==
    /\ s[i].env[s[i].fn] = i
    /\ \A h \in Enclosing[s[i].fn] :
         s[i].env[h] \in 1..i /\ s[s[i].env[h]].fn = h
    /\ Agrees(s, i)
    /\ s[i].fn = Module <=> i = 1

Knows(s) == \A i \in 1..Len(s) : KnowsAt(s, i)

\* The words an activation has pushed beyond its frame: the parameters its
\* arguments displaced and the arguments after the fourth; a call pushes the
\* rest of the parameters.
InRegisters(f) == Least(Params[f], 4)
Displaced(a)   == IF Params[a.fn] = 0 THEN 0 ELSE Least(a.count, 4)
Words(a)       == Displaced(a) + (a.count - Least(a.count, 4))
Rest(a)        == IF InRegisters(a.fn) > a.count THEN InRegisters(a.fn) - a.count ELSE 0
Top(a)         == a.fp + max_offset[a.fn] + Words(a)

\* The calls of an activation are to functions it may call, and only the
\* last of them has been given arguments.
InTurn(a) ==
    \A k \in 1..Len(a.calls) :
      /\ a.calls[k].fn \in Calls[a.fn]
      /\ k < Len(a.calls) => a.calls[k].args = <<>> /\ a.calls[k].pops = 0

\* Whose turn it is: the last call.
Turn(a) == a.calls[Len(a.calls)]

\* An activation whose call has been entered, and the one called.
Waits(a, b) ==
    /\ InTurn(a) /\ a.calls # <<>>
    /\ Turn(a).fn = b.fn /\ Turn(a).args = <<>> /\ Turn(a).pops = 0
    /\ a.count = Params[b.fn]
    /\ b.fp = Top(a) + Rest(a) + 3

\* The link, the return address and the saved rbp of the i-th activation.
Framed(m, s, i) ==
    /\ m[s[i].fp] = <<"fp", s[i - 1].fp>>
    /\ m[s[i].fp - 1] = <<"return", i - 1>>
    /\ m[s[i].fp - 2] = <<"fp", s[s[i].env[Outer[s[i].fn]]].fp>>

Frozen(m, s) ==
    /\ Knows(s)
    /\ s[1].fp = 0
    /\ \A i \in 1..Len(s) - 1 : Waits(s[i], s[i + 1])
    /\ \A i \in 2..Len(s) : Framed(m, s, i)

\* How far the running activation is with its last call.
AtBody(a) ==
    IF a.calls = <<>> THEN a.count = 0
    ELSE a.count = Len(Turn(a).args) /\ Turn(a).pops = 0 /\ a.count <= Params[Turn(a).fn]
AtCall(a, g) ==
    /\ a.calls # <<>> /\ Turn(a).fn = g /\ Turn(a).pops = 0
    /\ a.count = Len(Turn(a).args) /\ a.count = Params[g]
AtPop(a) ==
    /\ a.calls # <<>> /\ Turn(a).args = <<>> /\ a.count > 0
    /\ Turn(a).pops = Least(a.count, 4) + (IF a.count > 4 THEN 1 ELSE 0)
    /\ a.count <= Params[Turn(a).fn]
    /\ a.count > 4 => a.count = Params[Turn(a).fn]

AtPoint(m, a, k, at, g) ==
    /\ InTurn(a)
    /\ a.calls # <<>> => k < MaxActive
    /\ Len(m) = Top(a) + (IF at = "call" THEN Rest(a) ELSE 0)
    /\ at \in {"body", "find"} => AtBody(a)
    /\ at = "call" => AtCall(a, g)
    /\ at = "pop" => AtPop(a)

\* A traversal has reached a frame that agrees with the running one about the
\* target, which is as many levels out as there are hops left.
Target(at, g) == IF at = "call" THEN Outer[g] ELSE g
Reached(s, t, j, r, h) ==
    /\ r = s[j].fp
    /\ t \in Enclosing[s[j].fn]
    /\ s[j].env[t] = s[Len(s)].env[t]
    /\ h = Depth[s[j].fn] - Depth[t]
Traverses(s, t, r, h) ==
    /\ t \in Enclosing[s[Len(s)].fn]
    /\ \E j \in 1..Len(s) : Reached(s, t, j, r, h)

Shape ==
    /\ Frozen(stack, acts) /\ rbp = Running.fp
    /\ AtPoint(stack, Running, n, pc, goal)
    /\ Walking => Traverses(acts, Target(pc, goal), rax, hops)
    /\ ~Walking => rax = 0

IInv == Typed /\ Shape

(***************************************************************************)
(* The walks over the segments.                                            *)
(***************************************************************************)

\* What one level of the recursion in Walks computes from the one below it.
Level(ends, d, further) ==
    [s \in 0..Len(Segments) |->
       IF d = 0 \/ s = 0 THEN <<>>
       ELSE LET ops   == Segments[s].ops
                stops == {i \in DOMAIN ops : ops[i].op \in ends}
            IN  IF ops = <<>> THEN <<>>
                ELSE IF stops # {} THEN SubSeq(ops, 1, Min(stops) - 1)
                ELSE ops \o further[Segments[s].left] \o further[Segments[s].right]]

WalkType == [0..Len(Segments) -> Seq(Operation)]

\* A set of positions that is not empty has a first and a last one.
LEMMA FirstOf ==
    ASSUME NEW k \in Nat, NEW S, S \subseteq 1..k, S # {}
    PROVE  Min(S) \in S /\ \A i \in S : Min(S) <= i
<1>1. \E x \in S : \A y \in S : x <= y
    <2>1. S \subseteq Nat
        OBVIOUS
    <2> QED BY <2>1, LeastNumber
<1> QED BY <1>1, Zenon DEF Min

LEMMA LastOf ==
    ASSUME NEW k \in Nat, NEW S, S \subseteq 0..k, S # {}
    PROVE  Max(S) \in S /\ \A i \in S : i <= Max(S)
<1> DEFINE T == {k - x : x \in S}
<1>1. PICK y \in T : \A z \in T : y <= z
    <2>1. \A x \in S : k - x \in Nat
        BY \A x \in S : x \in 0..k
    <2>2. T \subseteq Nat /\ T # {}
        BY <2>1
    <2> HIDE DEF T
    <2> QED BY <2>2, LeastNumber
<1>2. PICK x \in S : y = k - x
    BY <1>1
<1>3. \A i \in S : x >= i
    <2> TAKE i \in S
    <2>1. k - i \in T /\ x \in Nat /\ i \in Nat
        OBVIOUS
    <2> QED BY <2>1, <1>1, <1>2
<1>4. Max(S) \in S /\ \A i \in S : Max(S) >= i
    BY <1>3, Zenon DEF Max
<1>5. \A i \in S : Max(S) \in Nat /\ i \in Nat
    <2>1. \A i \in S : i \in Nat
        OBVIOUS
    <2> QED BY <1>4, <2>1
<1> QED BY <1>4, <1>5

\* A level is typed when the one below it is.
LEMMA LevelTyped ==
    ASSUME NEW ends, NEW d \in Nat, NEW further, d = 0 \/ further \in WalkType
    PROVE  Level(ends, d, further) \in WalkType
<1> SUFFICES ASSUME NEW s \in 0..Len(Segments)
             PROVE  Level(ends, d, further)[s] \in Seq(Operation)
    BY DEF Level, WalkType
<1>1. CASE d = 0 \/ s = 0
    BY <1>1 DEF Level
<1>2. CASE d # 0 /\ s # 0
    <2> DEFINE ops   == Segments[s].ops
               stops == {i \in DOMAIN ops : ops[i].op \in ends}
    <2>1. /\ ops \in Seq(Operation)
          /\ Segments[s].left \in 0..Len(Segments) /\ Segments[s].right \in 0..Len(Segments)
        <3>1. s \in DOMAIN Segments /\ Segments[s] \in [ops : Seq(Operation), left : Nat, right : Nat]
            <4>1. s \in 1..Len(Segments)
                BY <1>2
            <4> DEFINE Segment == [ops : Seq(Operation), left : Nat, right : Nat]
            <4>2. Segments \in Seq(Segment)
                BY SegmentAssumption
            <4>3. s \in DOMAIN Segments /\ Segments[s] \in Segment
                <5> HIDE DEF Segment
                <5> QED BY <4>1, <4>2
            <4> QED BY <4>3
        <3> QED BY <3>1, SegmentAssumption
    <2>2. ASSUME stops # {} PROVE SubSeq(ops, 1, Min(stops) - 1) \in Seq(Operation)
        <3>1. Len(ops) \in Nat /\ stops \subseteq 1..Len(ops)
            BY <2>1
        <3>2. Min(stops) \in 1..Len(ops)
            <4> HIDE DEF stops, ops
            <4> QED BY <2>2, <3>1, FirstOf
        <3> HIDE DEF stops, ops
        <3> QED BY <2>1, <3>2
    <2>3. ops \o further[Segments[s].left] \o further[Segments[s].right] \in Seq(Operation)
        <3>1. further[Segments[s].left] \in Seq(Operation) /\ further[Segments[s].right] \in Seq(Operation)
            BY <1>2, <2>1 DEF WalkType
        <3> QED BY <2>1, <3>1
    <2>4. Level(ends, d, further)[s] =
            IF ops = <<>> THEN <<>> ELSE IF stops # {} THEN SubSeq(ops, 1, Min(stops) - 1)
            ELSE ops \o further[Segments[s].left] \o further[Segments[s].right]
        BY <1>2 DEF Level
    <2>5. <<>> \in Seq(Operation)
        OBVIOUS
    <2> HIDE DEF ops, stops
    <2> QED BY <2>2, <2>3, <2>4, <2>5
<1> QED BY <1>1, <1>2

\* The levels exist up to any depth, so that the recursion has its meaning.
LEMMA LevelsExist ==
    ASSUME NEW ends, NEW k \in Nat
    PROVE  \E g : g = [d \in 0..k |-> Level(ends, d, g[d - 1])]
<1> DEFINE Exists(m) == \E g : g = [d \in 0..m |-> Level(ends, d, g[d - 1])]
           T == {m \in Nat : ~ Exists(m)}
<1> SUFFICES ASSUME T # {} PROVE FALSE
    OBVIOUS
<1>1. PICK m \in T : \A j \in T : m <= j
    <2>1. T \subseteq Nat
        OBVIOUS
    <2> HIDE DEF T
    <2> QED BY <2>1, LeastNumber
<1>2. m \in Nat /\ ~ Exists(m)
    OBVIOUS
<1>3. CASE m = 0
    <2>1. PICK g : g = [d \in 0..0 |-> Level(ends, 0, <<>>)]
        OBVIOUS
    <2>2. Level(ends, 0, <<>>) = Level(ends, 0, g[-1])
        BY DEF Level
    <2>3. g = [d \in 0..m |-> Level(ends, d, g[d - 1])]
        BY <1>3, <2>1, <2>2
    <2>4. Exists(m)
        BY <2>3, Zenon
    <2> HIDE DEF Exists
    <2> QED BY <1>2, <2>4
<1>4. CASE m # 0
    <2>1. m - 1 \in Nat /\ Exists(m - 1)
        BY <1>1, <1>2, <1>4, SMTT(30)
    <2>2. PICK g : g = [d \in 0..(m - 1) |-> Level(ends, d, g[d - 1])]
        BY <2>1
    <2>3. PICK h : h = [d \in 0..m |-> IF d < m THEN g[d] ELSE Level(ends, m, g[m - 1])]
        OBVIOUS
    <2>4. ASSUME NEW d \in 0..m PROVE h[d] = Level(ends, d, h[d - 1])
        <3>1. CASE d = m
            <4>1. h[d - 1] = g[m - 1] /\ h[d] = Level(ends, m, g[m - 1])
                BY <1>2, <1>4, <2>3, <3>1
            <4> QED BY <4>1, <3>1
        <3>2. CASE d # m /\ d # 0
            <4>1. h[d] = g[d] /\ h[d - 1] = g[d - 1] /\ d \in 0..(m - 1)
                BY <1>2, <2>3, <3>2
            <4>2. g[d] = Level(ends, d, g[d - 1])
                BY <2>2, <4>1
            <4> QED BY <4>1, <4>2
        <3>3. CASE d # m /\ d = 0
            <4>1. h[d] = g[d] /\ d \in 0..(m - 1)
                BY <1>2, <2>3, <3>3
            <4>2. g[d] = Level(ends, 0, g[d - 1])
                BY <2>2, <4>1, <3>3
            <4>3. Level(ends, 0, g[d - 1]) = Level(ends, 0, h[d - 1])
                BY DEF Level
            <4> QED BY <4>1, <4>2, <4>3, <3>3
        <3> QED BY <3>1, <3>2, <3>3
    <2>5. h = [d \in 0..m |-> Level(ends, d, h[d - 1])]
        BY <2>3, <2>4
    <2> QED BY <1>2, <2>5
<1> QED BY <1>3, <1>4

\* Every walk is a sequence of operations.
LEMMA WalkTyped ==
    ASSUME NEW ends, NEW f \in Functions
    PROVE  Walked(f, ends) \in Seq(Operation)
<1> DEFINE k == Len(Segments)
           Unfolds(g) == g = [d \in 0..k |-> Level(ends, d, g[d - 1])]
           walked == CHOOSE g : Unfolds(g)
           T == {d \in 0..k : walked[d] \notin WalkType}
<1>0. k \in Nat /\ Body[f] \in 0..k
    BY SegmentAssumption
<1>1. Unfolds(walked)
    <2>1. \E g : Unfolds(g)
        BY <1>0, LevelsExist
    <2> HIDE DEF Unfolds
    <2> QED BY <2>1
<1>2. Walks(ends) = walked[k]
    BY DEF Walks, Level
<1>3. T = {}
    <2> SUFFICES ASSUME T # {} PROVE FALSE
        OBVIOUS
    <2>1. PICK d \in T : \A j \in T : d <= j
        <3>1. T \subseteq Nat
            BY <1>0
        <3> HIDE DEF T
        <3> QED BY <3>1, LeastNumber
    <2>2. d \in 0..k /\ walked[d] \notin WalkType
        OBVIOUS
    <2>3. walked[d] = Level(ends, d, walked[d - 1])
        <3> HIDE DEF walked
        <3> QED BY <1>1, <2>2
    <2>4. d = 0 \/ walked[d - 1] \in WalkType
        <3> SUFFICES ASSUME d # 0, d - 1 \notin T PROVE walked[d - 1] \in WalkType
            <4>1. d - 1 \notin T
                <5> HIDE DEF T
                <5> QED BY <1>0, <2>1, <2>2
            <4> QED BY <4>1
        <3>1. d - 1 \in 0..k
            BY <1>0, <2>2
        <3> HIDE DEF walked
        <3> QED BY <3>1
    <2>5. d \in Nat
        BY <1>0, <2>2
    <2> HIDE DEF walked, T
    <2> QED BY <2>2, <2>3, <2>4, <2>5, LevelTyped
<1>4. walked[k] \in WalkType
    <2> HIDE DEF walked
    <2> QED BY <1>0, <1>3
<1> HIDE DEF walked
<1> QED BY <1>0, <1>2, <1>4 DEF Walked, WalkType

(***************************************************************************)
(* The layout of a frame.                                                  *)
(***************************************************************************)

\* What the proofs use of it.
LaidOut(f) ==
    /\ regs_used[f] \in 0..MAX_REG
    /\ Written[f] \subseteq 1..MAX_REG
    /\ declared[f] \in Nat
    /\ CG_offset(f) \in Nat /\ CG_offset(f) >= regs_used[f]
    /\ CG_offset(Module) >= 1
    /\ max_offset[f] = CG_offset(f) + declared[f]
    /\ Variables(f) \subseteq Nat
    /\ \A v \in Variables(f) : locals[f][v] \in 1..declared[f]
    /\ \A v, w \in Variables(f) : locals[f][v] = locals[f][w] => v = w

LEMMA RegsUsed == ASSUME NEW f \in Functions PROVE regs_used[f] \in 0..MAX_REG
<1> DEFINE ops == Walked(f, {"GOTO", "RET"})
           S   == {0} \cup {c \in 1..MAX_REG : \E i \in DOMAIN ops :
                              ops[i].op # "VAR_DECL" /\ ops[i].color = c}
<1>1. regs_used[f] = Max(S)
    BY DEF regs_used
<1>2. S \subseteq 0..MAX_REG /\ S # {} /\ MAX_REG \in Nat
    BY SegmentAssumption
<1> HIDE DEF S
<1>3. Max(S) \in S
    BY <1>2, LastOf
<1> QED BY <1>1, <1>2, <1>3

\* The numbers of two variables differ, and none exceeds their number.
LEMMA NumbersDiffer ==
    ASSUME NEW f \in Functions
    PROVE  /\ declared[f] \in Nat /\ Variables(f) \subseteq Nat
           /\ \A v \in Variables(f) : locals[f][v] \in 1..declared[f]
           /\ \A v, w \in Variables(f) : locals[f][v] = locals[f][w] => v = w
<1> DEFINE ops     == Walked(f, {"GOTO"})
           decls   == Declarations(ops, "var")
           Of(v)   == {i \in decls : ops[i].var[2] = v}
           last(v) == Max(Of(v))
           UpTo(i) == {j \in decls : j <= i}
<1>1. ops \in Seq(Operation) /\ Len(ops) \in Nat
    BY WalkTyped
<1>2. decls \subseteq 1..Len(ops) /\ IsFiniteSet(decls)
    <2>1. decls \subseteq 1..Len(ops)
        BY <1>1 DEF Declarations
    <2>2. IsFiniteSet(1..Len(ops))
        BY <1>1, FS_Interval
    <2> QED BY <2>1, <2>2, FS_Subset
<1>3. /\ Variables(f) = {ops[i].var[2] : i \in decls}
      /\ declared[f] = Cardinality(decls)
      /\ \A v \in Variables(f) : locals[f][v] = Cardinality(UpTo(last(v)))
    BY DEF Variables, locals, declared, Numbered
<1>4. declared[f] \in Nat
    BY <1>2, <1>3, FS_CardinalityType
<1>5. ASSUME NEW i \in decls PROVE ops[i].var[2] \in Nat
    <2>1. ops[i] \in Operation /\ ops[i].var # <<>>
        BY <1>1, <1>2, <1>5 DEF Declarations
    <2> QED BY <2>1 DEF Operation
<1>6. ASSUME NEW v \in Variables(f)
      PROVE  last(v) \in decls /\ last(v) \in Nat /\ ops[last(v)].var[2] = v
    <2>1. Of(v) \subseteq 0..Len(ops) /\ Of(v) # {}
        <3>1. PICK i \in decls : ops[i].var[2] = v
            BY <1>3, <1>6
        <3>2. i \in Of(v)
            BY <3>1
        <3> QED BY <1>1, <1>2, <3>2
    <2>2. last(v) \in Of(v)
        <3> HIDE DEF Of
        <3> QED BY <1>1, <2>1, LastOf
    <2> QED BY <1>1, <1>2, <2>2
<1>7. ASSUME NEW i \in decls
      PROVE  /\ IsFiniteSet(UpTo(i)) /\ Cardinality(UpTo(i)) \in 1..Cardinality(decls)
             /\ i \in UpTo(i) /\ Cardinality(UpTo(i)) \in Nat
    <2>1. UpTo(i) \subseteq decls /\ i \in UpTo(i)
        BY <1>1, <1>2, <1>7
    <2> HIDE DEF UpTo, decls
    <2>2. IsFiniteSet(UpTo(i)) /\ Cardinality(UpTo(i)) <= Cardinality(decls)
        BY <1>2, <2>1, FS_Subset
    <2>3. Cardinality(UpTo(i)) \in Nat /\ Cardinality(decls) \in Nat
        BY <1>2, <2>2, FS_CardinalityType
    <2>4. Cardinality(UpTo(i)) # 0
        BY <2>1, <2>2, FS_EmptySet
    <2> QED BY <2>1, <2>2, <2>3, <2>4
<1>8. ASSUME NEW i \in decls, NEW j \in decls, i < j
      PROVE  Cardinality(UpTo(i)) # Cardinality(UpTo(j))
    <2>1. UpTo(i) \subseteq UpTo(j) /\ j \notin UpTo(i) /\ j \in UpTo(j)
        BY <1>1, <1>2, <1>8
    <2>2. IsFiniteSet(UpTo(j))
        BY <1>7
    <2> HIDE DEF UpTo
    <2> QED BY <2>1, <2>2, FS_Subset
<1>9. ASSUME NEW v \in Variables(f), NEW w \in Variables(f), locals[f][v] = locals[f][w]
      PROVE  v = w
    <2> DEFINE i == last(v)
               j == last(w)
    <2>1. /\ i \in decls /\ j \in decls /\ i \in Nat /\ j \in Nat
          /\ ops[i].var[2] = v /\ ops[j].var[2] = w
        BY <1>6
    <2>2. Cardinality(UpTo(i)) = Cardinality(UpTo(j))
        BY <1>3, <1>9
    <2> HIDE DEF i, j, UpTo, decls
    <2>3. ~ (i < j) /\ ~ (j < i)
        BY <1>8, <2>1, <2>2
    <2> QED BY <2>1, <2>3
<1>10. ASSUME NEW v \in Variables(f) PROVE locals[f][v] \in 1..declared[f]
    <2> HIDE DEF last, UpTo, decls
    <2> QED BY <1>3, <1>6, <1>7
<1>11. Variables(f) \subseteq Nat
    <2> HIDE DEF decls
    <2> QED BY <1>3, <1>5
<1> QED BY <1>4, <1>9, <1>10, <1>11

LEMMA Layout == ASSUME NEW f \in Functions PROVE LaidOut(f)
<1>1. regs_used[f] \in 0..MAX_REG /\ regs_used[Module] \in 0..MAX_REG
    BY RegsUsed, ModuleAssumption
<1>2. Written[f] \subseteq 1..MAX_REG
    BY DEF Written
<1>3. MAX_REG \in Nat
    BY SegmentAssumption
<1>4. max_offset[f] = CG_offset(f) + declared[f]
    BY DEF max_offset
<1>5. CG_offset(f) \in Nat /\ CG_offset(f) >= regs_used[f] /\ CG_offset(Module) >= 1
    BY <1>1, <1>3 DEF CG_offset
<1> QED BY <1>1, <1>2, <1>4, <1>5, NumbersDiffer DEF LaidOut

(***************************************************************************)
(* What the constants say of the functions and of their calls.             *)
(***************************************************************************)

\* A function other than the module is one of the functions around itself,
\* and its outer function and what is around that are the others.
LEMMA Surroundings ==
    ASSUME NEW f \in Functions, f # Module
    PROVE  /\ Outer[f] \in Functions
           /\ Outer[f] \in Enclosing[f]
           /\ Enclosing[Outer[f]] \subseteq Enclosing[f]
           /\ Enclosing[f] \ {f} = Enclosing[Outer[f]]
           /\ f \notin Enclosing[Outer[f]]
           /\ Depth[f] = Depth[Outer[f]] + 1
           /\ Depth[f] \in Nat /\ Depth[Outer[f]] \in Nat
    BY OuterAssumption, NestingAssumption, DepthAssumption

\* A function called is one the caller sees.
LEMMA Called ==
    ASSUME NEW f \in Functions, NEW g \in Calls[f]
    PROVE  g \in Functions /\ g # Module /\ Outer[g] \in Enclosing[f] /\ g \in Visible(f)
    BY ProgramAssumption DEF Visible

\* The sizes of what an activation has pushed.
LEMMA Sizes ==
    ASSUME NEW a \in Activation
    PROVE  /\ a.fn \in Functions /\ a.fp \in Nat /\ a.count \in Nat
           /\ Params[a.fn] \in Nat /\ max_offset[a.fn] \in Nat
           /\ Displaced(a) \in 0..4 /\ Words(a) \in Nat /\ Rest(a) \in 0..4
           /\ Top(a) \in Nat /\ Top(a) = a.fp + max_offset[a.fn] + Words(a)
<1>1. a.fn \in Functions /\ a.fp \in Nat /\ a.count \in Nat
    BY DEF Activation
<1>2. Params[a.fn] \in Nat /\ max_offset[a.fn] \in Nat
    BY <1>1, Layout, ProgramAssumption DEF LaidOut
<1>3. Displaced(a) \in 0..4 /\ a.count - Least(a.count, 4) \in Nat /\ Rest(a) \in 0..4
    BY <1>1, <1>2 DEF Displaced, Least, Rest, InRegisters
<1> QED BY <1>1, <1>2, <1>3 DEF Words, Top

(***************************************************************************)
(* Activations: what is known of one by its place.                         *)
(***************************************************************************)

\* The same functions, frames and knowledge up to the k-th.
SameFrames(s, t, k) ==
    \A i \in 1..k : t[i].fn = s[i].fn /\ t[i].env = s[i].env /\ t[i].fp = s[i].fp

Known(s, i) ==
    /\ s[i] \in Activation /\ s[i].fn \in Functions
    /\ s[i].env[s[i].fn] = i
    /\ \A h \in Enclosing[s[i].fn] :
         s[i].env[h] \in 1..i /\ s[i].env[h] \in 1..Len(s) /\ s[s[i].env[h]].fn = h
    /\ Agrees(s, i)
    /\ s[i].fn = Module <=> i = 1

LEMMA KnownAt ==
    ASSUME NEW s \in Seq(Activation), Knows(s), NEW i \in 1..Len(s)
    PROVE  Known(s, i)
<1>1. s[i] \in Activation /\ s[i].fn \in Functions
    <2>1. s[i] \in Activation
        OBVIOUS
    <2> QED BY <2>1 DEF Activation
<1>2. KnowsAt(s, i)
    BY DEF Knows
<1>3. ASSUME NEW h \in Enclosing[s[i].fn] PROVE s[i].env[h] \in 1..Len(s)
    BY <1>2, <1>3 DEF KnowsAt
<1> QED BY <1>1, <1>2, <1>3 DEF KnowsAt, Known

\* What the activations of a prefix know does not depend on the others.
LEMMA KnowsPrefix ==
    ASSUME NEW s \in Seq(Activation), NEW t \in Seq(Activation), Knows(s),
           Len(t) <= Len(s), SameFrames(s, t, Len(t))
    PROVE  Knows(t)
<1> SUFFICES ASSUME NEW i \in 1..Len(t) PROVE KnowsAt(t, i)
    BY DEF Knows
<1>1. i \in 1..Len(s) /\ \A j \in 1..i : j \in 1..Len(t)
    OBVIOUS
<1>2. Known(s, i)
    BY <1>1, KnownAt
<1>3. t[i].fn = s[i].fn /\ t[i].env = s[i].env
    BY DEF SameFrames
<1>4. \A h \in Enclosing[t[i].fn] : t[i].env[h] \in 1..Len(t) /\ t[i].env[h] \in 1..i
    BY <1>1, <1>2, <1>3 DEF Known
<1>5. \A h \in Enclosing[t[i].fn] : /\ t[t[i].env[h]].fn = s[s[i].env[h]].fn
                                    /\ t[t[i].env[h]].env = s[s[i].env[h]].env
    BY <1>3, <1>4 DEF SameFrames
<1>6. Agrees(t, i)
    BY <1>2, <1>3, <1>5 DEF Agrees, Known
<1> QED BY <1>2, <1>3, <1>4, <1>5, <1>6 DEF KnowsAt, Known

\* A call adds an activation that knows what its caller knows of the
\* functions around the one called.
LEMMA KnowsPushed ==
    ASSUME NEW s \in Seq(Activation), Knows(s), NEW k \in Nat, k = Len(s), k >= 1,
           NEW g \in Functions, g # Module, Outer[g] \in Enclosing[s[k].fn],
           NEW t \in Seq(Activation), Len(t) = k + 1, SameFrames(s, t, k),
           t[k + 1].fn = g, t[k + 1].env[g] = k + 1,
           \A h \in Enclosing[Outer[g]] : t[k + 1].env[h] = s[k].env[h]
    PROVE  Knows(t)
<1> DEFINE top == s[k]
           a   == t[k + 1]
<1>1. /\ Outer[g] \in Functions
      /\ g \notin Enclosing[Outer[g]]
      /\ Enclosing[g] \ {g} = Enclosing[Outer[g]]
      /\ Outer[g] \in Enclosing[g] /\ g \in Enclosing[g]
    BY Surroundings, NestingAssumption
<1>2. k \in 1..k /\ k + 1 > 1 /\ Known(s, k)
    BY KnownAt
<1>3. /\ \A h \in Enclosing[top.fn] : top.env[h] \in 1..k /\ s[top.env[h]].fn = h
      /\ top.fn \in Functions /\ Agrees(s, k)
    BY <1>2 DEF Known
<1>4. \A j \in 1..k : t[j].fn = s[j].fn /\ t[j].env = s[j].env
    BY DEF SameFrames
<1>5. Enclosing[Outer[g]] \subseteq Enclosing[top.fn]
    BY <1>3, AroundAssumption
<1>6. /\ a.fn = g /\ a.env[g] = k + 1
      /\ \A h \in Enclosing[Outer[g]] : a.env[h] = top.env[h]
    OBVIOUS
<1> HIDE DEF a, top
<1>7. ASSUME NEW h \in Enclosing[g] PROVE a.env[h] \in 1..(k + 1) /\ t[a.env[h]].fn = h
    <2>1. CASE h = g
        <3>1. a.env[h] = k + 1
            BY <2>1, <1>6
        <3>2. k + 1 \in 1..(k + 1) /\ t[k + 1].fn = g
            BY <1>2
        <3> QED BY <2>1, <3>1, <3>2
    <2>2. CASE h # g
        <3>1. h \in Enclosing[Outer[g]] /\ h \in Enclosing[top.fn]
            BY <2>2, <1>7, <1>1, <1>5
        <3>2. a.env[h] = top.env[h] /\ top.env[h] \in 1..k /\ s[top.env[h]].fn = h
            BY <3>1, <1>3, <1>6
        <3>3. a.env[h] \in 1..(k + 1) /\ t[a.env[h]].fn = s[top.env[h]].fn
            BY <3>2, <1>2, <1>4
        <3> QED BY <3>2, <3>3
    <2> QED BY <2>1, <2>2
<1>8. ASSUME NEW l \in Enclosing[g], NEW h \in Enclosing[l]
      PROVE  a.env[h] = t[a.env[l]].env[h]
    <2>1. CASE l = g
        <3>1. a.env[l] = k + 1
            BY <2>1, <1>6
        <3> QED BY <3>1 DEF a
    <2>2. CASE l # g
        <3>1. l \in Enclosing[Outer[g]] /\ l \in Enclosing[top.fn]
            BY <2>2, <1>8, <1>1, <1>5
        <3>2. h \in Enclosing[Outer[g]]
            BY <3>1, <1>1, <1>8, AroundAssumption
        <3>3. t[a.env[l]].env = s[top.env[l]].env
            <4>1. a.env[l] = top.env[l] /\ top.env[l] \in 1..k
                BY <3>1, <1>3, <1>6
            <4> QED BY <4>1, <1>4
        <3>4. top.env[h] = s[top.env[l]].env[h]
            BY <3>1, <1>3, <1>8 DEF Agrees, top
        <3> QED BY <3>2, <3>3, <3>4, <1>6
    <2> QED BY <2>1, <2>2
<1>9. SUFFICES ASSUME NEW i \in 1..Len(t) PROVE KnowsAt(t, i)
    BY DEF Knows
<1>10. CASE i = k + 1
    <2>1. t[i] = a /\ a.fn = g /\ i # 1
        BY <1>10, <1>2, <1>6 DEF a
    <2>2. Agrees(t, i)
        BY <1>8, <2>1 DEF Agrees
    <2>3. \A h \in Enclosing[g] : a.env[h] \in 1..(k + 1) /\ t[a.env[h]].fn = h
        BY <1>7
    <2> QED BY <2>1, <2>2, <2>3, <1>10, <1>6 DEF KnowsAt
<1>11. CASE i \in 1..k
    <2>1. i \in 1..Len(s) /\ \A j \in 1..i : j \in 1..k
        BY <1>11
    <2>2. Known(s, i)
        BY <2>1, KnownAt
    <2>3. t[i].fn = s[i].fn /\ t[i].env = s[i].env
        BY <1>4, <1>11
    <2>4. \A h \in Enclosing[t[i].fn] : t[i].env[h] \in 1..k /\ t[i].env[h] \in 1..i
        BY <2>1, <2>2, <2>3 DEF Known
    <2>5. \A h \in Enclosing[t[i].fn] : /\ t[t[i].env[h]].fn = s[s[i].env[h]].fn
                                        /\ t[t[i].env[h]].env = s[s[i].env[h]].env
        BY <1>4, <2>3, <2>4
    <2>6. Agrees(t, i)
        BY <2>2, <2>3, <2>5 DEF Agrees, Known
    <2> QED BY <2>2, <2>3, <2>4, <2>5, <2>6 DEF KnowsAt, Known
<1> QED BY <1>10, <1>11

\* The frames of the activations lie one above the other.
LEMMA FramesRise ==
    ASSUME NEW s \in Seq(Activation), \A i \in 1..Len(s) - 1 : Waits(s[i], s[i + 1]),
           NEW i \in 1..Len(s), NEW j \in 1..Len(s), i < j
    PROVE  s[i].fp + 3 <= s[j].fp /\ Top(s[i]) + Rest(s[i]) + 3 <= s[j].fp
<1> DEFINE low  == Top(s[i]) + Rest(s[i]) + 3
           T    == {k \in 1..Len(s) : i < k /\ ~ (low <= s[k].fp)}
<1>1. ASSUME NEW k \in 1..Len(s) - 1
      PROVE  /\ s[k] \in Activation /\ k + 1 \in 1..Len(s)
             /\ s[k + 1].fp = Top(s[k]) + Rest(s[k]) + 3
             /\ Top(s[k]) \in Nat /\ Rest(s[k]) \in Nat /\ Top(s[k]) >= s[k].fp /\ s[k].fp \in Nat
    <2>1. s[k] \in Activation /\ Waits(s[k], s[k + 1]) /\ k + 1 \in 1..Len(s)
        BY <1>1
    <2>2. s[k + 1].fp = Top(s[k]) + Rest(s[k]) + 3
        BY <2>1 DEF Waits
    <2>3. /\ s[k].fp \in Nat /\ max_offset[s[k].fn] \in Nat /\ Words(s[k]) \in Nat
          /\ Rest(s[k]) \in 0..4 /\ Top(s[k]) \in Nat
          /\ Top(s[k]) = s[k].fp + max_offset[s[k].fn] + Words(s[k])
        BY <2>1, Sizes
    <2>4. PICK fp \in Nat, max \in Nat, words \in Nat : fp = s[k].fp /\ fp + max + words = Top(s[k])
        BY <2>3
    <2>5. Top(s[k]) >= s[k].fp
        BY <2>4
    <2>6. Rest(s[k]) \in Nat
        <3>1. PICK r \in 0..4 : r = Rest(s[k])
            BY <2>3
        <3>2. r \in Nat
            OBVIOUS
        <3> QED BY <3>1, <3>2
    <2>7. Top(s[k]) \in Nat /\ s[k].fp \in Nat
        BY <2>3
    <2> QED BY <2>1, <2>2, <2>5, <2>6, <2>7
<1>2. T = {}
    <2> SUFFICES ASSUME T # {} PROVE FALSE
        OBVIOUS
    <2>1. PICK k \in T : \A l \in T : k <= l
        <3>1. T \subseteq Nat
            OBVIOUS
        <3> HIDE DEF T
        <3> QED BY <3>1, LeastNumber
    <2>2. k \in 1..Len(s) /\ i < k /\ ~ (low <= s[k].fp) /\ k - 1 \in 1..Len(s) - 1
          /\ k - 1 + 1 = k
        OBVIOUS
    <2>3. /\ s[k].fp = Top(s[k - 1]) + Rest(s[k - 1]) + 3
          /\ Top(s[k - 1]) \in Nat /\ Rest(s[k - 1]) \in Nat
          /\ Top(s[k - 1]) >= s[k - 1].fp /\ s[k - 1].fp \in Nat
        <3> HIDE DEF T, low
        <3> QED BY <1>1, <2>2
    <2>4. k - 1 # i
        <3> SUFFICES ASSUME k - 1 = i PROVE low <= s[k].fp
            BY <2>2
        <3>1. s[k].fp = low
            BY <2>3
        <3> QED BY <3>1, <2>3
    <2>5. low <= s[k - 1].fp
        <3>1. k - 1 \notin T
            <4> HIDE DEF T
            <4> QED BY <2>1, <2>2
        <3> QED BY <3>1, <2>2, <2>4
    <2>6. low \in Nat
        <3>1. i \in 1..Len(s) - 1
            OBVIOUS
        <3> HIDE DEF T
        <3> QED BY <3>1, <1>1
    <2> HIDE DEF T, low
    <2> QED BY <2>2, <2>3, <2>5, <2>6, SMTT(30)
<1>3. low <= s[j].fp
    BY <1>2
<1>4. i \in 1..Len(s) - 1
    OBVIOUS
<1>5. s[j] \in Activation /\ s[j].fp \in Nat
    <2>1. s[j] \in Activation
        OBVIOUS
    <2> QED BY <2>1, Sizes
<1>6. Top(s[i]) \in Nat /\ Rest(s[i]) \in Nat /\ Top(s[i]) >= s[i].fp /\ s[i].fp \in Nat
    BY <1>1, <1>4
<1> HIDE DEF T
<1> QED BY <1>3, <1>5, <1>6

\* What the frozen part of a state says, activation by activation.
LEMMA FrozenAt ==
    ASSUME NEW m, NEW s \in Seq(Activation), Frozen(m, s), NEW i \in 1..Len(s)
    PROVE  /\ Known(s, i)
           /\ s[i].fp \in Nat
           /\ i = 1 => s[i].fp = 0
           /\ i < Len(s) => Waits(s[i], s[i + 1])
           /\ i > 1 => /\ Framed(m, s, i) /\ s[i].fp >= 3
                       /\ i - 1 \in 1..Len(s) /\ s[i - 1].fp \in Nat
                       /\ s[i].env[Outer[s[i].fn]] \in 1..i
                       /\ s[i].env[Outer[s[i].fn]] \in 1..Len(s)
           /\ s[i].fp <= s[Len(s)].fp
<1>1. Knows(s) /\ \A k \in 1..Len(s) - 1 : Waits(s[k], s[k + 1])
    BY DEF Frozen
<1>2. Known(s, i)
    BY <1>1, KnownAt
<1>3. \A k \in 1..Len(s) : s[k].fp \in Nat
    <2> TAKE k \in 1..Len(s)
    <2>1. s[k] \in Activation
        OBVIOUS
    <2> QED BY <2>1, Sizes
<1>4. ASSUME i < Len(s) PROVE Waits(s[i], s[i + 1])
    <2>1. i \in 1..Len(s) - 1
        BY <1>4
    <2> QED BY <1>1, <2>1
<1>5. ASSUME i > 1
      PROVE  /\ Framed(m, s, i) /\ s[i].fp >= 3
             /\ i - 1 \in 1..Len(s) /\ s[i - 1].fp \in Nat
             /\ s[i].env[Outer[s[i].fn]] \in 1..i
             /\ s[i].env[Outer[s[i].fn]] \in 1..Len(s)
    <2>1. i \in 2..Len(s) /\ i - 1 \in 1..Len(s) /\ i - 1 < i
        BY <1>5
    <2>2. Framed(m, s, i)
        BY <2>1 DEF Frozen
    <2>3. s[i - 1].fp + 3 <= s[i].fp
        BY <1>1, <2>1, FramesRise
    <2>4. s[i].fn \in Functions /\ s[i].fn # Module
        BY <1>2, <1>5 DEF Known
    <2>5. Outer[s[i].fn] \in Enclosing[s[i].fn]
        BY <2>4, Surroundings
    <2>6. s[i].env[Outer[s[i].fn]] \in 1..i /\ s[i].env[Outer[s[i].fn]] \in 1..Len(s)
        BY <1>2, <2>5 DEF Known
    <2> QED BY <1>3, <2>1, <2>2, <2>3, <2>6
<1>6. s[i].fp <= s[Len(s)].fp
    <2>1. CASE i = Len(s)
        BY <1>3, <2>1
    <2>2. CASE i < Len(s)
        <3>1. Len(s) \in 1..Len(s)
            OBVIOUS
        <3>2. s[i].fp + 3 <= s[Len(s)].fp
            BY <1>1, <2>2, <3>1, FramesRise
        <3> QED BY <1>3, <3>1, <3>2
    <2> QED BY <2>1, <2>2
<1>7. i = 1 => s[i].fp = 0
    BY DEF Frozen
<1> QED BY <1>2, <1>3, <1>4, <1>5, <1>6, <1>7

\* The addresses in m up to the k-th word are still there.
SameAddresses(m, p, k) == \A i \in 1..k : Len(m[i]) = 2 => p[i] = m[i]

\* What lies below the running frame does not change while it runs, nor when
\* an activation above it returns.
LEMMA FrozenKept ==
    ASSUME NEW m, NEW p, NEW s \in Seq(Activation), NEW t \in Seq(Activation),
           Frozen(m, s), Len(t) \in 1..Len(s), SameFrames(s, t, Len(t)),
           \A i \in 1..Len(t) - 1 : t[i] = s[i],
           SameAddresses(m, p, t[Len(t)].fp)
    PROVE  Frozen(p, t)
<1> DEFINE k == Len(t)
<1>1. k \in 1..Len(s) /\ t[k].fp = s[k].fp /\ s[k].fp \in Nat
    BY FrozenAt DEF SameFrames
<1>2. Knows(t)
    BY KnowsPrefix, <1>1 DEF Frozen
<1>3. t[1].fp = 0
    <2>1. t[1].fp = s[1].fp
        BY DEF SameFrames
    <2> QED BY <2>1 DEF Frozen
<1>4. ASSUME NEW i \in 1..k - 1 PROVE Waits(t[i], t[i + 1])
    <2>1. i \in 1..Len(s) /\ i < Len(s) /\ i + 1 \in 1..k
        BY <1>1, <1>4
    <2>2. Waits(s[i], s[i + 1])
        BY <2>1, FrozenAt
    <2>3. t[i] = s[i] /\ t[i + 1].fn = s[i + 1].fn /\ t[i + 1].fp = s[i + 1].fp
        BY <1>4, <2>1 DEF SameFrames
    <2> QED BY <2>2, <2>3 DEF Waits
<1>5. ASSUME NEW i \in 2..k PROVE Framed(p, t, i)
    <2> DEFINE o == s[i].env[Outer[s[i].fn]]
    <2>1. i \in 1..Len(s) /\ i > 1 /\ i \in 1..k /\ i - 1 \in 1..k
        BY <1>1, <1>5
    <2>2. /\ Framed(m, s, i) /\ s[i].fp >= 3 /\ s[i].fp \in Nat
          /\ o \in 1..i
        BY <2>1, FrozenAt
    <2>3. o \in 1..k
        BY <2>1, <2>2
    <2>4. /\ t[i].fp = s[i].fp /\ t[i - 1].fp = s[i - 1].fp /\ t[o].fp = s[o].fp
          /\ t[i].env[Outer[t[i].fn]] = o
        BY <2>1, <2>3 DEF SameFrames
    <2>5. s[i].fp <= s[k].fp
        <3>1. CASE i = k
            BY <1>1, <3>1
        <3>2. CASE i < k
            <4>1. s[i].fp + 3 <= s[k].fp
                BY <1>1, <2>1, <3>2, FramesRise DEF Frozen
            <4> QED BY <1>1, <2>2, <4>1
        <3> QED BY <1>5, <3>1, <3>2
    <2>6. s[i].fp \in 1..t[k].fp /\ s[i].fp - 1 \in 1..t[k].fp /\ s[i].fp - 2 \in 1..t[k].fp
        BY <1>1, <2>2, <2>5, SMTT(30)
    <2> HIDE DEF o
    <2>7. /\ m[s[i].fp] = <<"fp", s[i - 1].fp>>
          /\ m[s[i].fp - 1] = <<"return", i - 1>>
          /\ m[s[i].fp - 2] = <<"fp", s[o].fp>>
        BY <2>2 DEF Framed, o
    <2>8. \A x, y : Len(<<x, y>>) = 2
        OBVIOUS
    <2>9. /\ p[s[i].fp] = m[s[i].fp] /\ p[s[i].fp - 1] = m[s[i].fp - 1]
          /\ p[s[i].fp - 2] = m[s[i].fp - 2]
        BY <2>6, <2>7, <2>8 DEF SameAddresses
    <2> QED BY <2>4, <2>7, <2>9 DEF Framed
<1> HIDE DEF k
<1> QED BY <1>2, <1>3, <1>4, <1>5 DEF Frozen, k

\* A call whose link, return address and saved rbp are on the stack.
Enters(m, p, s, t, k, g) ==
    /\ s \in Seq(Activation) /\ t \in Seq(Activation)
    /\ k \in Nat /\ k = Len(s) /\ k >= 1 /\ Len(t) = k + 1
    /\ Frozen(m, s) /\ SameFrames(s, t, k) /\ \A i \in 1..k - 1 : t[i] = s[i]
    /\ g \in Functions /\ g # Module /\ Outer[g] \in Enclosing[s[k].fn]
    /\ t[k + 1].fn = g /\ t[k + 1].env[g] = k + 1
    /\ \A h \in Enclosing[Outer[g]] : t[k + 1].env[h] = s[k].env[h]
    /\ Waits(t[k], t[k + 1]) /\ Framed(p, t, k + 1) /\ SameAddresses(m, p, s[k].fp)

LEMMA FrozenPushed ==
    ASSUME NEW m, NEW p, NEW s, NEW t, NEW k, NEW g, Enters(m, p, s, t, k, g)
    PROVE  Frozen(p, t)
<1>0. /\ s \in Seq(Activation) /\ t \in Seq(Activation)
      /\ k \in Nat /\ k = Len(s) /\ k >= 1 /\ Len(t) = k + 1
      /\ Frozen(m, s) /\ SameFrames(s, t, k) /\ \A i \in 1..k - 1 : t[i] = s[i]
      /\ g \in Functions /\ g # Module /\ Outer[g] \in Enclosing[s[k].fn]
      /\ t[k + 1].fn = g /\ t[k + 1].env[g] = k + 1
      /\ \A h \in Enclosing[Outer[g]] : t[k + 1].env[h] = s[k].env[h]
      /\ Waits(t[k], t[k + 1]) /\ Framed(p, t, k + 1) /\ SameAddresses(m, p, s[k].fp)
    BY DEF Enters
<1>1. Knows(t)
    BY <1>0, KnowsPushed DEF Frozen
<1>2. PICK u : u = SubSeq(t, 1, k)
    OBVIOUS
<1>3. u \in Seq(Activation) /\ Len(u) = k /\ \A i \in 1..k : u[i] = t[i]
    BY <1>0, <1>2
<1>4. Frozen(p, u)
    <2>1. SameFrames(s, u, Len(u)) /\ Len(u) \in 1..Len(s)
        BY <1>0, <1>3 DEF SameFrames
    <2>2. u[Len(u)].fp = s[k].fp
        <3>1. k \in 1..k
            BY <1>0
        <3> QED BY <1>0, <1>3, <2>1, <3>1 DEF SameFrames
    <2>3. \A i \in 1..Len(u) - 1 : u[i] = s[i]
        BY <1>0, <1>3
    <2>4. SameAddresses(m, p, u[Len(u)].fp)
        BY <1>0, <2>2
    <2> QED BY <1>0, <1>3, <2>1, <2>3, <2>4, FrozenKept
<1>5. t[1].fp = 0
    <2>1. t[1] = u[1]
        BY <1>0, <1>3
    <2> QED BY <1>0, <1>4, <2>1 DEF Frozen
<1>6. ASSUME NEW i \in 1..k PROVE Waits(t[i], t[i + 1])
    <2>1. CASE i = k
        BY <1>0, <2>1
    <2>2. CASE i # k
        <3>1. i \in 1..Len(u) - 1 /\ i + 1 \in 1..k
            BY <1>0, <1>3, <1>6, <2>2
        <3>2. Waits(u[i], u[i + 1])
            BY <1>0, <1>4, <3>1 DEF Frozen
        <3> QED BY <1>0, <1>3, <1>6, <3>1, <3>2
    <2> QED BY <1>0, <2>1, <2>2
<1>7. ASSUME NEW i \in 2..k + 1 PROVE Framed(p, t, i)
    <2>1. CASE i = k + 1
        BY <1>0, <2>1
    <2>2. CASE i # k + 1
        <3>1. i \in 1..Len(u) /\ i > 1
            BY <1>0, <1>3, <1>7, <2>2
        <3>2. Framed(p, u, i) /\ i - 1 \in 1..k /\ u[i].env[Outer[u[i].fn]] \in 1..k
            BY <1>0, <1>3, <1>4, <3>1, FrozenAt
        <3>3. u[i] = t[i] /\ u[i - 1] = t[i - 1]
              /\ u[u[i].env[Outer[u[i].fn]]] = t[u[i].env[Outer[u[i].fn]]]
            BY <1>0, <1>3, <3>1, <3>2
        <3> QED BY <1>0, <3>2, <3>3, ZenonT(40) DEF Framed
    <2> QED BY <1>0, <2>1, <2>2
<1> QED BY <1>0, <1>1, <1>5, <1>6, <1>7 DEF Frozen

(***************************************************************************)
(* Values, and the state of the invariant.                                 *)
(***************************************************************************)
LEMMA Values ==
    /\ Junk \in Value
    /\ \A x \in Nat : <<"fp", x>> \in Value /\ <<"return", x>> \in Value
    /\ \A i \in 1..MaxActive, x \in Nat :
         <<"temp", i, x>> \in Value /\ <<"param", i, x>> \in Value /\ <<"var", i, x>> \in Value
    BY DEF Value

LEMMA ParamRegs4 ==
    /\ \A k \in 0..3 : ParamReg(k) \in Registers /\ ParamReg(k) \in ParamRegs
    /\ \A k \in Int : ParamReg(k) \in Int /\ ParamReg(k) - ParamReg(0) = k
    /\ \A j, k \in Int : ParamReg(j) = ParamReg(k) => j = k
    /\ \A c \in 1..MAX_REG : c \in Registers /\ c \notin ParamRegs
    /\ \A k \in Nat, c \in 1..MAX_REG : c # ParamReg(k) /\ c < ParamReg(k)
    /\ \A c \in Registers : c \in Nat
    /\ MAX_REG \in Nat
<1>1. MAX_REG \in Nat
    BY SegmentAssumption
<1> QED BY <1>1 DEF ParamReg, ParamRegs, Registers

LEMMA ReadTyped == ASSUME stack \in Seq(Value), NEW a PROVE Read(a) \in Value
    BY Values DEF Read

\* What the invariant says of the running activation.
LEMMA RunningIs ==
    ASSUME IInv
    PROVE  /\ n \in Nat /\ n >= 1 /\ n \in 1..n /\ Len(acts) = n /\ n <= MaxActive
           /\ MaxActive \in Nat /\ n \in 1..MaxActive
           /\ acts \in Seq(Activation)
           /\ Running = acts[n] /\ Running \in Activation
           /\ Running.fn \in Functions /\ P \in Nat /\ P = Params[Running.fn]
           /\ rbp = Running.fp /\ rbp \in Nat
           /\ max_offset[Running.fn] \in Nat
           /\ stack \in Seq(Value) /\ Len(stack) \in Nat
           /\ Len(stack) >= rbp + max_offset[Running.fn]
           /\ Known(acts, n)
           /\ Frozen(stack, acts)
<1>1. MaxActive \in Nat
    BY ProgramAssumption
<1>2. acts \in Seq(Activation) /\ n \in 1..MaxActive /\ Len(acts) = n /\ stack \in Seq(Value)
    BY DEF IInv, Typed, n
<1>3. n \in Nat /\ n >= 1 /\ n \in 1..n
    BY <1>1, <1>2
<1>4. Running = acts[n] /\ Running \in Activation
    BY <1>2, <1>3 DEF Running
<1>5. /\ Running.fn \in Functions /\ Running.fp \in Nat /\ Params[Running.fn] \in Nat
      /\ max_offset[Running.fn] \in Nat /\ Words(Running) \in Nat /\ Rest(Running) \in 0..4
      /\ Top(Running) = Running.fp + max_offset[Running.fn] + Words(Running)
    BY <1>4, Sizes
<1>6. rbp = Running.fp /\ Frozen(stack, acts)
    BY DEF IInv, Shape
<1>7. Len(stack) = Top(Running) + (IF pc = "call" THEN Rest(Running) ELSE 0)
    BY DEF IInv, Shape, AtPoint
<1>8. Known(acts, n)
    BY <1>2, <1>3, <1>6, FrozenAt
<1>9. Len(stack) \in Nat /\ Len(stack) >= rbp + max_offset[Running.fn]
    BY <1>5, <1>6, <1>7
<1> QED BY <1>1, <1>2, <1>3, <1>4, <1>5, <1>6, <1>8, <1>9 DEF P

(***************************************************************************)
(* The traversals.                                                         *)
(***************************************************************************)

\* The link of an activation is the frame of the one it was declared in.
LEMMA LinkIs ==
    ASSUME IInv, NEW i \in 1..n, i > 1
    PROVE  /\ Link(acts[i].fp) = acts[acts[i].env[Outer[acts[i].fn]]].fp
           /\ acts[i].env[Outer[acts[i].fn]] \in 1..n
<1> DEFINE o == acts[i].env[Outer[acts[i].fn]]
<1>1. acts \in Seq(Activation) /\ Len(acts) = n /\ Frozen(stack, acts) /\ n \in Nat
    BY RunningIs
<1>2. /\ Framed(stack, acts, i) /\ acts[i].fp >= 3 /\ acts[i].fp \in Nat
      /\ o \in 1..n /\ acts[i].fp <= acts[n].fp
    BY <1>1, FrozenAt
<1>3. acts[i].fp <= Len(stack) /\ Len(stack) \in Nat /\ stack \in Seq(Value)
    <2>1. /\ acts[n].fp \in Nat /\ acts[n].fp <= Len(stack) /\ Len(stack) \in Nat
          /\ stack \in Seq(Value)
        BY RunningIs
    <2> QED BY <1>2, <2>1
<1>4. acts[i].fp - 2 \in DOMAIN stack
    BY <1>2, <1>3
<1>5. stack[acts[i].fp - 2] = <<"fp", acts[o].fp>>
    BY <1>2 DEF Framed
<1> HIDE DEF o
<1>6. Read(acts[i].fp - 2) = <<"fp", acts[o].fp>>
    BY <1>4, <1>5 DEF Read
<1> QED BY <1>2, <1>6 DEF Link, Address, o

\* A function below the target on the way out is not the module, and the
\* target is one of the functions around the one it is declared in.
LEMMA Outwards ==
    ASSUME NEW f \in Functions, NEW t \in Enclosing[f], Depth[f] # Depth[t]
    PROVE  /\ f # Module /\ t \in Enclosing[Outer[f]] /\ Outer[f] \in Enclosing[f]
           /\ Depth[f] = Depth[Outer[f]] + 1 /\ Depth[t] <= Depth[Outer[f]]
           /\ Depth[t] \in Nat /\ Depth[Outer[f]] \in Nat /\ Outer[f] \in Functions
<1>1. t # f /\ f # Module
    BY ModuleAssumption
<1>2. t \in Functions
    BY DepthAssumption
<1>3. /\ t \in Enclosing[Outer[f]] /\ Outer[f] \in Enclosing[f]
      /\ Depth[f] = Depth[Outer[f]] + 1 /\ Depth[Outer[f]] \in Nat
      /\ Outer[f] \in Functions
    BY <1>1, Surroundings
<1>4. Depth[t] <= Depth[Outer[f]] /\ Depth[t] \in Nat
    BY <1>2, <1>3, DepthAssumption, NestingAssumption
<1> QED BY <1>1, <1>3, <1>4

\* One link further out from a frame that agrees about the target.
LEMMA OneLink ==
    ASSUME IInv, NEW j \in 1..n, NEW t \in Enclosing[acts[j].fn],
           acts[j].env[t] = Running.env[t], Depth[acts[j].fn] # Depth[t],
           NEW h, h = (Depth[acts[j].fn] - 1) - Depth[t]
    PROVE  /\ h \in Nat
           /\ \E i \in 1..n : Reached(acts, t, i, Link(acts[j].fp), h)
<1> DEFINE o == acts[j].env[Outer[acts[j].fn]]
<1>1. acts \in Seq(Activation) /\ Len(acts) = n /\ n \in Nat /\ Running = acts[n]
      /\ Frozen(stack, acts)
    BY RunningIs
<1>2. Known(acts, j) /\ acts[j].fn \in Functions
    BY <1>1, FrozenAt DEF Known
<1>3. /\ acts[j].fn # Module /\ t \in Enclosing[Outer[acts[j].fn]]
      /\ Outer[acts[j].fn] \in Enclosing[acts[j].fn]
      /\ Depth[acts[j].fn] = Depth[Outer[acts[j].fn]] + 1
      /\ Depth[t] <= Depth[Outer[acts[j].fn]]
      /\ Depth[t] \in Nat /\ Depth[Outer[acts[j].fn]] \in Nat
    BY <1>2, Outwards
<1>4. j > 1
    BY <1>1, <1>2, <1>3 DEF Known
<1>5. Link(acts[j].fp) = acts[o].fp /\ o \in 1..n
    BY <1>4, LinkIs
<1>6. acts[o].fn = Outer[acts[j].fn]
    BY <1>2, <1>3 DEF Known
<1>7. acts[j].env[t] = acts[o].env[t]
    BY <1>2, <1>3 DEF Known, Agrees
<1> HIDE DEF o
<1>8. h = Depth[acts[o].fn] - Depth[t] /\ h \in Nat
    BY <1>3, <1>6
<1> QED BY <1>1, <1>3, <1>5, <1>6, <1>7, <1>8 DEF Reached

LEMMA SeekFinds ==
    ASSUME IInv, NEW t \in Enclosing[Running.fn], Seek(t)
    PROVE  hops' \in Nat /\ Traverses(acts, t, rax', hops')
<1>1. /\ Len(acts) = n /\ n \in 1..n /\ Running = acts[n] /\ Running.fn \in Functions
      /\ rbp = acts[n].fp
    BY RunningIs
<1>2. t \in Functions /\ Depth[t] \in Nat /\ Depth[Running.fn] \in Nat
    BY <1>1, DepthAssumption
<1>3. CASE Depth[Running.fn] = Depth[t]
    <2>1. rax' = rbp /\ hops' = 0
        BY <1>3 DEF Seek
    <2>2. Reached(acts, t, n, rax', hops')
        BY <1>1, <1>2, <1>3, <2>1 DEF Reached
    <2> QED BY <1>1, <2>1, <2>2 DEF Traverses
<1>4. CASE Depth[Running.fn] # Depth[t]
    <2>1. rax' = Link(rbp) /\ hops' = (Depth[Running.fn] - 1) - Depth[t]
        BY <1>4 DEF Seek
    <2>2. hops' \in Nat /\ \E i \in 1..n : Reached(acts, t, i, Link(acts[n].fp), hops')
        BY <1>1, <1>4, <2>1, OneLink
    <2> QED BY <1>1, <2>1, <2>2 DEF Traverses
<1> QED BY <1>3, <1>4

LEMMA HopFinds ==
    ASSUME IInv, NEW t, Traverses(acts, t, rax, hops), hops # 0,
           NEW r, r = Link(rax), NEW h, h = hops - 1
    PROVE  h \in Nat /\ Traverses(acts, t, r, h)
<1>1. Len(acts) = n /\ Running = acts[n] /\ acts \in Seq(Activation) /\ Frozen(stack, acts)
    BY RunningIs
<1>2. PICK j \in 1..n : Reached(acts, t, j, rax, hops)
    BY <1>1 DEF Traverses
<1>3. acts[j].fn \in Functions
    BY <1>1, FrozenAt DEF Known
<1>4. t \in Enclosing[acts[j].fn] /\ acts[j].env[t] = Running.env[t] /\ rax = acts[j].fp
      /\ hops = Depth[acts[j].fn] - Depth[t]
    BY <1>1, <1>2 DEF Reached
<1>5. Depth[acts[j].fn] \in Nat /\ Depth[t] \in Nat
    BY <1>3, <1>4, DepthAssumption
<1>6. Depth[acts[j].fn] # Depth[t] /\ h = (Depth[acts[j].fn] - 1) - Depth[t]
    BY <1>4, <1>5
<1>7. h \in Nat /\ \E i \in 1..n : Reached(acts, t, i, Link(acts[j].fp), h)
    BY <1>4, <1>6, OneLink
<1> QED BY <1>1, <1>4, <1>7 DEF Traverses

\* With no links left the traversal is where the program means it to be.
LEMMA Arrived ==
    ASSUME IInv, NEW t, Traverses(acts, t, rax, 0)
    PROVE  rax = acts[Running.env[t]].fp /\ Running.env[t] \in 1..n
           /\ acts[Running.env[t]].fn = t
<1>1. Len(acts) = n /\ Running = acts[n] /\ acts \in Seq(Activation) /\ Frozen(stack, acts)
    BY RunningIs
<1>2. PICK j \in 1..n : Reached(acts, t, j, rax, 0)
    BY <1>1 DEF Traverses
<1>3. Known(acts, j)
    BY <1>1, FrozenAt
<1>4. /\ acts[j].fn \in Functions /\ acts[j].env[acts[j].fn] = j
      /\ t \in Enclosing[acts[j].fn] /\ acts[j].env[t] = Running.env[t]
      /\ 0 = Depth[acts[j].fn] - Depth[t] /\ rax = acts[j].fp
    BY <1>1, <1>2, <1>3 DEF Reached, Known
<1>5. t = acts[j].fn
    <2>1. Depth[acts[j].fn] \in Nat /\ Depth[t] \in Nat
        BY <1>4, DepthAssumption
    <2>2. t # acts[j].fn => Depth[t] < Depth[acts[j].fn]
        BY <1>4, NestingAssumption
    <2> QED BY <1>4, <2>1, <2>2
<1> QED BY <1>4, <1>5

\* A traversal depends only on the functions, frames and knowledge.
LEMMA TraversesKept ==
    ASSUME NEW s, NEW u, Len(u) = Len(s), Len(s) \in Nat, Len(s) >= 1,
           SameFrames(s, u, Len(s)), NEW t, NEW r, NEW h, Traverses(s, t, r, h)
    PROVE  Traverses(u, t, r, h)
<1>1. PICK j \in 1..Len(s) : Reached(s, t, j, r, h)
    BY DEF Traverses
<1>2. Len(s) \in 1..Len(s)
    OBVIOUS
<1>3. Reached(u, t, j, r, h)
    BY <1>1, <1>2 DEF Reached, SameFrames
<1> QED BY <1>2, <1>3 DEF Traverses, SameFrames

(***************************************************************************)
(* A step of the running activation: it may change what it holds and how   *)
(* far its calls are, and what lies above its frame's first word.          *)
(***************************************************************************)

\* t is s with a as its k-th activation.
Replaced(t, s, k, a) ==
    /\ t \in Seq(Activation) /\ Len(t) = Len(s) /\ t[k] = a
    /\ \A i \in 1..Len(s) : i # k => t[i] = s[i]

LEMMA ReplacedIs ==
    ASSUME NEW s \in Seq(Activation), NEW k \in 1..Len(s), NEW a \in Activation,
           NEW t, t = [s EXCEPT ![k] = a]
    PROVE  Replaced(t, s, k, a)
    BY DEF Replaced

\* b differs from a only in what it holds and in its calls.
SamePlace(a, b) == b \in Activation /\ b.fn = a.fn /\ b.env = a.env /\ b.fp = a.fp

LEMMA LocalStep ==
    ASSUME IInv, NEW a, SamePlace(Running, a), Replaced(acts', acts, n, a),
           SameAddresses(stack, stack', rbp)
    PROVE  /\ n' = n /\ Running' = a
           /\ SameFrames(acts, acts', n)
           /\ Frozen(stack', acts')
<1>1. /\ Len(acts) = n /\ n \in Nat /\ n \in 1..n /\ Running = acts[n]
      /\ acts \in Seq(Activation) /\ Frozen(stack, acts) /\ rbp = Running.fp
    BY RunningIs
<1>2. /\ acts' \in Seq(Activation) /\ Len(acts') = n /\ acts'[n] = a
      /\ \A i \in 1..n : i # n => acts'[i] = acts[i]
    BY <1>1 DEF Replaced
<1>3. n' = n
    BY <1>2 DEF n
<1>4. Running' = a
    BY <1>2, <1>3 DEF Running
<1>5. SameFrames(acts, acts', n)
    <2> SUFFICES ASSUME NEW i \in 1..n
                 PROVE  acts'[i].fn = acts[i].fn /\ acts'[i].env = acts[i].env
                        /\ acts'[i].fp = acts[i].fp
        BY DEF SameFrames
    <2>1. CASE i = n
        BY <2>1, <1>1, <1>2 DEF SamePlace
    <2>2. CASE i # n
        BY <2>2, <1>2
    <2> QED BY <2>1, <2>2
<1>6. Frozen(stack', acts')
    <2>1. \A i \in 1..Len(acts') - 1 : acts'[i] = acts[i]
        BY <1>1, <1>2
    <2>2. SameAddresses(stack, stack', acts'[Len(acts')].fp)
        BY <1>1, <1>2 DEF SamePlace
    <2>3. Len(acts') \in 1..Len(acts) /\ SameFrames(acts, acts', Len(acts'))
        BY <1>1, <1>2, <1>5
    <2> QED BY <1>1, <1>2, <2>1, <2>2, <2>3, FrozenKept
<1> QED BY <1>3, <1>4, <1>5, <1>6

LEMMA LocalIInv ==
    ASSUME IInv, NEW a, SamePlace(Running, a), Replaced(acts', acts, n, a),
           a.holds \subseteq Written[a.fn], a.declared \subseteq Variables(a.fn),
           SameAddresses(stack, stack', rbp), rbp' = rbp,
           stack' \in Seq(Value), reg' \in [Registers -> Value],
           pc' \in {"body", "call", "find", "pop"}, goal' \in Functions, hops' \in Nat,
           AtPoint(stack', a, n, pc', goal'),
           pc' \in {"call", "find"} => Traverses(acts, Target(pc', goal'), rax', hops'),
           pc' \notin {"call", "find"} => rax' = 0
    PROVE  IInv'
<1>1. n' = n /\ Running' = a /\ SameFrames(acts, acts', n) /\ Frozen(stack', acts')
    BY LocalStep
<1>2. n \in Nat /\ n >= 1 /\ Len(acts) = n /\ n \in 1..MaxActive /\ rbp = Running.fp
      /\ n \in 1..n
    BY RunningIs
<1>3. acts' \in Seq(Activation) /\ Len(acts') = n /\ acts'[n] = a
      /\ \A i \in 1..n : i # n => acts'[i] = acts[i]
    BY <1>2 DEF Replaced
<1>4. ASSUME NEW i \in 1..n
      PROVE  acts'[i].holds \subseteq Written[acts'[i].fn]
             /\ acts'[i].declared \subseteq Variables(acts'[i].fn)
    <2>1. CASE i = n
        BY <2>1, <1>3
    <2>2. CASE i # n
        BY <2>2, <1>3 DEF IInv, Typed
    <2> QED BY <2>1, <2>2
<1>5. Typed'
    BY <1>1, <1>2, <1>3, <1>4 DEF Typed
<1>6. pc' \in {"call", "find"} => Traverses(acts', Target(pc', goal'), rax', hops')
    BY <1>1, <1>2, <1>3, TraversesKept
<1>7. rbp' = Running'.fp
    BY <1>1, <1>2 DEF SamePlace
<1>8. AtPoint(stack', Running', n', pc', goal')
    BY <1>1
<1>9. Shape'
    BY <1>1, <1>6, <1>7, <1>8 DEF Shape, Walking
<1> QED BY <1>5, <1>9 DEF IInv

\* A step that changes no activation.
LEMMA StillIInv ==
    ASSUME IInv, acts' = acts, SameAddresses(stack, stack', rbp), rbp' = rbp,
           stack' \in Seq(Value), reg' \in [Registers -> Value],
           pc' \in {"body", "call", "find", "pop"}, goal' \in Functions, hops' \in Nat,
           AtPoint(stack', Running, n, pc', goal'),
           pc' \in {"call", "find"} => Traverses(acts, Target(pc', goal'), rax', hops'),
           pc' \notin {"call", "find"} => rax' = 0
    PROVE  IInv'
<1>1. /\ acts \in Seq(Activation) /\ Len(acts) = n /\ n \in 1..n /\ Running = acts[n]
      /\ Running \in Activation
    BY RunningIs
<1>2. Replaced(acts', acts, n, Running) /\ SamePlace(Running, Running)
    BY <1>1 DEF Replaced, SamePlace
<1>3. Running.holds \subseteq Written[Running.fn] /\ Running.declared \subseteq Variables(Running.fn)
    BY <1>1 DEF IInv, Typed
<1> QED BY <1>2, <1>3, LocalIInv

LEMMA SameStack ==
    ASSUME stack' = stack, NEW k PROVE SameAddresses(stack, stack', k)
    BY DEF SameAddresses

\* The point an activation is at does not depend on what it holds.
LEMMA SamePoint ==
    ASSUME NEW m, NEW a, NEW b, NEW k, NEW at, NEW g, AtPoint(m, a, k, at, g),
           b.fn = a.fn, b.fp = a.fp, b.count = a.count, b.calls = a.calls
    PROVE  AtPoint(m, b, k, at, g)
    BY DEF AtPoint, InTurn, Top, Words, Displaced, Rest, InRegisters, AtBody, AtCall, AtPop, Turn

LEMMA ComputeIInv == ASSUME IInv, NEW c \in Registers, Compute(c) PROVE IInv'
<1> DEFINE a == [Running EXCEPT !.holds = @ \cup {c}]
<1>1. /\ pc = "body" /\ c \in Written[Running.fn] /\ acts' = [acts EXCEPT ![n] = a]
      /\ stack' = stack /\ rbp' = rbp /\ pc' = pc /\ goal' = goal /\ rax' = rax /\ hops' = hops
      /\ reg' = [reg EXCEPT ![c] = <<"temp", n, c>>]
    BY DEF Compute, Running
<1>2. /\ n \in 1..n /\ n \in 1..MaxActive /\ Len(acts) = n /\ acts \in Seq(Activation)
      /\ Running \in Activation /\ Running.fn \in Functions /\ Running = acts[n]
    BY RunningIs
<1>3. Written[Running.fn] \subseteq 1..MAX_REG /\ c \in Nat
    BY <1>1, <1>2, Layout, ParamRegs4 DEF LaidOut
<1>4. /\ a \in Activation /\ a.fn = Running.fn /\ a.env = Running.env /\ a.fp = Running.fp
      /\ a.count = Running.count /\ a.calls = Running.calls
      /\ a.declared = Running.declared /\ a.holds = Running.holds \cup {c}
    BY <1>1, <1>2, <1>3 DEF Activation
<1> HIDE DEF a
<1>5. SamePlace(Running, a) /\ Replaced(acts', acts, n, a)
    BY <1>1, <1>2, <1>4, ReplacedIs DEF SamePlace
<1>6. a.holds \subseteq Written[a.fn] /\ a.declared \subseteq Variables(a.fn)
    BY <1>1, <1>2, <1>4 DEF IInv, Typed
<1>7. reg' \in [Registers -> Value]
    BY <1>1, <1>2, <1>3, Values DEF IInv, Typed
<1>8. AtPoint(stack', a, n, pc', goal')
    BY <1>1, <1>4, SamePoint DEF IInv, Shape
<1>9. stack' \in Seq(Value) /\ goal' \in Functions /\ hops' \in Nat /\ rax' = 0
    BY <1>1 DEF IInv, Typed, Shape, Walking
<1> QED BY <1>1, <1>5, <1>6, <1>7, <1>8, <1>9, SameStack, LocalIInv

\* Where the variables that escape are: within the frame, above the saved rbp.
LEMMA VariablePlaced ==
    ASSUME Balanced, NEW f \in Functions, NEW v \in Variables(f)
    PROVE  /\ Offset(f, "var", v) \in 1..max_offset[f] - 1
           /\ Offset(f, "var", v) = CG_offset(f) - 1 + locals[f][v]
           /\ Offset(f, "var", v) >= regs_used[f]
<1>1. LaidOut(f)
    BY Layout
<1>2. locals[f][v] \in 1..declared[f] /\ CG_offset(f) \in Nat /\ declared[f] \in Nat
      /\ max_offset[f] = CG_offset(f) + declared[f] /\ CG_offset(f) >= regs_used[f]
      /\ regs_used[f] \in Nat
    BY <1>1, SegmentAssumption, SMTT(30) DEF LaidOut
<1>3. CG_offset(f) >= 1
    BY <1>1, <1>2 DEF LaidOut, Balanced
<1>4. Offset(f, "var", v) = CG_offset(f) - 1 + locals[f][v]
    BY DEF Offset
<1> QED BY <1>2, <1>3, <1>4

LEMMA DeclareIInv ==
    ASSUME Balanced, IInv, NEW v \in Variables(Running.fn), Declare(v)
    PROVE  IInv'
<1> DEFINE a == [Running EXCEPT !.declared = @ \cup {v}]
           o == Offset(Running.fn, "var", v)
<1>1. /\ pc = "body" /\ acts' = [acts EXCEPT ![n] = a]
      /\ stack' = [stack EXCEPT ![rbp + o] = <<"var", n, v>>]
      /\ reg' = reg /\ rbp' = rbp /\ pc' = pc /\ goal' = goal /\ rax' = rax /\ hops' = hops
    BY DEF Declare, Running
<1>2. /\ n \in 1..n /\ n \in 1..MaxActive /\ Len(acts) = n /\ acts \in Seq(Activation)
      /\ Running \in Activation /\ Running.fn \in Functions /\ Running = acts[n]
      /\ rbp \in Nat /\ stack \in Seq(Value) /\ Len(stack) \in Nat
      /\ max_offset[Running.fn] \in Nat
      /\ Len(stack) >= rbp + max_offset[Running.fn]
    BY RunningIs
<1>3. v \in Nat
    BY <1>2, Layout DEF LaidOut
<1>4. /\ a \in Activation /\ a.fn = Running.fn /\ a.env = Running.env /\ a.fp = Running.fp
      /\ a.count = Running.count /\ a.calls = Running.calls
      /\ a.holds = Running.holds /\ a.declared = Running.declared \cup {v}
    BY <1>1, <1>2, <1>3 DEF Activation
<1>5. o \in 1..max_offset[Running.fn] - 1
    BY <1>2, VariablePlaced
<1> HIDE DEF a, o
<1>6. SamePlace(Running, a) /\ Replaced(acts', acts, n, a)
    BY <1>1, <1>2, <1>4, ReplacedIs DEF SamePlace
<1>7. a.holds \subseteq Written[a.fn] /\ a.declared \subseteq Variables(a.fn)
    BY <1>1, <1>2, <1>4 DEF IInv, Typed
<1>8. /\ stack' \in Seq(Value) /\ Len(stack') = Len(stack)
      /\ \A i \in 1..rbp : stack'[i] = stack[i]
    <2>1. <<"var", n, v>> \in Value
        BY <1>2, <1>3, Values
    <2> QED BY <1>1, <1>2, <1>5, <2>1, SMTT(30)
<1>9. AtPoint(stack', a, n, pc', goal')
    <2>1. AtPoint(stack, a, n, pc', goal')
        BY <1>1, <1>4, SamePoint DEF IInv, Shape
    <2> QED BY <1>8, <2>1 DEF AtPoint
<1>10. SameAddresses(stack, stack', rbp)
    BY <1>8 DEF SameAddresses
<1>11. reg' \in [Registers -> Value] /\ goal' \in Functions /\ hops' \in Nat /\ rax' = 0
    BY <1>1 DEF IInv, Typed, Shape, Walking
<1> QED BY <1>1, <1>6, <1>7, <1>8, <1>9, <1>10, <1>11, LocalIInv

LEMMA DivideIInv == ASSUME IInv, Divide PROVE IInv'
<1>1. /\ pc = "body" /\ stack' = stack /\ acts' = acts
      /\ reg' = [reg EXCEPT ![ParamReg(3)] = Junk]
      /\ rbp' = rbp /\ pc' = pc /\ goal' = goal /\ rax' = rax /\ hops' = hops
    BY DEF Divide
<1>2. reg' \in [Registers -> Value]
    BY <1>1, Values DEF IInv, Typed
<1>3. /\ stack' \in Seq(Value) /\ goal' \in Functions /\ hops' \in Nat /\ rax' = 0
      /\ AtPoint(stack', Running, n, pc', goal')
    BY <1>1 DEF IInv, Typed, Shape, Walking
<1> QED BY <1>1, <1>2, <1>3, SameStack, StillIInv

(***************************************************************************)
(* Pushing and popping the parameter registers.                            *)
(***************************************************************************)

\* w is u with v pushed on it.
Pushes(w, u, v) ==
    /\ w \in Seq(Value) /\ Len(w) = Len(u) + Len(v)
    /\ \A i \in 1..Len(u) : w[i] = u[i]
    /\ \A i \in 1..Len(v) : w[Len(u) + i] = v[i]

LEMMA PushesIs ==
    ASSUME NEW u \in Seq(Value), NEW v \in Seq(Value) PROVE Pushes(u \o v, u, v)
    BY DEF Pushes

LEMMA AppendIs ==
    ASSUME NEW u \in Seq(Value), NEW x \in Value PROVE Pushes(Append(u, x), u, <<x>>)
    BY DEF Pushes

LEMMA PushesBelow ==
    ASSUME NEW w, NEW u, NEW v, NEW k \in Nat, Len(u) \in Nat, k <= Len(u), Pushes(w, u, v)
    PROVE  SameAddresses(u, w, k)
    BY DEF Pushes, SameAddresses

LEMMA SavedIs ==
    ASSUME reg \in [Registers -> Value], NEW from \in Nat, NEW to \in 0..4
    PROVE  /\ Saved(from, to) \in Seq(Value)
           /\ Len(Saved(from, to)) = IF to > from THEN to - from ELSE 0
           /\ \A i \in 1..(to - from) : Saved(from, to)[i] = reg[ParamReg(from + i - 1)]
<1> DEFINE k == IF to > from THEN to - from ELSE 0
<1>1. k \in Nat /\ 1..(to - from) = 1..k
    OBVIOUS
<1>2. Saved(from, to) = [i \in 1..k |-> reg[ParamReg(from + i - 1)]]
    BY <1>1 DEF Saved
<1>3. \A i \in 1..k : reg[ParamReg(from + i - 1)] \in Value
    <2> TAKE i \in 1..k
    <2>1. from + i - 1 \in 0..3
        OBVIOUS
    <2>2. ParamReg(from + i - 1) \in Registers
        BY <2>1, ParamRegs4
    <2> QED BY <2>2
<1> HIDE DEF k
<1>4. Saved(from, to) \in Seq(Value) /\ Len(Saved(from, to)) = k
    BY <1>1, <1>2, <1>3
<1> QED BY <1>1, <1>2, <1>4 DEF k

LEMMA SavedFirst ==
    ASSUME reg \in [Registers -> Value], NEW to \in 0..4
    PROVE  /\ Saved(0, to) \in Seq(Value) /\ Len(Saved(0, to)) = to
           /\ \A i \in 1..to : Saved(0, to)[i] = reg[ParamReg(i - 1)]
<1>1. 0 \in Nat /\ to - 0 = to /\ (IF to > 0 THEN to - 0 ELSE 0) = to /\ to \in Nat
    OBVIOUS
<1>2. /\ Saved(0, to) \in Seq(Value)
      /\ Len(Saved(0, to)) = IF to > 0 THEN to - 0 ELSE 0
      /\ \A i \in 1..(to - 0) : Saved(0, to)[i] = reg[ParamReg(0 + i - 1)]
    BY <1>1, SavedIs
<1>3. \A i \in 1..to : 0 + i - 1 = i - 1 /\ i \in 1..(to - 0)
    OBVIOUS
<1> QED BY <1>1, <1>2, <1>3

\* What Saved pushed comes back into the same registers.
LEMMA RestoredIs ==
    ASSUME reg \in [Registers -> Value], NEW to \in 0..4, NEW w, Len(stack) \in Nat,
           Pushes(w, stack, Saved(0, to))
    PROVE  Restored(0, to, w) = reg
<1>1. Len(w) = Len(stack) + to /\ \A i \in 1..to : w[Len(stack) + i] = reg[ParamReg(i - 1)]
    <2>1. Len(Saved(0, to)) = to /\ \A i \in 1..to : Saved(0, to)[i] = reg[ParamReg(i - 1)]
        BY SavedFirst
    <2> QED BY <2>1 DEF Pushes
<1>2. ASSUME NEW c \in Registers, NEW k \in 0..(to - 1), c = ParamReg(k)
      PROVE  w[Len(w) - (to - 1 - (c - ParamReg(0)))] = reg[c]
    <2>1. c - ParamReg(0) = k
        BY <1>2, ParamRegs4
    <2>2. Len(w) - (to - 1 - k) = Len(stack) + (k + 1) /\ k + 1 \in 1..to /\ (k + 1) - 1 = k
        BY <1>1
    <2>3. w[Len(stack) + (k + 1)] = reg[ParamReg((k + 1) - 1)]
        BY <1>1, <2>2
    <2> QED BY <1>2, <2>1, <2>2, <2>3
<1> QED BY <1>2 DEF Restored

\* Printing keeps what is in the registers that are not for parameters, and the
\* function's own parameters.
LEMMA PrintedIs ==
    ASSUME IInv
    PROVE  /\ Printed \in [Registers -> Value]
           /\ \A c \in 1..MAX_REG : Printed[c] = reg[c]
           /\ \A x \in 1..InRegisters(Running.fn) : Printed[ParamReg(x - 1)] = reg[ParamReg(x - 1)]
<1> DEFINE top == stack \o Saved(0, Least(P, 4))
<1>1. Printed = [c \in Registers |-> IF c \in ParamRegs /\ c >= ParamReg(P) THEN Junk
                                     ELSE Restored(0, Least(P, 4), top)[c]]
    BY DEF Printed
<1>2. reg \in [Registers -> Value] /\ stack \in Seq(Value) /\ Len(stack) \in Nat
    BY RunningIs DEF IInv, Typed
<1>3. PICK p \in Nat : p = P
    BY RunningIs
<1>4. Least(P, 4) \in 0..4
    BY <1>3 DEF Least
<1>5. Pushes(top, stack, Saved(0, Least(P, 4)))
    BY <1>2, <1>4, SavedFirst, PushesIs
<1> HIDE DEF top
<1>6. Restored(0, Least(P, 4), top) = reg
    BY <1>2, <1>4, <1>5, RestoredIs
<1>7. Printed \in [Registers -> Value]
    BY <1>1, <1>2, <1>6, Values
<1>8. \A c \in 1..MAX_REG : Printed[c] = reg[c]
    <2>1. \A c \in 1..MAX_REG : c \in Registers /\ c \notin ParamRegs
        BY ParamRegs4
    <2> QED BY <1>1, <1>6, <2>1
<1>9. ASSUME NEW x \in 1..InRegisters(Running.fn) PROVE Printed[ParamReg(x - 1)] = reg[ParamReg(x - 1)]
    <2>1. InRegisters(Running.fn) = Least(p, 4)
        BY <1>3 DEF InRegisters, P
    <2>2. x \in 1..4 /\ x <= p /\ x - 1 \in 0..3
        BY <2>1 DEF Least
    <2>3. ~ (ParamReg(x - 1) >= ParamReg(p))
        BY <2>2, SegmentAssumption DEF ParamReg
    <2>4. ParamReg(x - 1) \in Registers
        BY <2>2, ParamRegs4
    <2> QED BY <1>1, <1>3, <1>6, <2>3, <2>4
<1> QED BY <1>7, <1>8, <1>9

\* A register holds a value whether it was destroyed or not.
LEMMA PrintValueIInv == ASSUME IInv, PrintValue PROVE IInv'
<1>1. /\ pc = "body" /\ stack' = stack /\ acts' = acts /\ reg' = Printed
      /\ rbp' = rbp /\ pc' = pc /\ goal' = goal /\ rax' = rax /\ hops' = hops
    BY DEF PrintValue
<1>2. reg' \in [Registers -> Value]
    BY <1>1, PrintedIs
<1>3. /\ stack' \in Seq(Value) /\ goal' \in Functions /\ hops' \in Nat /\ rax' = 0
      /\ AtPoint(stack', Running, n, pc', goal')
    BY <1>1 DEF IInv, Typed, Shape, Walking
<1> QED BY <1>1, <1>2, <1>3, SameStack, StillIInv

\* What printing a string leaves of the running activation, a: what it holds.
PrintsString(c, a) ==
    /\ c \in 1..MAX_REG /\ c \in Registers /\ c \in Running.holds
    /\ acts' = [acts EXCEPT ![n] = a] /\ Replaced(acts', acts, n, a) /\ SamePlace(Running, a)
    /\ a.count = Running.count /\ a.calls = Running.calls /\ a.declared = Running.declared
    /\ a.holds = IF Reprints THEN Running.holds ELSE Running.holds \ {c}
    /\ reg' = [Printed EXCEPT ![c] = Junk]
    /\ pc = "body" /\ Running.calls = <<>>
    /\ stack' = stack /\ rbp' = rbp /\ pc' = pc /\ goal' = goal /\ rax' = rax /\ hops' = hops

LEMMA PrintStringDoes ==
    ASSUME IInv, NEW c \in Registers, PrintString(c) PROVE \E a : PrintsString(c, a)
<1> DEFINE a == [Running EXCEPT !.holds = IF Reprints THEN @ ELSE @ \ {c}]
<1>1. /\ pc = "body" /\ Running.calls = <<>> /\ c \in Running.holds
      /\ acts' = [acts EXCEPT ![n] = a] /\ reg' = [Printed EXCEPT ![c] = Junk]
      /\ stack' = stack /\ rbp' = rbp /\ pc' = pc /\ goal' = goal /\ rax' = rax /\ hops' = hops
    BY DEF PrintString, Running
<1>2. /\ n \in 1..n /\ Len(acts) = n /\ acts \in Seq(Activation)
      /\ Running \in Activation /\ Running = acts[n]
    BY RunningIs
<1>3. c \in 1..MAX_REG
    BY <1>1, <1>2 DEF Activation
<1>4. /\ a \in Activation /\ a.fn = Running.fn /\ a.env = Running.env /\ a.fp = Running.fp
      /\ a.count = Running.count /\ a.calls = Running.calls /\ a.declared = Running.declared
      /\ a.holds = IF Reprints THEN Running.holds ELSE Running.holds \ {c}
    BY <1>2 DEF Activation
<1> HIDE DEF a
<1>5. SamePlace(Running, a) /\ Replaced(acts', acts, n, a)
    BY <1>1, <1>2, <1>4, ReplacedIs DEF SamePlace
<1> QED BY <1>1, <1>3, <1>4, <1>5 DEF PrintsString

LEMMA PrintStringIInv == ASSUME IInv, NEW c \in Registers, PrintString(c) PROVE IInv'
<1>1. PICK a : PrintsString(c, a)
    BY PrintStringDoes
<1>2. n \in 1..n /\ Running = acts[n]
    BY RunningIs
<1>3. /\ SamePlace(Running, a) /\ Replaced(acts', acts, n, a)
      /\ a.fn = Running.fn /\ a.fp = Running.fp
      /\ a.count = Running.count /\ a.calls = Running.calls /\ a.declared = Running.declared
      /\ a.holds \subseteq Running.holds
    BY <1>1 DEF PrintsString, SamePlace
<1>4. a.holds \subseteq Written[a.fn] /\ a.declared \subseteq Variables(a.fn)
    BY <1>2, <1>3 DEF IInv, Typed
<1>5. /\ pc = "body" /\ reg' = [Printed EXCEPT ![c] = Junk]
      /\ stack' = stack /\ rbp' = rbp /\ pc' = pc /\ goal' = goal /\ rax' = rax /\ hops' = hops
    BY <1>1 DEF PrintsString
<1>6. reg' \in [Registers -> Value]
    BY <1>5, PrintedIs, Values
<1>7. AtPoint(stack', a, n, pc', goal')
    BY <1>3, <1>5, SamePoint DEF IInv, Shape
<1>8. stack' \in Seq(Value) /\ goal' \in Functions /\ hops' \in Nat /\ rax' = 0
    BY <1>5 DEF IInv, Typed, Shape, Walking
<1> QED BY <1>3, <1>4, <1>5, <1>6, <1>7, <1>8, SameStack, LocalIInv

\* Between segments no argument is waiting, so that no count is lost.
LEMMA NextSegmentIs == ASSUME Balanced, IInv, NextSegment PROVE UNCHANGED vars
<1>1. /\ pc = "body"
      /\ Running.calls = <<>> \/ Running.count = 0
      /\ acts' = [acts EXCEPT ![n].count = 0]
      /\ UNCHANGED <<stack, reg, rbp, pc, goal, rax, hops, sought>>
    BY DEF NextSegment, Balanced
<1>2. n \in 1..n /\ Len(acts) = n /\ acts \in Seq(Activation) /\ Running = acts[n]
    BY RunningIs
<1>3. AtBody(Running)
    BY <1>1 DEF IInv, Shape, AtPoint
<1>4. Running.count = 0
    BY <1>1, <1>3 DEF AtBody
<1>5. PICK a \in Activation : a = acts[n]
    BY <1>2
<1>6. [a EXCEPT !.count = 0] = a
    BY <1>2, <1>4, <1>5 DEF Activation
<1>7. acts' = [acts EXCEPT ![n] = a]
    BY <1>1, <1>2, <1>5, <1>6
<1>8. acts' = acts
    BY <1>2, <1>5, <1>7
<1> QED BY <1>1, <1>8 DEF vars

\* An array declaration pops what it pushed.
LEMMA DeclareArrayIs ==
    ASSUME Balanced, IInv, DeclareArray
    PROVE  /\ stack' = stack
           /\ \E k \in {0, 2} : /\ k = 0 => P = 0
                                /\ k = 2 => P >= 2
                                /\ reg' = [c \in Registers |->
                                     IF c \in {ParamReg(i) : i \in k..1} THEN Junk ELSE reg[c]]
<1> DEFINE pushed == Saved(0, IF Saves(1) THEN 2 ELSE IF Saves(0) THEN 1 ELSE 0)
           popped == IF Restores(2) THEN 2 ELSE IF Restores(1) THEN 1 ELSE 0
           top    == stack \o pushed
<1>1. /\ Running.fn \in Arrays
      /\ stack' = SubSeq(top, 1, Len(top) - popped)
      /\ reg' = [c \in Registers |->
                   IF c \in {ParamReg(i) : i \in popped..1} THEN Junk
                   ELSE Restored(0, popped, top)[c]]
    BY DEF DeclareArray
<1>2. reg \in [Registers -> Value] /\ stack \in Seq(Value) /\ Len(stack) \in Nat
    BY RunningIs DEF IInv, Typed
<1>3. P \in Nat /\ P # 1
    BY <1>1, RunningIs DEF Balanced
<1>4. PICK k \in {0, 2} : /\ k = popped /\ pushed = Saved(0, k)
                          /\ k = 0 => P = 0
                          /\ k = 2 => P >= 2
    <2>1. CASE P = 0
        BY <2>1 DEF Saves, Restores
    <2>2. CASE P >= 2
        BY <2>2, <1>3 DEF Saves, Restores
    <2> QED BY <1>3, <2>1, <2>2
<1>5. k \in 0..4
    OBVIOUS
<1>6. Saved(0, k) \in Seq(Value) /\ Len(Saved(0, k)) = k
    BY <1>2, <1>5, SavedFirst
<1>7. top = stack \o Saved(0, k)
    BY <1>4
<1>8. Pushes(top, stack, Saved(0, k))
    BY <1>2, <1>6, <1>7, PushesIs
<1>9. stack' = SubSeq(top, 1, Len(top) - k)
    BY <1>1, <1>4
<1>10. reg' = [c \in Registers |->
                 IF c \in {ParamReg(i) : i \in k..1} THEN Junk ELSE Restored(0, k, top)[c]]
    BY <1>1, <1>4
<1> HIDE DEF top, popped, pushed
<1>11. Restored(0, k, top) = reg
    BY <1>2, <1>5, <1>8, RestoredIs
<1>12. stack' = stack
    <2>1. Len(top) - k = Len(stack) /\ \A i \in 1..Len(stack) : top[i] = stack[i]
        BY <1>2, <1>6, <1>8 DEF Pushes
    <2>2. SubSeq(top, 1, Len(stack)) = stack
        <3>1. top \in Seq(Value) /\ Len(top) >= Len(stack)
            BY <1>2, <1>6, <1>8 DEF Pushes
        <3> QED BY <1>2, <2>1, <3>1
    <2> QED BY <1>9, <2>1, <2>2
<1> QED BY <1>4, <1>10, <1>11, <1>12

LEMMA DeclareArrayIInv == ASSUME Balanced, IInv, DeclareArray PROVE IInv'
<1>1. /\ pc = "body" /\ acts' = acts
      /\ rbp' = rbp /\ pc' = pc /\ goal' = goal /\ rax' = rax /\ hops' = hops
    BY DEF DeclareArray
<1>2. stack' = stack
    BY DeclareArrayIs
<1>3. PICK k \in {0, 2} : reg' = [c \in Registers |->
                            IF c \in {ParamReg(i) : i \in k..1} THEN Junk ELSE reg[c]]
    BY DeclareArrayIs
<1>4. reg' \in [Registers -> Value]
    BY <1>3, Values DEF IInv, Typed
<1>5. /\ stack' \in Seq(Value) /\ goal' \in Functions /\ hops' \in Nat /\ rax' = 0
      /\ AtPoint(stack', Running, n, pc', goal')
    BY <1>1, <1>2 DEF IInv, Typed, Shape, Walking
<1> QED BY <1>1, <1>2, <1>4, <1>5, SameStack, StillIInv

(***************************************************************************)
(* Calls, up to the instruction that enters the function.                  *)
(***************************************************************************)

\* c is the calls of an activation with one more, or with r as its last.
OneMore(d, c, r) ==
    /\ d \in Seq(CallRecord) /\ Len(d) = Len(c) + 1 /\ d[Len(d)] = r /\ d # <<>>
    /\ \A k \in 1..Len(c) : d[k] = c[k]
LastIs(d, c, r) ==
    /\ d \in Seq(CallRecord) /\ Len(d) = Len(c) /\ d[Len(d)] = r /\ d # <<>>
    /\ \A k \in 1..Len(c) : k # Len(c) => d[k] = c[k]

LEMMA OneMoreIs ==
    ASSUME NEW c \in Seq(CallRecord), NEW r \in CallRecord
    PROVE  OneMore(Append(c, r), c, r)
    BY DEF OneMore

LEMMA LastIsIs ==
    ASSUME NEW c \in Seq(CallRecord), c # <<>>, NEW r \in CallRecord,
           NEW d, d = [c EXCEPT ![Len(c)] = r]
    PROVE  LastIs(d, c, r)
    BY DEF LastIs

\* A call with one more argument.
LEMMA WithArgument ==
    ASSUME NEW q \in CallRecord, NEW x \in Value, NEW r, r = [q EXCEPT !.args = Append(@, x)]
    PROVE  /\ r \in CallRecord /\ r.fn = q.fn /\ r.pops = q.pops /\ Len(r.args) = Len(q.args) + 1
           /\ r.args[Len(q.args) + 1] = x /\ \A i \in 1..Len(q.args) : r.args[i] = q.args[i]
<1>1. q.args \in Seq(Value) /\ q.fn \in Functions /\ q.pops \in Nat
    BY DEF CallRecord
<1>2. PICK w : w = Append(q.args, x)
    OBVIOUS
<1>0. w \in Seq(Value)
    BY <1>1, <1>2
<1>3. r = [q EXCEPT !.args = w]
    BY <1>2
<1>4. r.args = w /\ r.fn = q.fn /\ r.pops = q.pops /\ r \in CallRecord
    BY <1>0, <1>3 DEF CallRecord
<1> QED BY <1>1, <1>2, <1>4

\* The call whose turn it is.
LEMMA TurnIs ==
    ASSUME NEW a \in Activation, a.calls # <<>>, InTurn(a)
    PROVE  /\ a.calls \in Seq(CallRecord) /\ Len(a.calls) \in Nat /\ Len(a.calls) >= 1
           /\ Len(a.calls) \in 1..Len(a.calls)
           /\ Turn(a) \in CallRecord /\ Turn(a).fn \in Calls[a.fn]
           /\ Turn(a).args \in Seq(Value) /\ Turn(a).pops \in Nat
           /\ Last(a.calls) = Turn(a) /\ Turn(a) = a.calls[Len(a.calls)]
           /\ Turn(a).fn \in Functions /\ Params[Turn(a).fn] \in Nat
<1>1. a.calls \in Seq(CallRecord)
    BY DEF Activation
<1>2. Len(a.calls) \in Nat /\ Len(a.calls) >= 1 /\ Len(a.calls) \in 1..Len(a.calls)
    BY <1>1
<1>3. Turn(a) \in CallRecord /\ Turn(a).fn \in Calls[a.fn]
    BY <1>1, <1>2 DEF Turn, InTurn
<1>4. Turn(a).fn \in Functions /\ Turn(a).args \in Seq(Value) /\ Turn(a).pops \in Nat
    BY <1>3 DEF CallRecord
<1> QED BY <1>1, <1>2, <1>3, <1>4, ProgramAssumption DEF Turn, Last

LEMMA StartCallIInv ==
    ASSUME Balanced, IInv, NEW g \in Functions, StartCall(g) PROVE IInv'
<1> DEFINE r == [fn |-> g, args |-> <<>>, pops |-> 0]
           a == [Running EXCEPT !.calls = Append(@, r)]
<1>1. /\ pc = "body" /\ acts' = [acts EXCEPT ![n] = a] /\ g \in Calls[Running.fn]
      /\ n < MaxActive
      /\ Running.calls = <<>> \/ Running.count = 0 \/ NestedArguments
      /\ stack' = stack /\ reg' = reg /\ rbp' = rbp /\ pc' = pc /\ goal' = goal
      /\ rax' = rax /\ hops' = hops
    BY DEF StartCall, Running
<1>2. /\ n \in 1..n /\ n \in 1..MaxActive /\ Len(acts) = n /\ acts \in Seq(Activation)
      /\ Running \in Activation /\ Running.fn \in Functions /\ Running = acts[n]
    BY RunningIs
<1>3. r \in CallRecord /\ r.fn = g /\ r.args = <<>> /\ r.pops = 0 /\ Running.calls \in Seq(CallRecord)
    BY <1>2 DEF CallRecord, Activation
<1>4. OneMore(Append(Running.calls, r), Running.calls, r)
    BY <1>3, OneMoreIs
<1> HIDE DEF r
<1>5. /\ a \in Activation /\ a.fn = Running.fn /\ a.env = Running.env /\ a.fp = Running.fp
      /\ a.count = Running.count /\ a.calls = Append(Running.calls, r)
      /\ a.declared = Running.declared /\ a.holds = Running.holds
    <2>1. Append(Running.calls, r) \in Seq(CallRecord)
        BY <1>4 DEF OneMore
    <2> QED BY <1>2, <2>1 DEF Activation
<1> HIDE DEF a
<1>6. SamePlace(Running, a) /\ Replaced(acts', acts, n, a)
    BY <1>1, <1>2, <1>5, ReplacedIs DEF SamePlace
<1>7. a.holds \subseteq Written[a.fn] /\ a.declared \subseteq Variables(a.fn)
    BY <1>2, <1>5 DEF IInv, Typed
<1>8. AtPoint(stack, Running, n, pc, goal) /\ AtBody(Running) /\ InTurn(Running)
    BY <1>1 DEF IInv, Shape, AtPoint
<1>9. Running.count = 0
    BY <1>1, <1>8 DEF AtBody, Balanced
<1>10. OneMore(a.calls, Running.calls, r) /\ Turn(a) = r
    BY <1>4, <1>5 DEF OneMore, Turn
<1>11. InTurn(a)
    <2> SUFFICES ASSUME NEW k \in 1..Len(a.calls)
                 PROVE  /\ a.calls[k].fn \in Calls[a.fn]
                        /\ k < Len(a.calls) => a.calls[k].args = <<>> /\ a.calls[k].pops = 0
        BY DEF InTurn
    <2>1. CASE k = Len(a.calls)
        BY <2>1, <1>1, <1>3, <1>5, <1>10 DEF OneMore
    <2>2. CASE k # Len(a.calls)
        <3>1. k \in 1..Len(Running.calls) /\ a.calls[k] = Running.calls[k]
              /\ Len(Running.calls) \in Nat /\ Len(Running.calls) >= 1
            BY <2>2, <1>3, <1>10 DEF OneMore
        <3>2. /\ Running.calls[k].fn \in Calls[a.fn]
              /\ k < Len(Running.calls) => Running.calls[k].args = <<>> /\ Running.calls[k].pops = 0
            BY <3>1, <1>5, <1>8 DEF InTurn
        <3>3. Running.calls # <<>>
            BY <3>1
        <3>4. k = Len(Running.calls) => Running.calls[k].args = <<>> /\ Running.calls[k].pops = 0
            <4>1. Turn(Running).args \in Seq(Value)
                BY <1>2, <1>8, <3>3, TurnIs
            <4>2. Len(Turn(Running).args) = 0 /\ Turn(Running).pops = 0
                BY <1>8, <1>9, <3>3 DEF AtBody
            <4> QED BY <4>1, <4>2 DEF Turn
        <3>5. k < Len(Running.calls) \/ k = Len(Running.calls)
            BY <3>1
        <3> QED BY <3>1, <3>2, <3>4, <3>5
    <2> QED BY <2>1, <2>2
<1>12. AtBody(a)
    <2>1. a.calls # <<>>
        BY <1>10 DEF OneMore
    <2>2. Params[g] \in Nat
        BY ProgramAssumption
    <2>3. a.count = Len(Turn(a).args) /\ Turn(a).pops = 0 /\ a.count <= Params[Turn(a).fn]
        BY <1>3, <1>5, <1>9, <1>10, <2>2
    <2> QED BY <2>1, <2>3 DEF AtBody
<1>13. Top(a) = Top(Running) /\ Rest(a) = Rest(Running)
    BY <1>5 DEF Top, Words, Displaced, Rest
<1>14. AtPoint(stack', a, n, pc', goal')
    BY <1>1, <1>8, <1>11, <1>12, <1>13 DEF AtPoint
<1>15. /\ stack' \in Seq(Value) /\ reg' \in [Registers -> Value] /\ goal' \in Functions
       /\ hops' \in Nat /\ rax' = 0
    BY <1>1 DEF IInv, Typed, Shape, Walking
<1> QED BY <1>1, <1>6, <1>7, <1>14, <1>15, SameStack, LocalIInv

(***************************************************************************)
(* What evaluating an argument does: the state it is in before, the        *)
(* register or the slot it goes into, and the record of it.                *)
(***************************************************************************)
ArgumentIs(c, k, g, a, r) ==
    /\ pc = "body" /\ c \in Registers /\ k = Running.count /\ k \in Nat
    /\ Running.calls # <<>> /\ InTurn(Running) /\ AtBody(Running)
    /\ g = Turn(Running).fn /\ g \in Calls[Running.fn] /\ k < Params[g] /\ Params[g] \in Nat
    /\ k < 4 => P = 0 \/ k < P
    /\ IF k < 4 /\ P = 0 THEN stack' = stack
       ELSE Pushes(stack', stack, << IF k < 4 THEN reg[ParamReg(k)] ELSE reg[c] >>)
    /\ stack' \in Seq(Value)
    /\ reg' = IF k < 4 THEN [reg EXCEPT ![ParamReg(k)] = reg[c]] ELSE reg
    /\ Replaced(acts', acts, n, a) /\ SamePlace(Running, a)
    /\ a.count = k + 1 /\ a.holds = Running.holds /\ a.declared = Running.declared
    /\ LastIs(a.calls, Running.calls, r) /\ Turn(a) = r /\ r \in CallRecord
    /\ r.fn = g /\ r.pops = 0 /\ Len(Turn(Running).args) = k
    /\ Len(r.args) = k + 1 /\ r.args[k + 1] = Meant(c)
    /\ \A i \in 1..k : r.args[i] = Turn(Running).args[i]

LEMMA ArgumentDoes ==
    ASSUME Balanced, IInv, NEW c \in Registers, Argument(c)
    PROVE  \E k, g, a, r : ArgumentIs(c, k, g, a, r)
<1> DEFINE k == Running.count
           g == Turn(Running).fn
           r == [Turn(Running) EXCEPT !.args = Append(@, Meant(c))]
           a == [Running EXCEPT !.count = k + 1,
                                !.calls = [Running.calls EXCEPT ![Len(Running.calls)] = r]]
<1>1. /\ n \in 1..n /\ n \in 1..MaxActive /\ Len(acts) = n /\ acts \in Seq(Activation)
      /\ Running \in Activation /\ Running.fn \in Functions /\ Running = acts[n]
      /\ P \in Nat /\ P = Params[Running.fn] /\ stack \in Seq(Value) /\ Len(stack) \in Nat
    BY RunningIs
<1>2. pc = "body" /\ Running.calls # <<>> /\ Len(call.args) < Params[call.fn] /\ c \in Sources
    BY DEF Argument
<1>3. AtPoint(stack, Running, n, pc, goal) /\ AtBody(Running) /\ InTurn(Running)
    BY <1>2 DEF IInv, Shape, AtPoint
<1>4. /\ Running.calls \in Seq(CallRecord) /\ Len(Running.calls) \in 1..Len(Running.calls)
      /\ Turn(Running) \in CallRecord /\ g \in Calls[Running.fn]
      /\ Turn(Running).args \in Seq(Value) /\ call = Turn(Running)
      /\ Params[g] \in Nat /\ g \in Functions /\ Turn(Running) = Running.calls[Len(Running.calls)]
    BY <1>1, <1>2, <1>3, TurnIs DEF call
<1>5. k \in Nat /\ k = Len(Turn(Running).args) /\ Turn(Running).pops = 0 /\ k < Params[g]
    BY <1>1, <1>2, <1>3, <1>4, Sizes DEF AtBody
<1>6. Meant(c) \in Value
    <2>1. c \in Nat /\ MAX_REG \in Nat
        BY ParamRegs4
    <2>2. CASE c <= MAX_REG
        BY <1>1, <2>1, <2>2, Values DEF Meant
    <2>3. CASE ~ (c <= MAX_REG)
        <3>1. c - MAX_REG - 1 \in Nat
            BY <2>1, <2>3
        <3>2. <<"param", n, c - MAX_REG - 1>> \in Value
            BY <1>1, <3>1, Values
        <3> QED BY <2>3, <3>2 DEF Meant
    <2> QED BY <2>2, <2>3
<1>7. /\ r \in CallRecord /\ r.fn = g /\ r.pops = 0
      /\ Len(r.args) = k + 1 /\ r.args[k + 1] = Meant(c)
      /\ \A i \in 1..k : r.args[i] = Turn(Running).args[i]
    <2>1. PICK q \in CallRecord : q = Turn(Running)
        BY <1>4
    <2>2. PICK x \in Value : x = Meant(c)
        BY <1>6
    <2>3. r = [q EXCEPT !.args = Append(@, x)]
        BY <2>1, <2>2
    <2> HIDE DEF r
    <2>4. /\ r \in CallRecord /\ r.fn = q.fn /\ r.pops = q.pops /\ Len(r.args) = Len(q.args) + 1
          /\ r.args[Len(q.args) + 1] = x /\ \A i \in 1..Len(q.args) : r.args[i] = q.args[i]
        BY <2>3, WithArgument
    <2> QED BY <1>5, <2>1, <2>2, <2>4
<1>9. LastIs([Running.calls EXCEPT ![Len(Running.calls)] = r], Running.calls, r)
    <2> HIDE DEF r
    <2> QED BY <1>2, <1>4, <1>7, LastIsIs
<1>10. acts' = [acts EXCEPT ![n] = a]
    BY <1>1, <1>4, ZenonT(40) DEF Argument
<1>11. /\ a \in Activation /\ a.fn = Running.fn /\ a.env = Running.env /\ a.fp = Running.fp
       /\ a.count = k + 1 /\ a.holds = Running.holds /\ a.declared = Running.declared
       /\ a.calls = [Running.calls EXCEPT ![Len(Running.calls)] = r]
    <2> HIDE DEF r
    <2>1. [Running.calls EXCEPT ![Len(Running.calls)] = r] \in Seq(CallRecord) /\ k + 1 \in Nat
        BY <1>5, <1>9 DEF LastIs
    <2>2. PICK d \in Seq(CallRecord) : d = [Running.calls EXCEPT ![Len(Running.calls)] = r]
        BY <2>1
    <2>3. PICK x \in Nat : x = k + 1
        BY <2>1
    <2>4. a = [Running EXCEPT !.count = x, !.calls = d]
        BY <2>2, <2>3
    <2> HIDE DEF a, k
    <2>5. /\ a \in Activation /\ a.fn = Running.fn /\ a.env = Running.env /\ a.fp = Running.fp
          /\ a.count = x /\ a.holds = Running.holds /\ a.declared = Running.declared
          /\ a.calls = d
        BY <1>1, <2>4 DEF Activation
    <2> QED BY <2>2, <2>3, <2>5
<1>12. /\ k < 4 => stack' = IF Saves(k) THEN Append(stack, reg[ParamReg(k)]) ELSE stack
       /\ ~ (k < 4) => stack' = Append(stack, reg[c])
       /\ reg' = IF k < 4 THEN [reg EXCEPT ![ParamReg(k)] = reg[c]] ELSE reg
    BY DEF Argument
<1>13. k < 4 => P = 0 \/ k < P
    <2>1. P = 0 \/ Least(Params[g], 4) <= P
        BY <1>1, <1>4 DEF Balanced
    <2> QED BY <1>1, <1>4, <1>5, <2>1 DEF Least
<1>14. /\ IF k < 4 /\ P = 0 THEN stack' = stack
          ELSE Pushes(stack', stack, << IF k < 4 THEN reg[ParamReg(k)] ELSE reg[c] >>)
       /\ stack' \in Seq(Value)
    <2>1. reg \in [Registers -> Value] /\ reg[c] \in Value
        BY DEF IInv, Typed
    <2>2. k < 4 => reg[ParamReg(k)] \in Value
        <3>1. \A x \in Nat : x < 4 => x \in 0..3
            OBVIOUS
        <3>2. k < 4 => k \in 0..3
            BY <1>5, <3>1
        <3> HIDE DEF k
        <3> QED BY <2>1, <3>2, ParamRegs4
    <2>3. CASE k < 4 /\ P = 0
        BY <1>1, <1>12, <2>3 DEF Saves
    <2>4. CASE k < 4 /\ P # 0
        <3>1. stack' = Append(stack, reg[ParamReg(k)])
            BY <1>1, <1>5, <1>12, <1>13, <2>4 DEF Saves
        <3> QED BY <1>1, <2>2, <2>4, <3>1, AppendIs DEF Pushes
    <2>5. CASE ~ (k < 4)
        <3>1. Pushes(stack', stack, <<reg[c]>>)
            BY <1>1, <1>12, <2>1, <2>5, AppendIs
        <3> QED BY <2>5, <3>1 DEF Pushes
    <2> QED BY <2>3, <2>4, <2>5
<1>15. Replaced(acts', acts, n, a) /\ SamePlace(Running, a)
    <2> HIDE DEF a
    <2> QED BY <1>1, <1>10, <1>11, ReplacedIs DEF SamePlace
<1>16. LastIs(a.calls, Running.calls, r) /\ Turn(a) = r
    <2> HIDE DEF a, r
    <2> QED BY <1>9, <1>11 DEF LastIs, Turn
<1> HIDE DEF a, r
<1>17. ArgumentIs(c, k, g, a, r)
    BY <1>2, <1>3, <1>4, <1>5, <1>7, <1>11, <1>12, <1>13, <1>14, <1>15, <1>16
       DEF ArgumentIs
<1> QED BY <1>17

LEMMA ArgumentIInv ==
    ASSUME Balanced, IInv, NEW c \in Registers, Argument(c) PROVE IInv'
<1>1. PICK k, g, a, r : ArgumentIs(c, k, g, a, r)
    BY ArgumentDoes
<1>2. /\ rbp' = rbp /\ pc' = pc /\ goal' = goal /\ rax' = rax /\ hops' = hops /\ pc = "body"
    BY DEF Argument
<1>3. /\ Running \in Activation /\ Running.fn \in Functions /\ Running = acts[n]
      /\ rbp \in Nat /\ Len(stack) \in Nat /\ stack \in Seq(Value)
      /\ max_offset[Running.fn] \in Nat
      /\ Len(stack) >= rbp + max_offset[Running.fn] /\ P \in Nat /\ P = Params[Running.fn]
    BY RunningIs
<1>4. AtPoint(stack, Running, n, pc, goal) /\ rax = 0
    BY <1>2 DEF IInv, Shape, Walking
<1>5. SamePlace(Running, a) /\ Replaced(acts', acts, n, a)
    BY <1>1 DEF ArgumentIs
<1>6. a.holds \subseteq Written[a.fn] /\ a.declared \subseteq Variables(a.fn)
    <2>1. Running.holds \subseteq Written[Running.fn] /\ Running.declared \subseteq Variables(Running.fn)
        BY <1>3, RunningIs DEF IInv, Typed
    <2> QED BY <2>1, <1>1 DEF ArgumentIs, SamePlace
<1>7. SameAddresses(stack, stack', rbp)
    <2>1. \A i \in 1..Len(stack) : stack'[i] = stack[i]
        BY <1>1 DEF ArgumentIs, Pushes
    <2> QED BY <1>3, <2>1 DEF SameAddresses
<1>8. reg' \in [Registers -> Value]
    <2>1. reg \in [Registers -> Value] /\ reg[c] \in Value
        BY DEF IInv, Typed
    <2>2. reg' = [reg EXCEPT ![ParamReg(k)] = reg[c]] \/ reg' = reg
        BY <1>1 DEF ArgumentIs
    <2> QED BY <2>1, <2>2
<1>9. InTurn(a)
    <2> SUFFICES ASSUME NEW i \in 1..Len(a.calls)
                 PROVE  /\ a.calls[i].fn \in Calls[a.fn]
                        /\ i < Len(a.calls) => a.calls[i].args = <<>> /\ a.calls[i].pops = 0
        BY DEF InTurn
    <2>1. /\ Len(a.calls) = Len(Running.calls) /\ a.calls[Len(a.calls)] = r /\ r.fn = g
          /\ g \in Calls[Running.fn] /\ a.fn = Running.fn /\ InTurn(Running)
          /\ \A j \in 1..Len(Running.calls) : j # Len(Running.calls) => a.calls[j] = Running.calls[j]
        BY <1>1 DEF ArgumentIs, LastIs, SamePlace
    <2>2. CASE i = Len(a.calls)
        BY <2>1, <2>2
    <2>3. CASE i # Len(a.calls)
        BY <2>1, <2>3 DEF InTurn
    <2> QED BY <2>2, <2>3
<1>10. AtBody(a)
    BY <1>1 DEF ArgumentIs, AtBody, LastIs
<1>11. Len(stack') = Top(a)
    <2>1. Len(stack) = Top(Running)
        <3>1. Len(stack) = Top(Running) + 0
            BY <1>2, <1>4 DEF AtPoint
        <3>2. Top(Running) \in Nat
            BY <1>3, Sizes
        <3> QED BY <3>1, <3>2
    <2>2. /\ k = Running.count /\ k \in Nat /\ (k < 4 => P = 0 \/ k < P)
          /\ a.count = k + 1 /\ a.fn = Running.fn /\ a.fp = Running.fp
          /\ Len(stack') = IF k < 4 /\ P = 0 THEN Len(stack) ELSE Len(stack) + 1
        BY <1>1 DEF ArgumentIs, Pushes, SamePlace
    <2>3. Words(a) = IF k < 4 /\ P = 0 THEN Words(Running) ELSE Words(Running) + 1
        BY <2>2, <1>3 DEF Words, Displaced, Least
    <2>4. Words(Running) \in Nat /\ Running.fp \in Nat
        BY <1>3, Sizes
    <2> QED
        <3>1. PICK fp \in Nat, max \in Nat, words \in Nat, l \in Nat :
                /\ fp = Running.fp /\ max = max_offset[Running.fn]
                /\ words = Words(Running) /\ l = Len(stack)
            BY <1>3, <2>1, <2>4
        <3>2. l = fp + max + words
            BY <2>1, <3>1 DEF Top
        <3>3. Top(a) = fp + max + Words(a)
            BY <2>2, <3>1 DEF Top
        <3>4. CASE k < 4 /\ P = 0
            <4>1. Len(stack') = l /\ Words(a) = words
                BY <2>2, <2>3, <3>1, <3>4
            <4> QED BY <3>2, <3>3, <4>1
        <3>5. CASE ~(k < 4 /\ P = 0)
            <4>1. Len(stack') = l + 1 /\ Words(a) = words + 1
                BY <2>2, <2>3, <3>1, <3>5
            <4> QED BY <3>2, <3>3, <4>1
        <3> QED BY <3>4, <3>5
<1>12. AtPoint(stack', a, n, pc', goal')
    <2>1. Running.calls # <<>>
        BY <1>1 DEF ArgumentIs
    <2> QED BY <1>2, <1>4, <1>9, <1>10, <1>11, <2>1 DEF AtPoint
<1>13. stack' \in Seq(Value) /\ goal' \in Functions /\ hops' \in Nat /\ rax' = 0
    BY <1>1, <1>2, <1>4 DEF IInv, Typed, ArgumentIs
<1> QED BY <1>2, <1>5, <1>6, <1>7, <1>8, <1>12, <1>13, LocalIInv

\* Where a called function's declaration is seen from.
LEMMA MakeCallIInv == ASSUME Balanced, IInv, MakeCall PROVE IInv'
<1>1. /\ pc = "body" /\ Running.calls # <<>> /\ Len(call.args) = Params[call.fn]
      /\ stack' = stack \o Saved(Running.count, Least(P, 4))
      /\ Seek(Outer[call.fn]) /\ pc' = "call" /\ goal' = call.fn
      /\ reg' = reg /\ rbp' = rbp /\ acts' = acts
    BY DEF MakeCall
<1>2. /\ Running \in Activation /\ Running.fn \in Functions /\ Running = acts[n]
      /\ P \in Nat /\ P = Params[Running.fn] /\ stack \in Seq(Value) /\ Len(stack) \in Nat
      /\ rbp \in Nat /\ max_offset[Running.fn] \in Nat
      /\ Len(stack) >= rbp + max_offset[Running.fn]
    BY RunningIs
<1>3. AtPoint(stack, Running, n, pc, goal) /\ AtBody(Running) /\ InTurn(Running)
    BY <1>1 DEF IInv, Shape, AtPoint
<1>4. /\ call = Turn(Running) /\ Turn(Running).fn \in Calls[Running.fn]
      /\ Turn(Running).args \in Seq(Value) /\ Turn(Running).fn \in Functions
    BY <1>1, <1>2, <1>3, TurnIs DEF call
<1>5. Outer[goal'] \in Enclosing[Running.fn] /\ goal' \in Functions /\ goal' = Turn(Running).fn
    BY <1>1, <1>2, <1>4, Called
<1>6. hops' \in Nat /\ Traverses(acts, Outer[goal'], rax', hops')
    BY <1>1, <1>5, SeekFinds
<1>7. Running.count \in Nat /\ Top(Running) \in Nat /\ Rest(Running) \in 0..4
    BY <1>2, Sizes
<1>8. reg \in [Registers -> Value] /\ Least(P, 4) \in 0..4
    <2>1. reg \in [Registers -> Value]
        BY DEF IInv, Typed
    <2>2. Least(P, 4) \in 0..4
        BY <1>2, SMTT(30) DEF Least
    <2> QED BY <2>1, <2>2
<1>9. /\ Saved(Running.count, Least(P, 4)) \in Seq(Value)
      /\ Len(Saved(Running.count, Least(P, 4))) = Rest(Running)
    BY <1>2, <1>7, <1>8, SavedIs DEF Rest, InRegisters
<1>10. Pushes(stack', stack, Saved(Running.count, Least(P, 4)))
    BY <1>1, <1>2, <1>9, PushesIs
<1>11. stack' \in Seq(Value) /\ SameAddresses(stack, stack', rbp)
    BY <1>2, <1>10, PushesBelow, SMTT(30) DEF Pushes
<1>12. AtPoint(stack', Running, n, pc', goal')
    <2>1. Len(stack) = Top(Running) + 0
        BY <1>1, <1>3 DEF AtPoint
    <2>2. Len(stack') = Top(Running) + Rest(Running)
        BY <1>7, <1>9, <1>10, <2>1 DEF Pushes
    <2>3. AtCall(Running, goal')
        BY <1>1, <1>3, <1>4, <1>5 DEF AtCall, AtBody
    <2> QED BY <1>1, <1>3, <2>2, <2>3 DEF AtPoint
<1>13. Target(pc', goal') = Outer[goal']
    BY <1>1 DEF Target
<1> QED BY <1>1, <1>5, <1>6, <1>8, <1>11, <1>12, <1>13, StillIInv

LEMMA HopIInv == ASSUME IInv, Hop PROVE IInv'
<1>1. /\ pc \in {"call", "find"} /\ hops > 0 /\ rax' = Link(rax) /\ hops' = hops - 1
      /\ stack' = stack /\ reg' = reg /\ rbp' = rbp /\ acts' = acts /\ pc' = pc /\ goal' = goal
    BY DEF Hop
<1>2. hops # 0 /\ Traverses(acts, Target(pc, goal), rax, hops)
    BY <1>1 DEF IInv, Typed, Shape, Walking
<1>3. hops' \in Nat /\ Traverses(acts, Target(pc, goal), rax', hops')
    BY <1>1, <1>2, HopFinds
<1>4. /\ stack' \in Seq(Value) /\ reg' \in [Registers -> Value] /\ goal' \in Functions
      /\ AtPoint(stack', Running, n, pc', goal')
    BY <1>1 DEF IInv, Typed, Shape
<1> QED BY <1>1, <1>3, <1>4, SameStack, StillIInv

\* A captured variable belongs to a function around the one that reads it.
LEMMA Captured ==
    ASSUME NEW f \in Functions, NEW c \in Captures[f]
    PROVE  /\ c[1] \in Enclosing[f] /\ c[1] \in Functions /\ c[2] \in {"var", "param"}
           /\ c[2] = "param" => c[1] # f
           /\ c[3] \in DOMAIN Numbered(c[1], c[2])
    BY ProgramAssumption, DepthAssumption DEF Kinds

LEMMA FindIInv ==
    ASSUME IInv, NEW c \in Captures[Running.fn], Find(c[1], c[2], c[3]) PROVE IInv'
<1>1. /\ pc = "body" /\ Seek(c[1]) /\ pc' = "find" /\ goal' = c[1]
      /\ stack' = stack /\ reg' = reg /\ rbp' = rbp /\ acts' = acts
    BY DEF Find
<1>2. Running.fn \in Functions
    BY RunningIs
<1>3. c[1] \in Enclosing[Running.fn] /\ c[1] \in Functions
    BY <1>2, Captured
<1>4. hops' \in Nat /\ Traverses(acts, c[1], rax', hops')
    BY <1>1, <1>3, SeekFinds
<1>5. AtPoint(stack', Running, n, pc', goal')
    BY <1>1 DEF IInv, Shape, AtPoint
<1>6. Target(pc', goal') = c[1]
    BY <1>1 DEF Target
<1>7. stack' \in Seq(Value) /\ reg' \in [Registers -> Value]
    BY <1>1 DEF IInv, Typed
<1> QED BY <1>1, <1>3, <1>4, <1>5, <1>6, <1>7, SameStack, StillIInv

LEMMA FoundIInv == ASSUME IInv, Found PROVE IInv'
<1>1. /\ pc = "find" /\ pc' = "body" /\ goal' = Module /\ rax' = 0 /\ hops' = 0
      /\ stack' = stack /\ reg' = reg /\ rbp' = rbp /\ acts' = acts
    BY DEF Found, Idle
<1>2. AtPoint(stack', Running, n, pc', goal')
    BY <1>1 DEF IInv, Shape, AtPoint
<1>3. stack' \in Seq(Value) /\ reg' \in [Registers -> Value] /\ goal' \in Functions
    BY <1>1, ModuleAssumption DEF IInv, Typed
<1> QED BY <1>1, <1>2, <1>3, SameStack, StillIInv

(***************************************************************************)
(* The pops after a call.                                                  *)
(***************************************************************************)

\* w is the first l words of u.
Prefix(w, u, l) ==
    w \in Seq(Value) /\ l <= Len(u) /\ Len(w) = l /\ \A i \in 1..l : w[i] = u[i]

LEMMA PrefixIs ==
    ASSUME NEW u \in Seq(Value), NEW l \in Nat, l <= Len(u)
    PROVE  Prefix(SubSeq(u, 1, l), u, l)
    BY DEF Prefix

\* What one of them does to the activation, the stack and the registers.
PopIs(k, b) ==
    /\ pc = "pop" /\ k = Running.count /\ k \in Nat /\ k >= 1
    /\ InTurn(Running) /\ AtPop(Running)
    /\ Replaced(acts', acts, n, b) /\ SamePlace(Running, b)
    /\ b.holds = Running.holds /\ b.declared = Running.declared
    /\ b.count = IF k > 4 THEN 4 ELSE k - 1
    /\ k <= 4 => P = 0 \/ k <= P
    /\ Len(stack) = Top(Running)
    /\ Prefix(stack', stack, Top(b)) /\ Top(b) >= rbp + max_offset[Running.fn]
    /\ reg' = IF k <= 4 /\ P # 0 THEN [reg EXCEPT ![ParamReg(k - 1)] = stack[Len(stack)]]
              ELSE reg
    /\ k <= 4 /\ P # 0 => stack[Len(stack)] \in Value
    /\ InTurn(b)
    /\ IF pc' = "body" THEN AtBody(b) ELSE pc' = "pop" /\ AtPop(b)
    /\ b.calls # <<>> => Turn(b).args = <<>>

LEMMA PopDoes ==
    ASSUME Balanced, IInv, PopParam
    PROVE  \E k, b : PopIs(k, b)
<1> DEFINE k == Running.count
           g == Turn(Running).fn
           r == [Turn(Running) EXCEPT !.pops = @ - 1]
           d == [Running.calls EXCEPT ![Len(Running.calls)] = r]
           e == IF Turn(Running).pops = 1 THEN Front(d) ELSE d
           c == IF k > 4 THEN 4 ELSE k - 1
           b == [Running EXCEPT !.count = c, !.calls = e]
<1>1. /\ n \in 1..n /\ n \in 1..MaxActive /\ Len(acts) = n /\ acts \in Seq(Activation)
      /\ Running \in Activation /\ Running.fn \in Functions /\ Running = acts[n]
      /\ P \in Nat /\ P = Params[Running.fn] /\ stack \in Seq(Value) /\ Len(stack) \in Nat
      /\ rbp = Running.fp /\ rbp \in Nat /\ max_offset[Running.fn] \in Nat
    BY RunningIs
<1>2. pc = "pop"
    BY DEF PopParam
<1>3. AtPoint(stack, Running, n, pc, goal) /\ AtPop(Running) /\ InTurn(Running)
    BY <1>2 DEF IInv, Shape, AtPoint
<1>4. /\ Running.calls \in Seq(CallRecord) /\ Len(Running.calls) \in 1..Len(Running.calls)
      /\ Running.calls # <<>>
      /\ Turn(Running) \in CallRecord /\ g \in Calls[Running.fn]
      /\ call = Turn(Running) /\ Params[g] \in Nat
      /\ Turn(Running) = Running.calls[Len(Running.calls)] /\ Turn(Running).pops \in Nat
    BY <1>1, <1>3, TurnIs DEF call, AtPop
<1>5. /\ k \in Nat /\ k >= 1 /\ Turn(Running).args = <<>>
      /\ Turn(Running).pops = (IF k > 4 THEN 5 ELSE k)
      /\ k <= Params[g] /\ (k > 4 => k = Params[g])
    <2>1. k \in Nat
        BY <1>1, Sizes
    <2>2. /\ Turn(Running).args = <<>> /\ k > 0 /\ k <= Params[g]
          /\ Turn(Running).pops = Least(k, 4) + (IF k > 4 THEN 1 ELSE 0)
          /\ k > 4 => k = Params[g]
        BY <1>3 DEF AtPop
    <2> HIDE DEF k
    <2> QED BY <2>1, <2>2 DEF Least
<1>6. /\ r \in CallRecord /\ r.fn = g /\ r.args = <<>> /\ r.pops = Turn(Running).pops - 1
    <2>1. PICK q \in CallRecord : q = Turn(Running)
        BY <1>4
    <2>2. q.pops - 1 \in Nat
        BY <1>5, <2>1
    <2>3. r = [q EXCEPT !.pops = @ - 1]
        BY <2>1
    <2> HIDE DEF r
    <2>4. r \in CallRecord /\ r.fn = q.fn /\ r.args = q.args /\ r.pops = q.pops - 1
        BY <2>2, <2>3 DEF CallRecord
    <2> QED BY <1>5, <2>1, <2>4
<1>7. LastIs(d, Running.calls, r)
    <2> HIDE DEF r
    <2> QED BY <1>4, <1>6, LastIsIs
<1>8. /\ e \in Seq(CallRecord)
      /\ Turn(Running).pops = 1 => /\ Len(e) = Len(Running.calls) - 1
                                   /\ \A i \in 1..Len(e) : e[i] = Running.calls[i]
      /\ Turn(Running).pops # 1 => LastIs(e, Running.calls, r)
    <2> HIDE DEF d, r
    <2>1. CASE Turn(Running).pops = 1
        <3>1. e = SubSeq(d, 1, Len(d) - 1)
            BY <2>1 DEF Front
        <3>2. /\ d \in Seq(CallRecord) /\ Len(d) = Len(Running.calls) /\ Len(d) \in Nat /\ Len(d) >= 1
              /\ \A i \in 1..Len(Running.calls) : i # Len(Running.calls) => d[i] = Running.calls[i]
            BY <1>4, <1>7 DEF LastIs
        <3> HIDE DEF e
        <3>3. e \in Seq(CallRecord) /\ Len(e) = Len(d) - 1 /\ \A i \in 1..Len(e) : e[i] = d[i]
            BY <3>1, <3>2
        <3>4. \A i \in 1..Len(e) : i \in 1..Len(Running.calls) /\ i # Len(Running.calls)
            BY <3>2, <3>3
        <3> QED BY <2>1, <3>2, <3>3, <3>4
    <2>2. CASE Turn(Running).pops # 1
        BY <2>2, <1>7 DEF LastIs
    <2> QED BY <2>1, <2>2
<1>9. c \in Nat
    BY <1>5
<1>10. acts' = [acts EXCEPT ![n] = b]
    <2> DEFINE u == [acts EXCEPT ![n].count = IF k > 4 THEN 4 ELSE k - 1,
                                 ![n].calls[Len(Running.calls)].pops = @ - 1]
               x == [Running EXCEPT !.count = c, !.calls = d]
    <2>1. acts' = IF call.pops = 1 THEN EndCall(u) ELSE u
        BY DEF PopParam
    <2>2. u = [acts EXCEPT ![n] = x]
        BY <1>1, <1>4, ZenonT(40)
    <2>3. x.calls = d
        BY <1>1 DEF Activation
    <2>4. Len(u) = n /\ u[n] = x
        <3> HIDE DEF x
        <3> QED BY <1>1, <2>2
    <2>5. EndCall(u) = [u EXCEPT ![n] = [x EXCEPT !.calls = Front(d)]]
        <3> HIDE DEF x, u, d
        <3> QED BY <2>3, <2>4 DEF EndCall
    <2>6. [x EXCEPT !.calls = Front(d)] = [Running EXCEPT !.count = c, !.calls = Front(d)]
        <3> HIDE DEF d, c
        <3> QED BY <1>1 DEF Activation
    <2>7. CASE Turn(Running).pops = 1
        <3>1. b = [x EXCEPT !.calls = Front(d)]
            BY <2>6, <2>7
        <3>2. acts' = [u EXCEPT ![n] = b]
            BY <1>4, <2>1, <2>5, <2>7, <3>1
        <3> HIDE DEF b, x, u
        <3> QED BY <1>1, <2>2, <3>2
    <2>8. CASE Turn(Running).pops # 1
        <3>1. b = x
            BY <2>8
        <3> QED BY <1>4, <2>1, <2>2, <2>8, <3>1
    <2> QED BY <2>7, <2>8
<1>11. /\ b \in Activation /\ b.fn = Running.fn /\ b.env = Running.env /\ b.fp = Running.fp
       /\ b.count = c /\ b.holds = Running.holds /\ b.declared = Running.declared
       /\ b.calls = e
    <2>1. PICK x \in Nat : x = c
        BY <1>9
    <2>2. b = [Running EXCEPT !.count = x, !.calls = e]
        BY <2>1
    <2> HIDE DEF b, c, e
    <2> QED BY <1>1, <1>8, <2>1, <2>2 DEF Activation
<1>12. /\ stack' = IF k > 4 THEN Unwound(Len(stack) - (Params[g] - 4))
                   ELSE IF Restores(k) THEN Unwound(Len(stack) - 1) ELSE stack
       /\ reg' = IF k <= 4 /\ Restores(k)
                   THEN [reg EXCEPT ![ParamReg(k - 1)] = Read(Len(stack))] ELSE reg
       /\ pc' = IF Turn(Running).pops = 1 THEN "body" ELSE "pop"
    BY <1>4 DEF PopParam
<1>13. k <= 4 => /\ P = 0 \/ k <= P
                 /\ Restores(k) <=> P # 0
    <2>1. P = 0 \/ Least(Params[g], 4) <= P
        BY <1>1, <1>4 DEF Balanced
    <2> QED BY <1>1, <1>4, <1>5, <2>1 DEF Least, Restores
<1> HIDE DEF b, e, d, r
<1>14. Replaced(acts', acts, n, b) /\ SamePlace(Running, b)
    BY <1>1, <1>10, <1>11, ReplacedIs DEF SamePlace
<1>15. Len(stack) = Top(Running)
    <2>1. Len(stack) = Top(Running) + 0
        BY <1>2, <1>3 DEF AtPoint
    <2>2. Top(Running) \in Nat
        BY <1>1, Sizes
    <2> QED BY <2>1, <2>2
<1>16. /\ Top(b) = IF k > 4 THEN Len(stack) - (Params[g] - 4)
                   ELSE IF P # 0 THEN Len(stack) - 1 ELSE Len(stack)
       /\ Top(b) \in Nat /\ Top(b) >= rbp + max_offset[Running.fn] /\ Top(b) <= Len(stack)
    <2>1. /\ Top(Running) = rbp + max_offset[Running.fn] + Words(Running)
          /\ Top(b) = rbp + max_offset[Running.fn] + Words(b)
          /\ Words(Running) = (IF P = 0 THEN 0 ELSE Least(k, 4)) + (k - Least(k, 4))
          /\ Words(b) = (IF P = 0 THEN 0 ELSE Least(c, 4)) + (c - Least(c, 4))
        BY <1>1, <1>11 DEF Top, Words, Displaced
    <2>2. c = IF k > 4 THEN 4 ELSE k - 1
        OBVIOUS
    <2> HIDE DEF k, c
    <2>3. /\ Words(b) \in Nat
          /\ Words(Running) = IF k > 4 THEN Words(b) + (k - 4)
                              ELSE IF P # 0 THEN Words(b) + 1 ELSE Words(b)
        <3>1. k \in Nat /\ k >= 1 /\ P \in Nat /\ c \in Nat
            BY <1>1, <1>5, <1>9
        <3>2. PICK w : w = Words(Running)
            OBVIOUS
        <3>3. PICK u : u = Words(b)
            OBVIOUS
        <3>4. PICK p \in Nat : p = P
            BY <3>1
        <3>5. w = (IF p = 0 THEN 0 ELSE Least(k, 4)) + (k - Least(k, 4))
            BY <2>1, <3>2, <3>4
        <3>6. u = (IF p = 0 THEN 0 ELSE Least(c, 4)) + (c - Least(c, 4))
            BY <2>1, <3>3, <3>4
        <3>7. u \in Nat /\ w = IF k > 4 THEN u + (k - 4) ELSE IF p # 0 THEN u + 1 ELSE u
            BY <3>1, <2>2, <3>5, <3>6 DEF Least
        <3> QED BY <3>2, <3>3, <3>4, <3>7
    <2>4. Len(stack) = rbp + max_offset[Running.fn] + Words(Running)
        BY <1>15, <2>1
    <2>5. k > 4 => k - 4 = Params[g] - 4 /\ k - 4 \in Nat
        BY <1>5
    <2>6. PICK o \in Nat : o = rbp + max_offset[Running.fn]
        BY <1>1
    <2>7. PICK w \in Nat : w = Words(b)
        BY <2>3
    <2>8. k \in Nat /\ k >= 1 /\ Top(b) = o + w
        BY <1>5, <2>1, <2>6, <2>7
    <2>9. Len(stack) = o + (IF k > 4 THEN w + (k - 4) ELSE IF P # 0 THEN w + 1 ELSE w)
        BY <2>3, <2>4, <2>6, <2>7
    <2>10. /\ Top(b) = IF k > 4 THEN Len(stack) - (k - 4)
                       ELSE IF P # 0 THEN Len(stack) - 1 ELSE Len(stack)
           /\ Top(b) \in Nat /\ Top(b) >= o /\ Top(b) <= Len(stack)
        BY <2>8, <2>9
    <2> QED BY <2>5, <2>6, <2>10
<1>17. Prefix(stack', stack, Top(b))
    <2>1. stack' = SubSeq(stack, 1, Top(b))
        <3>1. CASE k > 4
            BY <1>12, <1>16, <3>1 DEF Unwound
        <3>2. CASE k <= 4 /\ P # 0
            BY <1>5, <1>12, <1>13, <1>16, <3>2 DEF Unwound
        <3>3. CASE k <= 4 /\ P = 0
            <4>1. stack' = stack /\ Top(b) = Len(stack)
                BY <1>5, <1>12, <1>13, <1>16, <3>3
            <4> QED BY <1>1, <4>1
        <3> QED BY <1>5, <3>1, <3>2, <3>3
    <2> QED BY <1>1, <1>16, <2>1, PrefixIs
<1>18. /\ reg' = IF k <= 4 /\ P # 0 THEN [reg EXCEPT ![ParamReg(k - 1)] = stack[Len(stack)]] ELSE reg
       /\ k <= 4 /\ P # 0 => stack[Len(stack)] \in Value
    <2>1. k <= 4 /\ P # 0 => Len(stack) >= 1
        BY <1>1, <1>5, <1>16
    <2>2. k <= 4 /\ P # 0 => Read(Len(stack)) = stack[Len(stack)] /\ stack[Len(stack)] \in Value
        BY <1>1, <2>1 DEF Read
    <2> QED BY <1>5, <1>12, <1>13, <2>2
<1>19. \A i \in 1..Len(Running.calls) :
         /\ Running.calls[i].fn \in Calls[b.fn]
         /\ i < Len(Running.calls) => Running.calls[i].args = <<>> /\ Running.calls[i].pops = 0
    BY <1>3, <1>11 DEF InTurn
<1>20. CASE Turn(Running).pops = 1
    <2>1. k = 1 /\ c = 0 /\ pc' = "body"
        BY <1>5, <1>12, <1>20
    <2>2. Len(e) = Len(Running.calls) - 1 /\ \A i \in 1..Len(e) : e[i] = Running.calls[i]
        BY <1>8, <1>20
    <2>3. \A i \in 1..Len(e) : /\ e[i].fn \in Calls[b.fn]
                               /\ e[i].args = <<>> /\ e[i].pops = 0
        <3> TAKE i \in 1..Len(e)
        <3>1. i \in 1..Len(Running.calls) /\ i < Len(Running.calls)
            BY <1>4, <2>2
        <3> QED BY <1>19, <2>2, <3>1
    <2>4. InTurn(b)
        BY <1>11, <2>3 DEF InTurn
    <2>5. e # <<>> => Len(e) \in 1..Len(e) /\ e[Len(e)] \in CallRecord
        BY <1>8
    <2>6. e # <<>> => Turn(b).args = <<>> /\ Turn(b).pops = 0 /\ Params[Turn(b).fn] \in Nat
        <3> SUFFICES ASSUME e # <<>>
                     PROVE Turn(b).args = <<>> /\ Turn(b).pops = 0 /\ Params[Turn(b).fn] \in Nat
            OBVIOUS
        <3>1. Turn(b) = e[Len(e)] /\ Turn(b).fn \in Functions
            BY <1>11, <2>5 DEF Turn, CallRecord
        <3> QED BY <2>3, <2>5, <3>1, ProgramAssumption
    <2>7. AtBody(b)
        BY <1>11, <2>1, <2>6 DEF AtBody
    <2>8. PopIs(k, b)
        BY <1>2, <1>3, <1>5, <1>11, <1>13, <1>14, <1>15, <1>16, <1>17, <1>18,
           <2>1, <2>4, <2>6, <2>7 DEF PopIs
    <2> QED BY <2>8
<1>21. CASE Turn(Running).pops # 1
    <2>1. pc' = "pop"
        BY <1>12, <1>21
    <2>2. LastIs(e, Running.calls, r)
        BY <1>8, <1>21
    <2>3. Turn(b) = r /\ b.calls # <<>>
        BY <1>11, <2>2 DEF Turn, LastIs
    <2>4. InTurn(b)
        <3> SUFFICES ASSUME NEW i \in 1..Len(e)
                     PROVE  /\ e[i].fn \in Calls[b.fn]
                            /\ i < Len(e) => e[i].args = <<>> /\ e[i].pops = 0
            BY <1>11 DEF InTurn
        <3>1. CASE i = Len(e)
            BY <1>4, <1>6, <1>11, <2>2, <3>1 DEF LastIs
        <3>2. CASE i # Len(e)
            BY <1>19, <2>2, <3>2 DEF LastIs
        <3> QED BY <3>1, <3>2
    <2>5. AtPop(b)
        <3>1. c > 0 /\ r.pops = Least(c, 4) + (IF c > 4 THEN 1 ELSE 0) /\ c <= Params[g] /\ ~ (c > 4)
            BY <1>4, <1>5, <1>6, <1>21 DEF Least
        <3> QED BY <1>6, <1>11, <2>3, <3>1 DEF AtPop
    <2>6. PopIs(k, b)
        BY <1>2, <1>3, <1>5, <1>6, <1>11, <1>13, <1>14, <1>15, <1>16, <1>17, <1>18,
           <2>1, <2>3, <2>4, <2>5 DEF PopIs
    <2> QED BY <2>6
<1> QED BY <1>20, <1>21

LEMMA PopParamIInv == ASSUME Balanced, IInv, PopParam PROVE IInv'
<1>1. PICK k, b : PopIs(k, b)
    BY PopDoes
<1>2. rbp' = rbp /\ goal' = goal /\ rax' = rax /\ hops' = hops /\ pc = "pop"
    BY DEF PopParam
<1>3. /\ Running \in Activation /\ Running.fn \in Functions /\ Running = acts[n]
      /\ rbp \in Nat /\ Len(stack) \in Nat /\ stack \in Seq(Value)
      /\ max_offset[Running.fn] \in Nat /\ P \in Nat
    BY RunningIs
<1>4. SamePlace(Running, b) /\ Replaced(acts', acts, n, b)
    BY <1>1 DEF PopIs
<1>5. b.holds \subseteq Written[b.fn] /\ b.declared \subseteq Variables(b.fn)
    <2>1. Running.holds \subseteq Written[Running.fn] /\ Running.declared \subseteq Variables(Running.fn)
        BY <1>3, RunningIs DEF IInv, Typed
    <2> QED BY <2>1, <1>1 DEF PopIs, SamePlace
<1>6. /\ stack' \in Seq(Value) /\ Len(stack') = Top(b)
      /\ Top(b) >= rbp + max_offset[Running.fn] /\ \A i \in 1..Top(b) : stack'[i] = stack[i]
    BY <1>1 DEF PopIs, Prefix
<1>7. b \in Activation /\ Top(b) \in Nat
    BY <1>4, Sizes DEF SamePlace
<1>8. SameAddresses(stack, stack', rbp)
    <2>1. \A i \in 1..rbp : i \in 1..Top(b)
        BY <1>3, <1>6, <1>7
    <2> QED BY <1>6, <2>1 DEF SameAddresses
<1>9. reg' \in [Registers -> Value]
    <2>1. reg \in [Registers -> Value]
        BY DEF IInv, Typed
    <2>2. CASE k <= 4 /\ P # 0
        <3>1. reg' = [reg EXCEPT ![ParamReg(k - 1)] = stack[Len(stack)]] /\ stack[Len(stack)] \in Value
            BY <1>1, <2>2 DEF PopIs
        <3> QED BY <2>1, <3>1
    <2>3. CASE ~ (k <= 4 /\ P # 0)
        BY <1>1, <2>1, <2>3 DEF PopIs
    <2> QED BY <2>2, <2>3
<1>10. AtPoint(stack', b, n, pc', goal')
    <2>1. InTurn(b) /\ (IF pc' = "body" THEN AtBody(b) ELSE pc' = "pop" /\ AtPop(b))
        BY <1>1 DEF PopIs
    <2>2. n < MaxActive
        <3>1. AtPoint(stack, Running, n, pc, goal) /\ AtPop(Running)
            BY <1>2 DEF IInv, Shape, AtPoint
        <3> QED BY <3>1 DEF AtPoint, AtPop
    <2> QED BY <1>6, <1>7, <2>1, <2>2 DEF AtPoint
<1>11. pc' \in {"body", "pop"} /\ goal' \in Functions /\ hops' \in Nat /\ rax' = 0
    BY <1>1, <1>2 DEF IInv, Typed, Shape, Walking, PopIs
<1> QED BY <1>2, <1>4, <1>5, <1>6, <1>8, <1>9, <1>10, <1>11, LocalIInv

(***************************************************************************)
(* Entering the function called.                                           *)
(***************************************************************************)

\* What it does: g is the function, w the caller as it then waits and b the
\* new activation.
EnterIs(g, w, b, q) ==
    /\ pc = "call" /\ pc' = "body" /\ g \in Calls[Running.fn] /\ g = Turn(Running).fn
    /\ InTurn(Running) /\ AtCall(Running, g) /\ n < MaxActive
    /\ Len(stack) = Top(Running) + Rest(Running)
    /\ stack' \in Seq(Value) /\ Len(stack') = Len(stack) + 3 + max_offset[g]
    /\ \A i \in 1..Len(stack) :
         stack'[i] = IF i \in Len(stack) - (Params[g] - 5)..Len(stack)
                       THEN Received(stack[i], 5 + (Len(stack) - i)) ELSE stack[i]
    /\ stack'[Len(stack) + 1] = <<"fp", acts[Running.env[Outer[g]]].fp>>
    /\ stack'[Len(stack) + 2] = <<"return", n>>
    /\ stack'[Len(stack) + 3] = <<"fp", rbp>>
    /\ \A i \in 1..max_offset[g] :
         stack'[Len(stack) + 3 + i] = IF i <= regs_used[g] THEN reg[regs_used[g] + 1 - i] ELSE Junk
    /\ reg' \in [Registers -> Value]
    /\ reg' = [c \in Registers |->
                 IF \E k \in 1..Params[g] : c = ParamReg(k - 1) /\ k <= 4
                   THEN Received(reg[c], c - MAX_REG - 1) ELSE reg[c]]
    /\ acts' \in Seq(Activation) /\ Len(acts') = n + 1 /\ acts'[n] = w /\ acts'[n + 1] = b
    /\ \A i \in 1..n : i # n => acts'[i] = acts[i]
    /\ SamePlace(Running, w) /\ w.count = Running.count /\ w.declared = Running.declared
    /\ w.holds = Running.holds \cap Live[Running.fn] /\ LastIs(w.calls, Running.calls, q)
    /\ q.fn = g /\ q.args = <<>> /\ q.pops = 0
    /\ b \in Activation /\ b.fn = g /\ b.fp = Len(stack) + 3
    /\ b.env = [h \in Functions |-> IF h = g THEN n + 1
                                    ELSE IF h \in Enclosing[g] THEN Running.env[h] ELSE 0]
    /\ b.holds = {} /\ b.declared = {} /\ b.count = 0 /\ b.calls = <<>>

LEMMA ReceivedIs ==
    ASSUME n + 1 \in 1..MaxActive, NEW v, NEW k \in Nat PROVE Received(v, k) \in Value
    BY Values DEF Received

LEMMA SeqTyped ==
    ASSUME NEW S, NEW k \in Nat, NEW f \in [1..k -> S] PROVE f \in Seq(S) /\ Len(f) = k
<1>1. f \in Seq(S)
    BY SeqDef, Zenon
<1>2. DOMAIN f = 1..k
    BY Zenon
<1> QED BY <1>1, <1>2

LEMMA EnterDoes ==
    ASSUME IInv, Enter
    PROVE  \E g, w, b, q : EnterIs(g, w, b, q)
<1> DEFINE g     == Turn(Running).fn
           q     == [Turn(Running) EXCEPT !.args = <<>>]
           d     == [Running.calls EXCEPT ![Len(Running.calls)] = q]
           l     == Running.holds \cap Live[Running.fn]
           w     == [Running EXCEPT !.holds = l, !.calls = d]
           env   == [h \in Functions |-> IF h = g THEN n + 1
                                         ELSE IF h \in Enclosing[g] THEN Running.env[h] ELSE 0]
           b     == NewActivation(g, Len(stack) + 3, env)
           L     == Len(stack)
           rest  == [i \in 1..L |-> IF i \in L - (Params[g] - 5)..L
                                      THEN Received(stack[i], 5 + (L - i)) ELSE stack[i]]
           three == << <<"fp", rax>>, <<"return", n>>, <<"fp", rbp>> >>
           frame == [i \in 1..max_offset[g] |->
                       IF i <= regs_used[g] THEN reg[regs_used[g] + 1 - i] ELSE Junk]
<1>1. /\ n \in 1..n /\ n \in 1..MaxActive /\ Len(acts) = n /\ acts \in Seq(Activation) /\ n \in Nat
      /\ Running \in Activation /\ Running.fn \in Functions /\ Running = acts[n]
      /\ rbp = Running.fp /\ rbp \in Nat /\ MaxActive \in Nat
      /\ stack \in Seq(Value) /\ L \in Nat
    BY RunningIs
<1>2. pc = "call" /\ pc' = "body" /\ hops = 0
    BY DEF Enter
<1>3. AtPoint(stack, Running, n, pc, goal) /\ AtCall(Running, goal) /\ InTurn(Running)
      /\ Traverses(acts, Target(pc, goal), rax, hops)
    BY <1>2 DEF IInv, Shape, AtPoint, Walking
<1>4. Running.calls # <<>> /\ g = goal /\ n < MaxActive
    BY <1>3 DEF AtPoint, AtCall
<1>5. /\ Running.calls \in Seq(CallRecord) /\ Len(Running.calls) \in 1..Len(Running.calls)
      /\ Turn(Running) \in CallRecord /\ g \in Calls[Running.fn] /\ Params[g] \in Nat
      /\ call = Turn(Running) /\ g \in Functions
      /\ Turn(Running) = Running.calls[Len(Running.calls)]
    BY <1>1, <1>3, <1>4, TurnIs DEF call
<1>6. L = Top(Running) + Rest(Running)
    BY <1>2, <1>3 DEF AtPoint
<1>7. rax = acts[Running.env[Outer[g]]].fp /\ rax \in Nat
    <2>1. Traverses(acts, Outer[g], rax, 0)
        BY <1>2, <1>3, <1>4 DEF Target
    <2>2. rax = acts[Running.env[Outer[g]]].fp /\ Running.env[Outer[g]] \in 1..n
        BY <2>1, Arrived
    <2>3. acts[Running.env[Outer[g]]] \in Activation
        BY <1>1, <2>2
    <2> QED BY <2>2, <2>3 DEF Activation
<1>8. n + 1 \in 1..MaxActive /\ n + 1 \in Nat
    BY <1>1, <1>4
<1>9. /\ max_offset[g] \in Nat /\ regs_used[g] \in 0..MAX_REG /\ max_offset[g] >= regs_used[g]
    <2>1. LaidOut(g)
        BY <1>5, Layout
    <2>2. MAX_REG \in Nat
        BY SegmentAssumption
    <2> QED BY <2>1, <2>2 DEF LaidOut
<1>10. rest \in Seq(Value) /\ Len(rest) = L
    <2>1. \A i \in 1..L : rest[i] \in Value
        <3> TAKE i \in 1..L
        <3>1. 5 + (L - i) \in Nat
            BY <1>1
        <3>2. Received(stack[i], 5 + (L - i)) \in Value
            BY <1>8, <3>1, ReceivedIs
        <3> QED BY <1>1, <3>2
    <2> QED BY <1>1, <2>1
<1>11. three \in Seq(Value) /\ Len(three) = 3 /\ three[1] = <<"fp", rax>>
       /\ three[2] = <<"return", n>> /\ three[3] = <<"fp", rbp>>
    <2>1. <<"fp", rax>> \in Value /\ <<"return", n>> \in Value /\ <<"fp", rbp>> \in Value
        BY <1>1, <1>7, Values
    <2> QED BY <2>1
<1>12. frame \in Seq(Value) /\ Len(frame) = max_offset[g]
    <2>1. \A i \in 1..max_offset[g] : frame[i] \in Value
        <3> TAKE i \in 1..max_offset[g]
        <3>1. i <= regs_used[g] => regs_used[g] + 1 - i \in 1..MAX_REG
            <4>1. MAX_REG \in Nat
                BY SegmentAssumption
            <4> QED BY <1>9, <4>1
        <3>2. i <= regs_used[g] => reg[regs_used[g] + 1 - i] \in Value
            BY <3>1, ParamRegs4 DEF IInv, Typed
        <3> QED BY <3>2, Values
    <2>2. frame = [i \in 1..max_offset[g] |-> frame[i]]
        OBVIOUS
    <2>3. PICK k \in Nat : k = max_offset[g]
        BY <1>9
    <2>4. PICK f : f = frame
        OBVIOUS
    <2> HIDE DEF frame
    <2>5. f = [i \in 1..k |-> f[i]] /\ \A i \in 1..k : f[i] \in Value
        BY <2>1, <2>2, <2>3, <2>4
    <2>7. f \in [1..k -> Value]
        BY <2>5, Zenon
    <2>6. f \in Seq(Value) /\ Len(f) = k
        BY <2>3, <2>7, SeqTyped
    <2> QED BY <2>3, <2>4, <2>6
<1>13. stack' = rest \o three \o frame
    BY <1>5 DEF Enter
<1>14. /\ stack' \in Seq(Value) /\ Len(stack') = L + 3 + max_offset[g]
       /\ \A i \in 1..L : stack'[i] = rest[i]
       /\ stack'[L + 1] = three[1] /\ stack'[L + 2] = three[2] /\ stack'[L + 3] = three[3]
       /\ \A i \in 1..max_offset[g] : stack'[L + 3 + i] = frame[i]
    <2> HIDE DEF rest, three, frame, L
    <2>1. PICK m : m = rest \o three
        OBVIOUS
    <2>2. Pushes(m, rest, three)
        BY <1>10, <1>11, <2>1, PushesIs
    <2>3. /\ m \in Seq(Value) /\ Len(m) = L + 3
          /\ \A i \in 1..L : m[i] = rest[i]
          /\ m[L + 1] = three[1] /\ m[L + 2] = three[2] /\ m[L + 3] = three[3]
        BY <1>10, <1>11, <2>2 DEF Pushes
    <2>4. Pushes(stack', m, frame)
        BY <1>12, <1>13, <2>1, <2>3, PushesIs
    <2>5. /\ stack' \in Seq(Value) /\ Len(stack') = L + 3 + max_offset[g]
          /\ \A i \in 1..(L + 3) : stack'[i] = m[i]
          /\ \A i \in 1..max_offset[g] : stack'[L + 3 + i] = frame[i]
        BY <1>12, <2>3, <2>4 DEF Pushes
    <2>6. L \in Nat /\ L + 1 \in 1..(L + 3) /\ L + 2 \in 1..(L + 3) /\ L + 3 \in 1..(L + 3)
          /\ \A i \in 1..L : i \in 1..(L + 3)
        BY <1>1
    <2>7. \A i \in 1..L : stack'[i] = rest[i]
        BY <2>3, <2>5, <2>6
    <2>8. stack'[L + 1] = three[1] /\ stack'[L + 2] = three[2] /\ stack'[L + 3] = three[3]
        <3>1. stack'[L + 1] = m[L + 1]
            BY <2>5, <2>6
        <3>2. stack'[L + 2] = m[L + 2]
            BY <2>5, <2>6
        <3>3. stack'[L + 3] = m[L + 3]
            BY <2>5, <2>6
        <3>4. m[L + 1] = three[1] /\ m[L + 2] = three[2] /\ m[L + 3] = three[3]
            BY <2>3, Zenon
        <3> QED BY <3>1, <3>2, <3>3, <3>4, Zenon
    <2>9. stack' \in Seq(Value) /\ Len(stack') = L + 3 + max_offset[g]
        BY <2>5
    <2>10. \A i \in 1..max_offset[g] : stack'[L + 3 + i] = frame[i]
        BY <2>5, Zenon
    <2> QED BY <2>7, <2>8, <2>9, <2>10, Zenon
<1>15. /\ reg' \in [Registers -> Value]
       /\ reg' = [c \in Registers |->
                    IF \E k \in 1..Params[g] : c = ParamReg(k - 1) /\ k <= 4
                      THEN Received(reg[c], c - MAX_REG - 1) ELSE reg[c]]
    <2>1. reg' = [c \in Registers |->
                    IF \E k \in 1..Params[g] : c = ParamReg(k - 1) /\ k <= 4
                      THEN Received(reg[c], c - MAX_REG - 1) ELSE reg[c]]
        BY <1>5 DEF Enter
    <2>2. ASSUME NEW c \in Registers, NEW k \in 1..Params[g], c = ParamReg(k - 1)
          PROVE  Received(reg[c], c - MAX_REG - 1) \in Value
        <3>1. c - MAX_REG - 1 = k
            BY <2>2, SegmentAssumption DEF ParamReg
        <3>2. k \in Nat
            BY <1>5
        <3> QED BY <1>8, <3>1, <3>2, ReceivedIs
    <2>3. \A c \in Registers : reg[c] \in Value
        BY DEF IInv, Typed
    <2> QED BY <2>1, <2>2, <2>3
<1>16. q \in CallRecord /\ q.fn = g /\ q.args = <<>> /\ q.pops = 0
    <2>1. PICK r \in CallRecord : r = Turn(Running)
        BY <1>5
    <2>2. r.pops = 0 /\ q = [r EXCEPT !.args = <<>>] /\ r.fn = g
        BY <1>3, <2>1 DEF AtCall
    <2>4. PICK e \in Seq(Value) : e = <<>>
        BY EmptySeq, Zenon
    <2>5. q = [r EXCEPT !.args = e]
        BY <2>2, <2>4
    <2> HIDE DEF q, g
    <2>3. q \in CallRecord /\ q.fn = r.fn /\ q.args = <<>> /\ q.pops = r.pops
        BY <2>1, <2>4, <2>5 DEF CallRecord
    <2> QED BY <2>2, <2>3
<1>17. LastIs(d, Running.calls, q)
    <2> HIDE DEF q
    <2> QED BY <1>4, <1>5, <1>16, LastIsIs
<1>18. l \subseteq Running.holds /\ l \in SUBSET (1..MAX_REG)
    BY <1>1 DEF Activation
<1>19. /\ w \in Activation /\ w.fn = Running.fn /\ w.env = Running.env /\ w.fp = Running.fp
       /\ w.count = Running.count /\ w.holds = l /\ w.declared = Running.declared
       /\ w.calls = d
    <2> HIDE DEF d, l
    <2> QED BY <1>1, <1>17, <1>18 DEF Activation, LastIs
<1>20. /\ b \in Activation /\ b.fn = g /\ b.fp = L + 3 /\ b.env = env
       /\ b.holds = {} /\ b.declared = {} /\ b.count = 0 /\ b.calls = <<>>
    <2>1. env \in [Functions -> Nat]
        <3>1. \A h \in Functions : Running.env[h] \in Nat
            BY <1>1 DEF Activation
        <3> HIDE DEF g
        <3> QED BY <1>8, <3>1
    <2>2. L + 3 \in Nat
        BY <1>1
    <2> HIDE DEF env, g, L
    <2> QED BY <1>5, <2>1, <2>2 DEF NewActivation, Activation, L
<1>21. acts' = Append([acts EXCEPT ![n] = w], b)
    <2>1. acts' = Append([acts EXCEPT ![n].holds = @ \cap Live[Running.fn],
                                      ![n].calls[Len(Running.calls)].args = <<>>], b)
        BY <1>5 DEF Enter
    <2>2. [acts EXCEPT ![n].holds = @ \cap Live[Running.fn],
                       ![n].calls[Len(Running.calls)].args = <<>>] = [acts EXCEPT ![n] = w]
        <3> HIDE DEF b, env, g
        <3> QED BY <1>1, <1>5, ZenonT(40)
    <2> QED BY <2>1, <2>2
<1> HIDE DEF w, b, q, d, l, env, g, rest, three, frame
<1>22. /\ acts' \in Seq(Activation) /\ Len(acts') = n + 1 /\ acts'[n] = w /\ acts'[n + 1] = b
       /\ \A i \in 1..n : i # n => acts'[i] = acts[i]
    <2>1. PICK s : s = [acts EXCEPT ![n] = w]
        OBVIOUS
    <2>2. s \in Seq(Activation) /\ Len(s) = n /\ s[n] = w /\ \A i \in 1..n : i # n => s[i] = acts[i]
        BY <1>1, <1>19, <2>1
    <2>3. acts' = Append(s, b)
        BY <1>21, <2>1
    <2> QED BY <1>1, <1>20, <2>2, <2>3
<1>23. SamePlace(Running, w)
    BY <1>19 DEF SamePlace
<1>24. /\ \A i \in 1..L : stack'[i] = IF i \in L - (Params[g] - 5)..L
                                       THEN Received(stack[i], 5 + (L - i)) ELSE stack[i]
       /\ \A i \in 1..max_offset[g] :
            stack'[L + 3 + i] = IF i <= regs_used[g] THEN reg[regs_used[g] + 1 - i] ELSE Junk
    BY <1>14 DEF rest, frame
<1>25. EnterIs(g, w, b, q)
    <2>1. pc = "call" /\ pc' = "body" /\ g \in Calls[Running.fn] /\ g = Turn(Running).fn
        BY <1>2, <1>5 DEF g
    <2>2. AtCall(Running, g)
        BY <1>3, <1>4
    <2>3. w.holds = Running.holds \cap Live[Running.fn] /\ LastIs(w.calls, Running.calls, q)
        BY <1>17, <1>19 DEF l
    <2>4. b.env = [h \in Functions |-> IF h = g THEN n + 1
                                       ELSE IF h \in Enclosing[g] THEN Running.env[h] ELSE 0]
        BY <1>20 DEF env
    <2>5. /\ stack'[Len(stack) + 1] = <<"fp", acts[Running.env[Outer[g]]].fp>>
          /\ stack'[Len(stack) + 2] = <<"return", n>>
          /\ stack'[Len(stack) + 3] = <<"fp", rbp>>
        BY <1>7, <1>11, <1>14
    <2> QED BY <1>3, <1>4, <1>6, <1>14, <1>15, <1>16, <1>19, <1>20, <1>22, <1>23, <1>24,
               <2>1, <2>2, <2>3, <2>4, <2>5 DEF EnterIs
<1> QED BY <1>25

LEMMA EnterIInv == ASSUME IInv, Enter PROVE IInv'
<1>1. PICK g, w, b, q : EnterIs(g, w, b, q)
    BY EnterDoes
<1>2. /\ n \in 1..n /\ Len(acts) = n /\ acts \in Seq(Activation) /\ n \in Nat /\ n >= 1
      /\ Running \in Activation /\ Running.fn \in Functions /\ Running = acts[n]
      /\ rbp = Running.fp /\ rbp \in Nat /\ max_offset[Running.fn] \in Nat
      /\ stack \in Seq(Value) /\ Len(stack) \in Nat /\ Frozen(stack, acts) /\ Known(acts, n)
      /\ MaxActive \in Nat
    BY RunningIs
<1>3. rbp' = Len(stack) + 3 /\ pc' = "body" /\ goal' = Module /\ rax' = 0 /\ hops' = 0
    BY DEF Enter, Idle
<1>4. g \in Functions /\ g # Module /\ Outer[g] \in Enclosing[Running.fn] /\ Outer[g] \in Functions
      /\ g \notin Enclosing[Outer[g]] /\ Enclosing[Outer[g]] \subseteq Enclosing[g]
      /\ Outer[g] \in Enclosing[Outer[g]] /\ Params[g] \in Nat
    <2>1. g \in Calls[Running.fn]
        BY <1>1 DEF EnterIs
    <2>2. g \in Functions /\ g # Module /\ Outer[g] \in Enclosing[Running.fn]
        BY <1>2, <2>1, Called
    <2> QED BY <2>2, Surroundings, NestingAssumption, ProgramAssumption
<1>5. /\ acts' \in Seq(Activation) /\ Len(acts') = n + 1 /\ acts'[n] = w /\ acts'[n + 1] = b
      /\ \A i \in 1..n : i # n => acts'[i] = acts[i]
      /\ SamePlace(Running, w) /\ n < MaxActive
    BY <1>1 DEF EnterIs
<1>6. /\ w \in Activation /\ w.fn = Running.fn /\ w.env = Running.env /\ w.fp = Running.fp
      /\ w.count = Running.count /\ b \in Activation /\ b.fn = g /\ b.fp = Len(stack) + 3
    BY <1>1 DEF EnterIs, SamePlace
<1>7. SameFrames(acts, acts', n)
    <2> SUFFICES ASSUME NEW i \in 1..n
                 PROVE  acts'[i].fn = acts[i].fn /\ acts'[i].env = acts[i].env
                        /\ acts'[i].fp = acts[i].fp
        BY DEF SameFrames
    <2>1. CASE i = n
        BY <2>1, <1>2, <1>5, <1>6
    <2>2. CASE i # n
        BY <2>2, <1>5
    <2> QED BY <2>1, <2>2
<1>8. b.env[g] = n + 1 /\ \A h \in Enclosing[Outer[g]] : b.env[h] = Running.env[h]
    <2>1. b.env = [h \in Functions |-> IF h = g THEN n + 1
                                      ELSE IF h \in Enclosing[g] THEN Running.env[h] ELSE 0]
        BY <1>1 DEF EnterIs
    <2>2. \A h \in Enclosing[Outer[g]] : h \in Functions /\ h # g /\ h \in Enclosing[g]
        BY <1>4, DepthAssumption
    <2> QED BY <1>4, <2>1, <2>2
<1>9. LastIs(w.calls, Running.calls, q) /\ q.fn = g /\ q.args = <<>> /\ q.pops = 0
      /\ g \in Calls[Running.fn] /\ InTurn(Running) /\ AtCall(Running, g)
    BY <1>1 DEF EnterIs
<1>10. InTurn(w) /\ w.calls # <<>> /\ Turn(w) = q
    <2>1. w.calls # <<>> /\ Turn(w) = q /\ Len(w.calls) = Len(Running.calls)
        BY <1>9 DEF LastIs, Turn
    <2>2. ASSUME NEW i \in 1..Len(w.calls)
          PROVE  /\ w.calls[i].fn \in Calls[w.fn]
                 /\ i < Len(w.calls) => w.calls[i].args = <<>> /\ w.calls[i].pops = 0
        <3>1. CASE i = Len(w.calls)
            BY <1>6, <1>9, <2>1, <3>1 DEF Turn
        <3>2. CASE i # Len(w.calls)
            BY <1>6, <1>9, <2>1, <2>2, <3>2 DEF LastIs, InTurn
        <3> QED BY <3>1, <3>2
    <2> QED BY <2>1, <2>2 DEF InTurn
<1>11. Top(w) = Top(Running) /\ Rest(w) = Rest(Running)
    BY <1>6 DEF Top, Words, Displaced, Rest
<1>12. Len(stack) = Top(Running) + Rest(Running)
    BY <1>1 DEF EnterIs
<1>13. Waits(w, b)
    BY <1>6, <1>9, <1>10, <1>11, <1>12 DEF Waits, AtCall
<1>14. Framed(stack', acts', n + 1)
    <2>1. b.env[Outer[g]] = Running.env[Outer[g]] /\ Running.env[Outer[g]] \in 1..n
        BY <1>2, <1>4, <1>8 DEF Known
    <2>2. acts'[Running.env[Outer[g]]].fp = acts[Running.env[Outer[g]]].fp
        BY <1>7, <2>1 DEF SameFrames
    <2>3. /\ stack'[Len(stack) + 1] = <<"fp", acts[Running.env[Outer[g]]].fp>>
          /\ stack'[Len(stack) + 2] = <<"return", n>>
          /\ stack'[Len(stack) + 3] = <<"fp", rbp>>
        BY <1>1 DEF EnterIs
    <2>4. b.fp - 2 = Len(stack) + 1 /\ b.fp - 1 = Len(stack) + 2 /\ (n + 1) - 1 = n
        BY <1>2, <1>6
    <2> QED BY <1>2, <1>5, <1>6, <2>1, <2>2, <2>3, <2>4 DEF Framed
<1>15. Len(stack) >= rbp /\ \A i \in 1..rbp : ~ (i \in Len(stack) - (Params[g] - 5)..Len(stack))
    <2>1. /\ Top(Running) = rbp + max_offset[Running.fn] + Words(Running)
          /\ Words(Running) \in Nat /\ Rest(Running) \in 0..4 /\ Running.count = Params[g]
          /\ Displaced(Running) \in 0..4
        BY <1>2, <1>9, Sizes DEF AtCall
    <2>2. Words(Running) = Displaced(Running) + (Params[g] - Least(Params[g], 4))
        BY <2>1 DEF Words
    <2>3. Params[g] > 4 => Words(Running) >= Params[g] - 4
        BY <1>4, <2>1, <2>2 DEF Least
    <2>4. Len(stack) >= rbp + Words(Running)
        BY <1>2, <1>12, <2>1
    <2> QED BY <1>2, <1>4, <2>1, <2>3, <2>4, SMTT(30)
<1>16. SameAddresses(stack, stack', acts[n].fp)
    <2> SUFFICES ASSUME NEW i \in 1..rbp PROVE stack'[i] = stack[i]
        BY <1>2 DEF SameAddresses
    <2>1. i \in 1..Len(stack) /\ ~ (i \in Len(stack) - (Params[g] - 5)..Len(stack))
        BY <1>2, <1>15
    <2> QED BY <1>1, <2>1 DEF EnterIs
<1>17. Frozen(stack', acts')
    <2>1. \A i \in 1..n - 1 : acts'[i] = acts[i]
        BY <1>2, <1>5
    <2>2. acts'[n + 1].fn = g /\ acts'[n + 1].env[g] = n + 1
          /\ \A h \in Enclosing[Outer[g]] : acts'[n + 1].env[h] = acts[n].env[h]
        BY <1>2, <1>5, <1>6, <1>8
    <2>3. Waits(acts'[n], acts'[n + 1]) /\ Outer[g] \in Enclosing[acts[n].fn]
        BY <1>2, <1>4, <1>5, <1>13
    <2>4. PICK k \in Nat : k = n
        BY <1>2
    <2>5. PICK t : t = acts'
        OBVIOUS
    <2>6. PICK p : p = stack'
        OBVIOUS
    <2>7. /\ t \in Seq(Activation) /\ k = Len(acts) /\ k >= 1 /\ Len(t) = k + 1
          /\ SameFrames(acts, t, k) /\ \A i \in 1..k - 1 : t[i] = acts[i]
        BY <1>2, <1>5, <1>7, <2>1, <2>4, <2>5
    <2>8. /\ t[k + 1].fn = g /\ t[k + 1].env[g] = k + 1
          /\ \A h \in Enclosing[Outer[g]] : t[k + 1].env[h] = acts[k].env[h]
        BY <2>2, <2>4, <2>5
    <2>9. /\ Waits(t[k], t[k + 1]) /\ Framed(p, t, k + 1) /\ SameAddresses(stack, p, acts[k].fp)
          /\ Outer[g] \in Enclosing[acts[k].fn]
        BY <1>14, <1>16, <2>3, <2>4, <2>5, <2>6
    <2>10. Enters(stack, p, acts, t, k, g)
        BY <1>2, <1>4, <2>4, <2>7, <2>8, <2>9 DEF Enters
    <2>11. Frozen(p, t)
        BY <2>10, FrozenPushed
    <2> QED BY <2>5, <2>6, <2>11
<1>18. n' = n + 1 /\ Running' = b
    <2>1. n' = n + 1
        BY <1>5 DEF n
    <2> QED BY <1>5, <2>1 DEF Running
<1>19. Typed'
    <2>1. \A i \in 1..(n + 1) : /\ acts'[i].holds \subseteq Written[acts'[i].fn]
                               /\ acts'[i].declared \subseteq Variables(acts'[i].fn)
        <3> TAKE i \in 1..(n + 1)
        <3>1. CASE i = n + 1
            <4>1. b.holds = {} /\ b.declared = {}
                BY <1>1 DEF EnterIs
            <4> QED BY <1>5, <3>1, <4>1
        <3>2. CASE i = n
            <4>1. w.holds \subseteq Running.holds /\ w.declared = Running.declared
                BY <1>1 DEF EnterIs
            <4>2. Running.holds \subseteq Written[Running.fn] /\ Running.declared \subseteq Variables(Running.fn)
                BY <1>2 DEF IInv, Typed
            <4> QED BY <1>5, <1>6, <3>2, <4>1, <4>2
        <3>3. CASE i \in 1..n /\ i # n
            BY <1>5, <3>3 DEF IInv, Typed
        <3>4. i = n + 1 \/ i = n \/ (i \in 1..n /\ i # n)
            BY <1>2
        <3> QED BY <3>1, <3>2, <3>3, <3>4
    <2>2. stack' \in Seq(Value) /\ reg' \in [Registers -> Value]
        BY <1>1 DEF EnterIs
    <2>3. n + 1 \in 1..MaxActive /\ 0 \in Nat
        BY <1>2, <1>5
    <2> QED BY <1>3, <1>5, <1>18, <2>1, <2>2, <2>3, ModuleAssumption DEF Typed
<1>20. AtPoint(stack', b, n + 1, "body", Module)
    <2>1. b.calls = <<>> /\ b.count = 0 /\ Len(stack') = Len(stack) + 3 + max_offset[g]
        BY <1>1 DEF EnterIs
    <2>2. InTurn(b) /\ AtBody(b)
        BY <2>1 DEF InTurn, AtBody
    <2>3. Words(b) = 0
        BY <2>1, <1>4, <1>6 DEF Words, Displaced, Least
    <2>4. max_offset[g] \in Nat
        BY <1>6, Sizes
    <2>5. Len(stack') = Top(b) + 0
        BY <1>2, <1>6, <2>1, <2>3, <2>4 DEF Top
    <2> QED BY <2>1, <2>2, <2>5 DEF AtPoint
<1>21. Shape'
    BY <1>3, <1>6, <1>17, <1>18, <1>20 DEF Shape, Walking
<1> QED BY <1>19, <1>21 DEF IInv

(***************************************************************************)
(* Returning to the caller.                                                *)
(***************************************************************************)

\* What it does to the caller a, which becomes w.
ReturnIs(f, a, w) ==
    /\ pc = "body" /\ n > 1 /\ Running.calls = <<>> /\ f = Running.fn
    /\ a = acts[n - 1] /\ a \in Activation /\ Waits(a, Running)
    /\ Len(stack) = rbp + max_offset[f] /\ rbp = Top(a) + Rest(a) + 3
    /\ stack' \in Seq(Value) /\ Len(stack') = Top(a)
    /\ \A i \in 1..Top(a) : stack'[i] = Forget(stack[i])
    /\ rbp' = a.fp
    /\ reg' \in [Registers -> Value]
    /\ \A c \in Registers :
         reg'[c] = IF c >= ParamReg(a.count) /\ c < ParamReg(InRegisters(a.fn))
                     THEN Forget(stack[rbp - 3 - (ParamReg(InRegisters(a.fn)) - 1 - c)])
                     ELSE Forget(IF c <= regs_used[f] THEN stack[rbp + regs_used[f] + 1 - c]
                                                      ELSE reg[c])
    /\ acts' \in Seq(Activation) /\ Len(acts') = n - 1 /\ acts'[n - 1] = w
    /\ \A i \in 1..n - 2 : acts'[i] = acts[i]
    /\ SamePlace(a, w) /\ w.count = a.count /\ w.holds = a.holds /\ w.declared = a.declared
    /\ InTurn(w)
    /\ IF pc' = "body" THEN AtBody(w) ELSE pc' = "pop" /\ AtPop(w)
    /\ w.calls # <<>> => Turn(w).args = <<>>

LEMMA Forgets == ASSUME NEW v \in Value PROVE Forget(v) \in Value
    BY Values DEF Forget

\* The calls of the caller when the callee has returned: the pops begin, or
\* there is nothing to pop.
CallsAfter(d, a) ==
    IF a.count = 0
      THEN /\ d \in Seq(CallRecord) /\ Len(d) = Len(a.calls) - 1
           /\ \A i \in 1..Len(d) : d[i] = a.calls[i]
      ELSE \E r \in CallRecord :
             /\ LastIs(d, a.calls, r) /\ r.fn = Turn(a).fn /\ r.args = <<>>
             /\ r.pops = Least(a.count, 4) + (IF a.count > 4 THEN 1 ELSE 0)

LEMMA AfterCall ==
    ASSUME NEW a \in Activation, InTurn(a), a.calls # <<>>, Turn(a).args = <<>>,
           a.count = Params[Turn(a).fn], NEW w, SamePlace(a, w), w.count = a.count,
           CallsAfter(w.calls, a)
    PROVE  /\ InTurn(w)
           /\ IF a.count = 0 THEN AtBody(w) ELSE AtPop(w)
           /\ w.calls # <<>> => Turn(w).args = <<>>
<1>1. /\ a.calls \in Seq(CallRecord) /\ Len(a.calls) \in Nat /\ Len(a.calls) >= 1
      /\ Turn(a) = a.calls[Len(a.calls)] /\ Turn(a).fn \in Calls[a.fn] /\ Turn(a).fn \in Functions
      /\ Params[Turn(a).fn] \in Nat /\ w.fn = a.fn
    BY TurnIs DEF SamePlace
<1>2. \A i \in 1..Len(a.calls) :
        /\ a.calls[i].fn \in Calls[w.fn]
        /\ i < Len(a.calls) => a.calls[i].args = <<>> /\ a.calls[i].pops = 0
    BY <1>1 DEF InTurn
<1>3. CASE a.count = 0
    <2>1. /\ w.calls \in Seq(CallRecord) /\ Len(w.calls) = Len(a.calls) - 1
          /\ \A i \in 1..Len(w.calls) : w.calls[i] = a.calls[i]
        BY <1>3 DEF CallsAfter
    <2>2. \A i \in 1..Len(w.calls) : /\ w.calls[i].fn \in Calls[w.fn]
                                     /\ w.calls[i].args = <<>> /\ w.calls[i].pops = 0
        <3> TAKE i \in 1..Len(w.calls)
        <3>1. i \in 1..Len(a.calls) /\ i < Len(a.calls)
            BY <1>1, <2>1
        <3> QED BY <1>2, <2>1, <3>1
    <2>3. InTurn(w)
        BY <2>2 DEF InTurn
    <2>4. w.calls # <<>> => Turn(w).args = <<>> /\ Turn(w).pops = 0 /\ Params[Turn(w).fn] \in Nat
        <3> SUFFICES ASSUME w.calls # <<>>
                     PROVE  Turn(w).args = <<>> /\ Turn(w).pops = 0 /\ Params[Turn(w).fn] \in Nat
            OBVIOUS
        <3>1. Len(w.calls) \in 1..Len(w.calls) /\ w.calls[Len(w.calls)] \in CallRecord
            BY <2>1
        <3>2. Turn(w) = w.calls[Len(w.calls)] /\ Turn(w).fn \in Functions
            BY <3>1 DEF Turn, CallRecord
        <3> QED BY <2>2, <3>1, <3>2, ProgramAssumption
    <2>5. AtBody(w)
        BY <1>3, <2>4 DEF AtBody
    <2> QED BY <1>3, <2>3, <2>4, <2>5
<1>4. CASE a.count # 0
    <2>1. PICK r \in CallRecord :
             /\ LastIs(w.calls, a.calls, r) /\ r.fn = Turn(a).fn /\ r.args = <<>>
             /\ r.pops = Least(a.count, 4) + (IF a.count > 4 THEN 1 ELSE 0)
        BY <1>4 DEF CallsAfter
    <2>2. Turn(w) = r /\ w.calls # <<>> /\ Len(w.calls) = Len(a.calls)
        BY <2>1 DEF Turn, LastIs
    <2>3. InTurn(w)
        <3> SUFFICES ASSUME NEW i \in 1..Len(w.calls)
                     PROVE  /\ w.calls[i].fn \in Calls[w.fn]
                            /\ i < Len(w.calls) => w.calls[i].args = <<>> /\ w.calls[i].pops = 0
            BY DEF InTurn
        <3>1. CASE i = Len(w.calls)
            BY <1>1, <2>1, <2>2, <3>1 DEF Turn
        <3>2. CASE i # Len(w.calls)
            BY <1>2, <2>1, <2>2, <3>2 DEF LastIs
        <3> QED BY <3>1, <3>2
    <2>4. AtPop(w)
        <3>1. w.count > 0 /\ w.count <= Params[r.fn] /\ w.count = Params[r.fn]
            BY <1>1, <1>4, <2>1
        <3> QED BY <2>1, <2>2, <3>1 DEF AtPop
    <2> QED BY <1>4, <2>1, <2>2, <2>3, <2>4
<1> QED BY <1>3, <1>4

LEMMA ReturnDoes ==
    ASSUME IInv, Return
    PROVE  \E f, a, w : ReturnIs(f, a, w)
<1> DEFINE f    == Running.fn
           a    == acts[n - 1]
           kept == Least(Params[a.fn], 4)
           pops == Least(Params[f], 4) + (IF Params[f] > 4 THEN 1 ELSE 0)
           r    == [Turn(a) EXCEPT !.pops = pops]
           d    == [a.calls EXCEPT ![Len(a.calls)] = r]
           e    == IF pops = 0 THEN Front(d) ELSE d
           w    == [a EXCEPT !.calls = e]
           top  == Len(stack) - (max_offset[f] - regs_used[f])
           below == rbp - 3
           saved == IF kept > a.count THEN kept - a.count ELSE 0
           rest  == [acts EXCEPT ![n - 1].calls[Len(a.calls)].pops = pops]
           popped == [c \in Registers |-> IF c <= regs_used[f] THEN Read(top + 1 - c) ELSE reg[c]]
<1>1. /\ Len(acts) = n /\ acts \in Seq(Activation) /\ n \in Nat /\ n \in 1..n
      /\ Running \in Activation /\ Running.fn \in Functions /\ Running = acts[n]
      /\ rbp = Running.fp /\ rbp \in Nat /\ max_offset[f] \in Nat
      /\ stack \in Seq(Value) /\ Len(stack) \in Nat /\ Frozen(stack, acts)
    BY RunningIs
<1>2. pc = "body" /\ Running.calls = <<>> /\ n > 1
    BY DEF Return
<1>3. AtPoint(stack, Running, n, pc, goal) /\ AtBody(Running)
    BY <1>2 DEF IInv, Shape, AtPoint
<1>4. /\ n - 1 \in 1..n /\ a \in Activation /\ a.fn \in Functions /\ Waits(a, Running)
      /\ Framed(stack, acts, n) /\ rbp >= 3 /\ a.fp \in Nat
    <2>1. n - 1 \in 1..Len(acts) /\ n \in 1..Len(acts) /\ n - 1 < Len(acts)
        BY <1>1, <1>2
    <2>2. a \in Activation
        BY <1>1, <2>1
    <2>3. Waits(acts[n - 1], acts[(n - 1) + 1]) /\ Framed(stack, acts, n) /\ acts[n].fp >= 3
        BY <1>1, <1>2, <2>1, FrozenAt
    <2>4. (n - 1) + 1 = n
        BY <1>1
    <2> QED BY <1>1, <2>1, <2>2, <2>3, <2>4, Sizes
<1>5. /\ InTurn(a) /\ a.calls # <<>> /\ Turn(a).fn = f /\ Turn(a).args = <<>> /\ Turn(a).pops = 0
      /\ a.count = Params[f] /\ rbp = Top(a) + Rest(a) + 3
    BY <1>1, <1>4 DEF Waits
<1>6. /\ Params[f] \in Nat /\ Params[a.fn] \in Nat /\ a.count \in Nat /\ Rest(a) \in 0..4
      /\ Top(a) \in Nat /\ Top(a) >= a.fp /\ kept = InRegisters(a.fn) /\ kept \in 0..4
    <2>1. /\ Params[f] \in Nat /\ Params[a.fn] \in Nat /\ a.count \in Nat /\ Rest(a) \in 0..4
          /\ Top(a) \in Nat /\ Top(a) = a.fp + max_offset[a.fn] + Words(a)
          /\ max_offset[a.fn] \in Nat /\ Words(a) \in Nat
        BY <1>1, <1>4, Sizes
    <2>2. kept = InRegisters(a.fn) /\ kept \in 0..4
        BY <2>1 DEF InRegisters, Least
    <2> HIDE DEF a, f, kept
    <2> QED BY <1>4, <2>1, <2>2
<1>7. saved = Rest(a)
    BY <1>6 DEF Rest
<1>8. below = Top(a) + Rest(a) /\ below - saved = Top(a) /\ below <= Len(stack) /\ rbp <= Len(stack)
    <2>1. rbp <= Len(stack)
        BY <1>1, RunningIs
    <2> HIDE DEF a, saved
    <2> QED BY <1>1, <1>5, <1>6, <1>7, <2>1
<1>9. Len(stack) = rbp + max_offset[f]
    <2>1. Len(stack) = Top(Running) + 0 /\ Running.count = 0
        BY <1>2, <1>3 DEF AtPoint, AtBody
    <2>2. Words(Running) = 0
        BY <1>1, <2>1, Sizes DEF Words, Displaced, Least
    <2> QED BY <1>1, <2>1, <2>2 DEF Top
<1>10. /\ Read(rbp) = <<"fp", a.fp>> /\ Read(rbp - 1) = <<"return", n - 1>>
    <2>1. stack[rbp] = <<"fp", a.fp>> /\ stack[rbp - 1] = <<"return", n - 1>>
        BY <1>1, <1>4 DEF Framed
    <2>2. rbp \in DOMAIN stack /\ rbp - 1 \in DOMAIN stack
        BY <1>1, <1>4, <1>8
    <2> QED BY <2>1, <2>2 DEF Read
<1>11. ~ (Read(rbp - 1) # <<"return", n - 1>> \/ Read(rbp)[1] # "fp")
    BY <1>10
<1>12. /\ rbp' = Address(Read(rbp))
       /\ stack' = [i \in 1..(below - saved) |-> Forget(stack[i])]
       /\ reg' = [c \in Registers |->
                    IF c >= ParamReg(a.count) /\ c < ParamReg(kept)
                      THEN Forget(Read(below - (ParamReg(kept) - 1 - c)))
                      ELSE Forget(popped[c])]
       /\ acts' = IF pops = 0 THEN EndCall(Front(rest)) ELSE Front(rest)
       /\ pc' = IF pops = 0 THEN "body" ELSE "pop"
    BY <1>11, SMTT(30) DEF Return
<1>13. rbp' = a.fp
    BY <1>10, <1>12 DEF Address
<1>14. /\ stack' \in Seq(Value) /\ Len(stack') = Top(a)
       /\ \A i \in 1..Top(a) : stack'[i] = Forget(stack[i])
    <2>1. stack' = [i \in 1..Top(a) |-> Forget(stack[i])]
        BY <1>8, <1>12
    <2> HIDE DEF a
    <2>2. \A i \in 1..Top(a) : Forget(stack[i]) \in Value
        <3> TAKE i \in 1..Top(a)
        <3>1. i \in 1..Len(stack)
            <4>1. PICK t \in Nat, more \in Nat, l \in Nat :
                    t = Top(a) /\ more = Rest(a) /\ l = Len(stack)
                BY <1>1, <1>6
            <4>2. t + more <= l /\ i \in 1..t
                BY <1>8, <4>1
            <4>3. i \in 1..l
                BY <4>2
            <4> QED BY <4>1, <4>3
        <3>2. stack[i] \in Value
            BY <1>1, <3>1
        <3> QED BY <3>2, Forgets
    <2>3. stack' \in [1..Top(a) -> Value]
        BY <2>1, <2>2
    <2>4. stack' \in Seq(Value) /\ Len(stack') = Top(a)
        BY <1>6, <2>3, SeqTyped
    <2> QED BY <2>1, <2>4
<1>15. regs_used[f] \in 0..MAX_REG /\ regs_used[f] <= max_offset[f] /\ MAX_REG \in Nat
    <2>1. LaidOut(f) /\ MAX_REG \in Nat
        BY <1>1, Layout, SegmentAssumption
    <2> QED BY <2>1 DEF LaidOut
<1>16. ASSUME NEW c \in Registers
       PROVE  /\ reg'[c] \in Value
              /\ reg'[c] = IF c >= ParamReg(a.count) /\ c < ParamReg(InRegisters(a.fn))
                             THEN Forget(stack[rbp - 3 - (ParamReg(InRegisters(a.fn)) - 1 - c)])
                             ELSE Forget(IF c <= regs_used[f] THEN stack[rbp + regs_used[f] + 1 - c]
                                                              ELSE reg[c])
    <2>1. c \in Nat /\ c >= 1
        BY <1>15 DEF Registers, ParamRegs, ParamReg
    <2>2. CASE c >= ParamReg(a.count) /\ c < ParamReg(InRegisters(a.fn))
        <3> DEFINE p == rbp - 3 - (ParamReg(InRegisters(a.fn)) - 1 - c)
        <3>1. reg'[c] = Forget(Read(below - (ParamReg(kept) - 1 - c)))
            BY <1>6, <1>12, <2>2
        <3>2. below - (ParamReg(kept) - 1 - c) = p
            BY <1>6
        <3>3. p \in 1..Len(stack)
            <4>1. PICK x \in Nat : x = InRegisters(a.fn)
                BY <1>6
            <4>2. PICK k \in Nat : k = a.count
                BY <1>6
            <4>3. PICK t \in Nat : t = Top(a)
                BY <1>6
            <4>4. PICK y \in Nat : y = Rest(a)
                BY <1>6
            <4>5. PICK l \in Nat : l = Len(stack)
                BY <1>1
            <4>6. PICK m \in Nat : m = MAX_REG
                BY <1>15
            <4>7. ParamReg(k) = m + 2 + k /\ ParamReg(x) = m + 2 + x
                BY <4>6 DEF ParamReg
            <4>8. c >= m + 2 + k /\ c < m + 2 + x
                BY <2>2, <4>1, <4>2, <4>7
            <4>9. y = IF x > k THEN x - k ELSE 0
                BY <4>1, <4>2, <4>4 DEF Rest
            <4>10. t + y <= l /\ rbp = t + y + 3
                BY <1>5, <1>8, <4>3, <4>4, <4>5
            <4>11. p = t + y - (m + 2 + x - 1 - c)
                BY <2>1, <4>1, <4>7, <4>10
            <4> HIDE DEF p
            <4>12. p \in 1..l
                BY <2>1, <4>8, <4>9, <4>10, <4>11
            <4> QED BY <4>5, <4>12
        <3> HIDE DEF p
        <3>4. Read(p) = stack[p] /\ stack[p] \in Value
            BY <1>1, <3>3 DEF Read
        <3>5. reg'[c] = Forget(stack[p]) /\ Forget(stack[p]) \in Value
            BY <3>1, <3>2, <3>4, Forgets
        <3> QED BY <2>2, <3>5 DEF p
    <2>3. CASE ~ (c >= ParamReg(a.count) /\ c < ParamReg(InRegisters(a.fn)))
        <3>1. reg'[c] = Forget(popped[c])
            BY <1>6, <1>12, <2>3
        <3>2. CASE c <= regs_used[f]
            <4> DEFINE p == rbp + regs_used[f] + 1 - c
            <4>1. top + 1 - c = p /\ p \in 1..Len(stack)
                <5>1. PICK m \in Nat : m = max_offset[f]
                    BY <1>1
                <5>2. PICK u \in Nat : u = regs_used[f]
                    BY <1>15
                <5>3. u <= m /\ c <= u /\ Len(stack) = rbp + m
                    BY <1>9, <1>15, <3>2, <5>1, <5>2
                <5>4. top = Len(stack) - (m - u) /\ p = rbp + u + 1 - c
                    BY <5>1, <5>2
                <5>5. PICK z \in Nat : z = rbp
                    BY <1>1
                <5> HIDE DEF top, p
                <5>6. Len(stack) = z + m /\ p = z + u + 1 - c /\ top = (z + m) - (m - u)
                    BY <5>3, <5>4, <5>5
                <5>7. top + 1 - c = p /\ p \in 1..(z + m)
                    BY <2>1, <5>3, <5>6
                <5> QED BY <5>6, <5>7
            <4> HIDE DEF p
            <4>2. popped[c] = stack[p] /\ stack[p] \in Value
                BY <1>1, <3>2, <4>1 DEF Read
            <4>3. reg'[c] = Forget(stack[p]) /\ Forget(stack[p]) \in Value
                BY <3>1, <4>2, Forgets
            <4> QED BY <2>3, <3>2, <4>3 DEF p
        <3>3. CASE ~ (c <= regs_used[f])
            <4>1. popped[c] = reg[c] /\ reg[c] \in Value
                BY <3>3 DEF IInv, Typed
            <4>2. reg'[c] = Forget(reg[c]) /\ Forget(reg[c]) \in Value
                BY <3>1, <4>1, Forgets
            <4> QED BY <2>3, <3>3, <4>2
        <3> QED BY <3>2, <3>3
    <2> QED BY <2>2, <2>3
<1>17. reg' \in [Registers -> Value]
    BY <1>12, <1>16
<1>18. /\ a.calls \in Seq(CallRecord) /\ Len(a.calls) \in 1..Len(a.calls) /\ Len(a.calls) \in Nat
       /\ Turn(a) \in CallRecord /\ Turn(a) = a.calls[Len(a.calls)] /\ Len(a.calls) >= 1
    BY <1>4, <1>5, TurnIs
<1>19. pops \in Nat /\ (pops = 0 <=> a.count = 0)
       /\ pops = Least(a.count, 4) + (IF a.count > 4 THEN 1 ELSE 0)
    BY <1>5, <1>6 DEF Least
<1>20. r \in CallRecord /\ r.fn = f /\ r.args = <<>> /\ r.pops = pops
    <2>1. PICK q \in CallRecord : q = Turn(a)
        BY <1>18
    <2>2. PICK x \in Nat : x = pops
        BY <1>19
    <2>3. r = [q EXCEPT !.pops = x] /\ q.fn = f /\ q.args = <<>>
        BY <1>5, <2>1, <2>2
    <2> HIDE DEF r, f, pops
    <2> QED BY <2>1, <2>2, <2>3 DEF CallRecord
<1>21. LastIs(d, a.calls, r)
    <2> HIDE DEF r, a
    <2> QED BY <1>5, <1>18, <1>20, LastIsIs
<1>22. /\ e \in Seq(CallRecord)
       /\ pops = 0 => /\ Len(e) = Len(a.calls) - 1
                      /\ \A i \in 1..Len(e) : e[i] = a.calls[i]
       /\ pops # 0 => LastIs(e, a.calls, r)
    <2> HIDE DEF d, r, pops, a
    <2>1. CASE pops = 0
        <3>1. e = SubSeq(d, 1, Len(d) - 1)
            BY <2>1 DEF Front
        <3>2. /\ d \in Seq(CallRecord) /\ Len(d) = Len(a.calls) /\ Len(d) \in Nat /\ Len(d) >= 1
              /\ \A i \in 1..Len(a.calls) : i # Len(a.calls) => d[i] = a.calls[i]
            BY <1>18, <1>21 DEF LastIs
        <3> HIDE DEF e
        <3>3. e \in Seq(CallRecord) /\ Len(e) = Len(d) - 1 /\ \A i \in 1..Len(e) : e[i] = d[i]
            BY <3>1, <3>2
        <3>4. \A i \in 1..Len(e) : i \in 1..Len(a.calls) /\ i # Len(a.calls)
            BY <3>2, <3>3
        <3> QED BY <2>1, <3>2, <3>3, <3>4
    <2>2. CASE pops # 0
        BY <2>2, <1>21 DEF LastIs
    <2> QED BY <2>1, <2>2
<1>23. /\ w \in Activation /\ w.fn = a.fn /\ w.env = a.env /\ w.fp = a.fp
       /\ w.count = a.count /\ w.holds = a.holds /\ w.declared = a.declared
       /\ w.calls = e
    <2> HIDE DEF e, a
    <2> QED BY <1>4, <1>22 DEF Activation
<1>24. /\ acts' \in Seq(Activation) /\ Len(acts') = n - 1 /\ acts'[n - 1] = w
       /\ \A i \in 1..n - 2 : acts'[i] = acts[i]
    <2> DEFINE x == [a EXCEPT !.calls = d]
    <2>1. rest = [acts EXCEPT ![n - 1] = x]
        <3> HIDE DEF pops
        <3> QED BY <1>1, <1>4, <1>18
    <2>2. x \in Activation /\ x.calls = d
        <3> HIDE DEF d, a
        <3> QED BY <1>4, <1>21 DEF Activation, LastIs
    <2> HIDE DEF x, rest, a, d
    <2>3. /\ rest \in Seq(Activation) /\ Len(rest) = n /\ rest[n - 1] = x
          /\ \A i \in 1..n - 2 : rest[i] = acts[i]
        BY <1>1, <1>4, <2>1, <2>2
    <2>4. PICK u : u = Front(rest)
        OBVIOUS
    <2>5. u = SubSeq(rest, 1, n - 1)
        BY <2>3, <2>4 DEF Front
    <2>6. /\ u \in Seq(Activation) /\ Len(u) = n - 1 /\ u[n - 1] = x
          /\ \A i \in 1..n - 2 : u[i] = acts[i]
        BY <1>1, <1>2, <2>3, <2>5
    <2>7. CASE pops = 0
        <3>1. acts' = EndCall(u)
            BY <1>12, <2>4, <2>7
        <3>2. EndCall(u) = [u EXCEPT ![n - 1] = [x EXCEPT !.calls = Front(d)]]
            BY <2>2, <2>6 DEF EndCall
        <3>3. [x EXCEPT !.calls = Front(d)] = [a EXCEPT !.calls = Front(d)]
            BY <1>4 DEF x, Activation
        <3>4. w = [a EXCEPT !.calls = Front(d)]
            BY <2>7
        <3>5. acts' = [u EXCEPT ![n - 1] = w]
            BY <3>1, <3>2, <3>3, <3>4
        <3> HIDE DEF w
        <3> QED BY <1>1, <1>2, <1>23, <2>6, <3>5
    <2>8. CASE pops # 0
        <3>1. acts' = u
            BY <1>12, <2>4, <2>8
        <3>2. w = x
            BY <2>8 DEF x
        <3> QED BY <2>6, <3>1, <3>2
    <2> QED BY <2>7, <2>8
<1>25. pc' = IF a.count = 0 THEN "body" ELSE "pop"
    BY <1>12, <1>19
<1> HIDE DEF a, w, e, d, r, pops, rest, f
<1>26. SamePlace(a, w)
    BY <1>23 DEF SamePlace
<1>27. CallsAfter(w.calls, a)
    <2>1. CASE a.count = 0
        BY <1>19, <1>22, <1>23, <2>1 DEF CallsAfter
    <2>2. CASE a.count # 0
        <3>1. LastIs(w.calls, a.calls, r)
            BY <1>19, <1>22, <1>23, <2>2
        <3>2. r.fn = Turn(a).fn /\ r.pops = Least(a.count, 4) + (IF a.count > 4 THEN 1 ELSE 0)
            BY <1>5, <1>19, <1>20
        <3> QED BY <1>20, <2>2, <3>1, <3>2 DEF CallsAfter
    <2> QED BY <2>1, <2>2
<1>28. /\ InTurn(w)
       /\ IF a.count = 0 THEN AtBody(w) ELSE AtPop(w)
       /\ w.calls # <<>> => Turn(w).args = <<>>
    BY <1>4, <1>5, <1>23, <1>26, <1>27, AfterCall
<1>29. f = Running.fn /\ a = acts[n - 1]
    BY DEF f, a
<1>30. IF pc' = "body" THEN AtBody(w) ELSE pc' = "pop" /\ AtPop(w)
    BY <1>25, <1>28
<1>31. ReturnIs(f, a, w)
    BY <1>2, <1>4, <1>5, <1>9, <1>13, <1>14, <1>16, <1>17, <1>23, <1>24, <1>26, <1>28, <1>29, <1>30
       DEF ReturnIs
<1> QED BY <1>31

LEMMA ReturnIInv == ASSUME IInv, Return PROVE IInv'
<1>1. PICK f, a, w : ReturnIs(f, a, w)
    BY ReturnDoes
<1>2. goal' = goal /\ rax' = rax /\ hops' = hops
    BY DEF Return
<1>3. /\ Len(acts) = n /\ acts \in Seq(Activation) /\ n \in Nat /\ n <= MaxActive /\ MaxActive \in Nat
      /\ stack \in Seq(Value) /\ Len(stack) \in Nat /\ Frozen(stack, acts)
    BY RunningIs
<1>4. /\ acts' \in Seq(Activation) /\ Len(acts') = n - 1 /\ acts'[n - 1] = w
      /\ \A i \in 1..n - 2 : acts'[i] = acts[i]
      /\ n > 1 /\ a = acts[n - 1] /\ a \in Activation /\ pc = "body"
    BY <1>1 DEF ReturnIs
<1>5. /\ w \in Activation /\ w.fn = a.fn /\ w.env = a.env /\ w.fp = a.fp /\ w.count = a.count
      /\ w.holds = a.holds /\ w.declared = a.declared
    BY <1>1 DEF ReturnIs, SamePlace
<1>6. n - 1 \in 1..n /\ \A i \in 1..n - 1 : i # n - 1 => i \in 1..n - 2
    BY <1>3, <1>4
<1>7. SameFrames(acts, acts', n - 1)
    <2> SUFFICES ASSUME NEW i \in 1..n - 1
                 PROVE  acts'[i].fn = acts[i].fn /\ acts'[i].env = acts[i].env
                        /\ acts'[i].fp = acts[i].fp
        BY DEF SameFrames
    <2>1. CASE i = n - 1
        BY <2>1, <1>4, <1>5
    <2>2. CASE i # n - 1
        BY <2>2, <1>4, <1>6
    <2> QED BY <2>1, <2>2
<1>8. n' = n - 1 /\ Running' = w
    <2>1. n' = n - 1
        BY <1>4 DEF n
    <2> QED BY <1>4, <2>1 DEF Running
<1>9. /\ stack' \in Seq(Value) /\ Len(stack') = Top(a) /\ reg' \in [Registers -> Value]
      /\ rbp' = a.fp /\ \A i \in 1..Top(a) : stack'[i] = Forget(stack[i])
    BY <1>1 DEF ReturnIs
<1>10. a.fp \in Nat /\ Top(a) \in Nat /\ a.fp <= Top(a) /\ Top(w) = Top(a)
    <2>1. /\ a.fp \in Nat /\ Top(a) \in Nat /\ max_offset[a.fn] \in Nat /\ Words(a) \in Nat
          /\ Top(a) = a.fp + max_offset[a.fn] + Words(a)
        BY <1>4, Sizes
    <2>2. Top(w) = Top(a)
        BY <1>5 DEF Top, Words, Displaced
    <2> QED BY <2>1, <2>2
<1>11. SameAddresses(stack, stack', acts'[n - 1].fp)
    <2> SUFFICES ASSUME NEW i \in 1..a.fp, Len(stack[i]) = 2 PROVE stack'[i] = stack[i]
        BY <1>4, <1>5 DEF SameAddresses
    <2>1. i \in 1..Top(a)
        BY <1>10
    <2>2. Len(stack[i]) # 3
        OBVIOUS
    <2>3. Forget(stack[i]) = stack[i]
        BY <2>2, Zenon DEF Forget
    <2> QED BY <1>9, <2>1, <2>3
<1>12. Frozen(stack', acts')
    <2>1. Len(acts') \in 1..Len(acts) /\ SameFrames(acts, acts', Len(acts'))
          /\ SameAddresses(stack, stack', acts'[Len(acts')].fp)
        BY <1>3, <1>4, <1>6, <1>7, <1>11
    <2>2. \A i \in 1..Len(acts') - 1 : acts'[i] = acts[i]
        BY <1>3, <1>4
    <2> QED BY <1>3, <1>4, <2>1, <2>2, FrozenKept
<1>13. Typed'
    <2>1. \A i \in 1..n - 1 : /\ acts'[i].holds \subseteq Written[acts'[i].fn]
                              /\ acts'[i].declared \subseteq Variables(acts'[i].fn)
        <3> TAKE i \in 1..n - 1
        <3>1. i \in 1..n
            BY <1>3
        <3>2. acts[i].holds \subseteq Written[acts[i].fn] /\ acts[i].declared \subseteq Variables(acts[i].fn)
            BY <3>1 DEF IInv, Typed
        <3>3. acts'[i].holds = acts[i].holds /\ acts'[i].declared = acts[i].declared
              /\ acts'[i].fn = acts[i].fn
            BY <1>4, <1>5, <1>6
        <3> QED BY <3>2, <3>3
    <2>2. n - 1 \in 1..MaxActive
        BY <1>3, <1>4
    <2>3. pc' \in {"body", "call", "find", "pop"}
        BY <1>1 DEF ReturnIs
    <2>4. goal' \in Functions /\ hops' \in Nat
        BY <1>2 DEF IInv, Typed
    <2> QED BY <1>4, <1>8, <1>9, <2>1, <2>2, <2>3, <2>4 DEF Typed
<1>14. AtPoint(stack', w, n - 1, pc', goal') /\ pc' \in {"body", "pop"}
    <2>1. InTurn(w) /\ (IF pc' = "body" THEN AtBody(w) ELSE pc' = "pop" /\ AtPop(w))
        BY <1>1 DEF ReturnIs
    <2>2. n - 1 < MaxActive
        BY <1>3
    <2>3. Len(stack') = Top(w) + 0
        BY <1>9, <1>10
    <2> QED BY <2>1, <2>2, <2>3 DEF AtPoint
<1>15. rax' = 0
    BY <1>2, <1>4 DEF IInv, Shape, Walking
<1>16. Shape'
    BY <1>5, <1>8, <1>9, <1>12, <1>14, <1>15 DEF Shape, Walking
<1> QED BY <1>13, <1>16 DEF IInv

(***************************************************************************)
(* The invariant is inductive.                                             *)
(***************************************************************************)
LEMMA InitIInv == ASSUME Init PROVE IInv
<1> DEFINE env == [h \in Functions |-> IF h = Module THEN 1 ELSE 0]
           a   == NewActivation(Module, 0, env)
<1>1. /\ stack = [i \in 1..max_offset[Module] |-> Junk]
      /\ reg = [c \in Registers |-> Junk] /\ rbp = 0
      /\ acts = <<a>> /\ pc = "body" /\ goal = Module /\ rax = 0 /\ hops = 0
    BY DEF Init
<1>2. Module \in Functions /\ Enclosing[Module] = {Module}
    BY ModuleAssumption
<1>3. max_offset[Module] \in Nat /\ MaxActive \in Nat /\ MaxActive >= 1 /\ Params[Module] = 0
    <2>1. LaidOut(Module)
        BY <1>2, Layout
    <2> QED BY <2>1, ProgramAssumption DEF LaidOut
<1>4. /\ a \in Activation /\ a.fn = Module /\ a.fp = 0 /\ a.env = env /\ a.holds = {}
      /\ a.declared = {} /\ a.count = 0 /\ a.calls = <<>>
    <2>1. env \in [Functions -> Nat]
        OBVIOUS
    <2> HIDE DEF env
    <2> QED BY <1>2, <2>1 DEF NewActivation, Activation
<1> HIDE DEF a
<1>5. acts \in Seq(Activation) /\ Len(acts) = 1 /\ acts[1] = a
    BY <1>1, <1>4
<1>6. n = 1 /\ Running = a
    <2>1. n = 1
        BY <1>5 DEF n
    <2> QED BY <1>5, <2>1 DEF Running
<1>7. stack \in Seq(Value) /\ Len(stack) = max_offset[Module]
    <2>1. stack \in [1..max_offset[Module] -> Value]
        BY <1>1, Values
    <2> QED BY <1>3, <2>1, SeqTyped
<1>8. Typed
    <2>1. reg \in [Registers -> Value]
        BY <1>1, Values
    <2>2. \A i \in 1..1 : /\ acts[i].holds \subseteq Written[acts[i].fn]
                          /\ acts[i].declared \subseteq Variables(acts[i].fn)
        BY <1>4, <1>5
    <2>3. 1 \in 1..MaxActive /\ 0 \in Nat
        BY <1>3
    <2> QED BY <1>1, <1>2, <1>5, <1>6, <1>7, <2>1, <2>2, <2>3, SMTT(30) DEF Typed
<1>9. Knows(acts)
    <2>1. env[Module] = 1
        BY <1>2
    <2>2. Agrees(acts, 1)
        <3> HIDE DEF env
        <3>1. \A k \in Enclosing[acts[1].fn] : \A h \in Enclosing[k] : k = Module /\ h = Module
            BY <1>2, <1>4, <1>5
        <3>2. acts[1].env[Module] = 1
            BY <1>4, <1>5, <2>1
        <3> QED BY <3>1, <3>2 DEF Agrees
    <2>3. KnowsAt(acts, 1)
        BY <1>2, <1>4, <1>5, <2>1, <2>2 DEF KnowsAt
    <2> QED BY <1>5, <2>3 DEF Knows
<1>10. Frozen(stack, acts)
    BY <1>4, <1>5, <1>9 DEF Frozen
<1>11. AtPoint(stack, a, 1, "body", Module)
    <2>1. InTurn(a) /\ AtBody(a)
        BY <1>4 DEF InTurn, AtBody
    <2>2. Words(a) = 0
        BY <1>3, <1>4 DEF Words, Displaced, Least
    <2>3. Len(stack) = Top(a) + 0
        BY <1>3, <1>4, <1>7, <2>2 DEF Top
    <2> QED BY <1>4, <2>1, <2>3 DEF AtPoint
<1>12. Shape
    BY <1>1, <1>4, <1>6, <1>10, <1>11 DEF Shape, Walking
<1> QED BY <1>8, <1>12 DEF IInv

LEMMA NextIInv == ASSUME Balanced, IInv, [Next]_vars PROVE IInv'
<1>1. ASSUME NEW c \in Registers, Compute(c) PROVE IInv'
    BY <1>1, ComputeIInv
<1>2. ASSUME NEW c \in Registers, Argument(c) PROVE IInv'
    BY <1>2, ArgumentIInv
<1>3. ASSUME NEW v \in Variables(Running.fn), Declare(v) PROVE IInv'
    BY <1>3, DeclareIInv
<1>4. ASSUME NEW c \in Captures[Running.fn], Find(c[1], c[2], c[3]) PROVE IInv'
    BY <1>4, FindIInv
<1>5. ASSUME NEW g \in Functions, StartCall(g) PROVE IInv'
    BY <1>5, StartCallIInv
<1>6. CASE Divide
    BY <1>6, DivideIInv
<1>7. CASE PrintValue
    BY <1>7, PrintValueIInv
<1>8. CASE DeclareArray
    BY <1>8, DeclareArrayIInv
<1>9. CASE MakeCall
    BY <1>9, MakeCallIInv
<1>10. CASE Hop
    BY <1>10, HopIInv
<1>11. CASE Enter
    BY <1>11, EnterIInv
<1>12. CASE Return
    BY <1>12, ReturnIInv
<1>13. CASE PopParam
    BY <1>13, PopParamIInv
<1>14. CASE Found
    BY <1>14, FoundIInv
<1>15. CASE UNCHANGED vars
    BY <1>15 DEF vars, IInv, Typed, Shape, Walking, n, Running
<1>16. CASE NextSegment
    BY <1>15, <1>16, NextSegmentIs
<1>17. ASSUME NEW c \in Registers, PrintString(c) PROVE IInv'
    BY <1>17, PrintStringIInv
<1> QED BY <1>1, <1>2, <1>3, <1>4, <1>5, <1>6, <1>7, <1>8, <1>9, <1>10, <1>11, <1>12,
           <1>13, <1>14, <1>15, <1>16, <1>17 DEF Next

LEMMA Inductive == ASSUME Balanced PROVE Spec => []IInv
<1>1. Balanced /\ IInv /\ [Next]_vars => IInv'
    BY NextIInv
<1>2. Init => IInv
    BY InitIInv
<1>3. IInv /\ [Next]_vars => IInv'
    BY <1>1
<1> QED BY <1>2, <1>3, PTL DEF Spec

(***************************************************************************)
(* Type correctness: rbp and rax are addresses of words on the stack, and  *)
(* no activation holds a value in a register its function never writes.    *)
(***************************************************************************)
THEOREM TypeCorrect == ASSUME Balanced PROVE Spec => []TypeOK
<1>1. ASSUME IInv PROVE TypeOK
    <2>1. /\ Len(acts) = n /\ acts \in Seq(Activation) /\ Frozen(stack, acts) /\ n \in 1..n
          /\ rbp = acts[n].fp /\ rbp \in Nat /\ Len(stack) \in Nat /\ Len(stack) >= rbp
          /\ n <= MaxActive
        BY <1>1, RunningIs
    <2>2. rax \in 0..Len(stack)
        <3>1. CASE Walking
            <4>1. PICK j \in 1..n : Reached(acts, Target(pc, goal), j, rax, hops)
                BY <1>1, <2>1, <3>1 DEF IInv, Shape, Traverses
            <4>2. acts[j].fp \in Nat /\ acts[j].fp <= acts[n].fp
                BY <2>1, FrozenAt
            <4> QED BY <2>1, <4>1, <4>2 DEF Reached
        <3>2. CASE ~Walking
            BY <1>1, <2>1, <3>2 DEF IInv, Shape
        <3> QED BY <3>1, <3>2
    <2> QED BY <1>1, <2>1, <2>2 DEF IInv, Typed, TypeOK
<1> QED BY <1>1, Inductive, PTL

(***************************************************************************)
(* Whatever a program does between two statements, its frame is there as   *)
(* the prologue made it: what was pushed for arguments, displaced          *)
(* parameters, prints and arrays is popped, and a return finds the return  *)
(* address and the frame of its caller.                                    *)
(***************************************************************************)
THEOREM BalancedFrames == ASSUME Balanced PROVE Spec => []FrameBalanced
<1>1. ASSUME IInv PROVE FrameBalanced
    <2>1. pc # "lost"
        BY <1>1 DEF IInv, Typed
    <2>2. ASSUME pc = "body", Running.calls = <<>>
          PROVE  rbp = Running.fp /\ Len(stack) = rbp + max_offset[Running.fn]
        <3>1. /\ Running \in Activation /\ Running.fn \in Functions /\ rbp = Running.fp
              /\ rbp \in Nat /\ max_offset[Running.fn] \in Nat /\ Len(stack) \in Nat
            BY <1>1, RunningIs
        <3>2. Len(stack) = Top(Running) + 0 /\ Running.count = 0
            BY <1>1, <2>2 DEF IInv, Shape, AtPoint, AtBody
        <3>3. Words(Running) = 0
            BY <3>1, <3>2, Sizes DEF Words, Displaced, Least
        <3> QED BY <3>1, <3>2, <3>3 DEF Top
    <2> QED BY <2>1, <2>2 DEF FrameBalanced
<1> QED BY <1>1, Inductive, PTL

(***************************************************************************)
(* The links in memory follow StaticLinks.                                 *)
(***************************************************************************)

\* The activation whose frame is at fp, and the activations with the links
\* the stack m gives them; and with those the program means.
FrameOf(s, fp) == IF \E i \in 1..Len(s) : s[i].fp = fp
                    THEN CHOOSE i \in 1..Len(s) : s[i].fp = fp ELSE 0
LinkIn(m, fp)  == Address(IF fp - 2 \in DOMAIN m THEN m[fp - 2] ELSE Junk)
LinkedIn(m, s) == [i \in 1..Len(s) |-> [fn   |-> s[i].fn, env |-> s[i].env,
                     link |-> IF i = 1 THEN 0 ELSE FrameOf(s, LinkIn(m, s[i].fp))]]
LinkMeant(s, i) == IF i = 1 THEN 0 ELSE s[i].env[Outer[s[i].fn]]
Meaning(s)     == [i \in 1..Len(s) |-> [fn   |-> s[i].fn, env |-> s[i].env,
                                        link |-> LinkMeant(s, i)]]

LEMMA FrameOfIs ==
    ASSUME NEW m, NEW s \in Seq(Activation), Frozen(m, s), NEW j \in 1..Len(s)
    PROVE  FrameOf(s, s[j].fp) = j
<1>1. ASSUME NEW i \in 1..Len(s), s[i].fp = s[j].fp PROVE i = j
    <2>1. \A k \in 1..Len(s) - 1 : Waits(s[k], s[k + 1])
        BY DEF Frozen
    <2>2. s[i].fp \in Nat /\ s[j].fp \in Nat
        BY FrozenAt
    <2>3. i < j => s[i].fp + 3 <= s[j].fp
        BY <2>1, FramesRise
    <2>4. j < i => s[j].fp + 3 <= s[i].fp
        BY <2>1, FramesRise
    <2> QED BY <1>1, <2>2, <2>3, <2>4
<1> QED BY <1>1 DEF FrameOf

LEMMA MeaningIs ==
    ASSUME NEW m, NEW s \in Seq(Activation), Frozen(m, s), Len(s) >= 1,
           m \in Seq(Value), s[Len(s)].fp <= Len(m)
    PROVE  LinkedIn(m, s) = Meaning(s)
<1> SUFFICES ASSUME NEW i \in 1..Len(s), i # 1
             PROVE  FrameOf(s, LinkIn(m, s[i].fp)) = s[i].env[Outer[s[i].fn]]
    BY DEF LinkedIn, Meaning, LinkMeant
<1> DEFINE o == s[i].env[Outer[s[i].fn]]
<1>1. /\ Framed(m, s, i) /\ s[i].fp >= 3 /\ o \in 1..Len(s)
      /\ s[i].fp \in Nat /\ s[i].fp <= s[Len(s)].fp
    <2>1. i > 1
        OBVIOUS
    <2> QED BY <2>1, FrozenAt
<1>2. m[s[i].fp - 2] = <<"fp", s[o].fp>>
    BY <1>1 DEF Framed
<1>3. s[i].fp - 2 \in DOMAIN m
    <2>1. Len(s) \in 1..Len(s)
        OBVIOUS
    <2>2. s[Len(s)].fp \in Nat /\ Len(m) \in Nat
        BY <2>1, FrozenAt
    <2> QED BY <1>1, <2>2
<1> HIDE DEF o
<1>4. LinkIn(m, s[i].fp) = s[o].fp
    BY <1>2, <1>3 DEF LinkIn, Address
<1> QED BY <1>1, <1>4, FrameOfIs DEF o

\* What the refinement mapping gives in a state of the invariant.
LEMMA LongEnough ==
    ASSUME NEW m, NEW a \in Activation, NEW k, NEW at, NEW g, AtPoint(m, a, k, at, g)
    PROVE  a.fp <= Len(m)
<1>1. /\ a.fp \in Nat /\ max_offset[a.fn] \in Nat /\ Words(a) \in Nat /\ Rest(a) \in 0..4
      /\ Top(a) = a.fp + max_offset[a.fn] + Words(a)
    BY Sizes
<1>2. Len(m) = Top(a) + (IF at = "call" THEN Rest(a) ELSE 0)
    BY DEF AtPoint
<1> QED BY <1>1, <1>2

LEMMA Mapped ==
    ASSUME IInv
    PROVE  /\ LinkedActs = Meaning(acts) /\ Len(LinkedActs) = n
           /\ Links!Running = LinkedActs[n]
           /\ \A j \in 1..n : FrameAt(acts[j].fp) = j
<1>1. /\ Len(acts) = n /\ n \in Nat /\ n >= 1 /\ acts \in Seq(Activation) /\ stack \in Seq(Value)
      /\ Running \in Activation /\ Running = acts[n] /\ Frozen(stack, acts)
    BY RunningIs
<1>2. Running.fp <= Len(stack)
    BY <1>1, LongEnough DEF IInv, Shape
<1>3. \A x : FrameAt(x) = FrameOf(acts, x) /\ Link(x) = LinkIn(stack, x)
    BY <1>1 DEF FrameAt, FrameOf, Link, LinkIn, Read
<1>4. LinkedActs = LinkedIn(stack, acts)
    BY <1>1, <1>3 DEF LinkedActs, LinkedIn
<1>5. LinkedIn(stack, acts) = Meaning(acts)
    BY <1>1, <1>2, MeaningIs
<1>6. \A j \in 1..n : FrameAt(acts[j].fp) = j
    BY <1>1, <1>3, FrameOfIs
<1>7. Len(LinkedActs) = n
    BY <1>1, <1>4, <1>5 DEF Meaning
<1> QED BY <1>4, <1>5, <1>6, <1>7 DEF Links!Running

LEMMA MappedNext ==
    ASSUME IInv'
    PROVE  /\ LinkedActs' = Meaning(acts')
           /\ \A j \in 1..n' : FrameOf(acts', acts'[j].fp) = j
           /\ FrameAt(rax)' = FrameOf(acts', rax')
<1>1. /\ Len(acts') = n' /\ n' \in 1..MaxActive /\ acts' \in Seq(Activation)
      /\ stack' \in Seq(Value) /\ Running' = acts'[n'] /\ Frozen(stack', acts')
      /\ AtPoint(stack', Running', n', pc', goal') /\ MaxActive \in Nat
    BY ProgramAssumption DEF IInv, Typed, Shape, n, Running
<1>2. n' \in Nat /\ n' >= 1 /\ Running' \in Activation
    BY <1>1
<1>3. acts'[n'].fp <= Len(stack')
    BY <1>1, <1>2, LongEnough
<1>4. FrameAt(rax)' = FrameOf(acts', rax')
    BY <1>1 DEF FrameAt, FrameOf, n
<1>5. LinkedActs' = LinkedIn(stack', acts')
    BY <1>1 DEF LinkedActs, LinkedIn, FrameAt, FrameOf, Link, LinkIn, Read, n
<1>6. LinkedIn(stack', acts') = Meaning(acts')
    BY <1>1, <1>2, <1>3, MeaningIs
<1>7. \A j \in 1..n' : FrameOf(acts', acts'[j].fp) = j
    BY <1>1, FrameOfIs
<1> QED BY <1>4, <1>5, <1>6, <1>7

LEMMA SameMeaning ==
    ASSUME NEW s, NEW t, Len(s) \in Nat, Len(t) = Len(s), SameFrames(s, t, Len(s))
    PROVE  Meaning(t) = Meaning(s)
    BY DEF SameFrames, Meaning, LinkMeant

LEMMA Stutters ==
    ASSUME IInv, IInv', n' = n, SameFrames(acts, acts', n), pc \in {"body", "pop"},
           pc' \in {"body", "pop"}, goal' = goal, hops' = hops
    PROVE  UNCHANGED Links!vars
<1>1. Len(acts) = n /\ n \in Nat /\ Len(acts') = n
    BY RunningIs DEF n
<1>2. LinkedActs' = LinkedActs
    BY <1>1, Mapped, MappedNext, SameMeaning
<1>3. ~Walking /\ ~Walking'
    BY DEF Walking
<1> QED BY <1>2, <1>3 DEF Links!vars

\* What a traversal's first step is in the mapping.
LEMMA SeekMapped ==
    ASSUME IInv, IInv', acts' = acts, NEW t \in Enclosing[Running.fn], Seek(t), Walking'
    PROVE  /\ LinkedActs' = LinkedActs
           /\ IF Depth[Links!Running.fn] = Depth[t]
                THEN FrameAt(rax)' = Len(LinkedActs) /\ hops' = 0
                ELSE /\ FrameAt(rax)' = Links!Running.link
                     /\ hops' = (Depth[Links!Running.fn] - 1) - Depth[t]
<1>1. /\ Len(acts) = n /\ n \in Nat /\ n >= 1 /\ n \in 1..n /\ Running = acts[n] /\ n' = n
      /\ Running.fn \in Functions /\ rbp = acts[n].fp /\ Known(acts, n)
    BY RunningIs DEF n
<1>2. LinkedActs' = LinkedActs
    BY <1>1, Mapped, MappedNext
<1>3. /\ LinkedActs = Meaning(acts) /\ Len(LinkedActs) = n /\ Links!Running = LinkedActs[n]
    BY Mapped
<1>4. Links!Running.fn = Running.fn /\ Links!Running.link = LinkMeant(acts, n)
    BY <1>1, <1>3 DEF Meaning
<1>5. \A j \in 1..n : FrameOf(acts, acts[j].fp) = j
    BY <1>1, MappedNext
<1>6. FrameAt(rax)' = FrameOf(acts, rax')
    BY MappedNext
<1>7. CASE Depth[Running.fn] = Depth[t]
    <2>1. rax' = acts[n].fp /\ hops' = 0
        BY <1>1, <1>7 DEF Seek
    <2> QED BY <1>1, <1>2, <1>3, <1>4, <1>5, <1>6, <1>7, <2>1
<1>8. CASE Depth[Running.fn] # Depth[t]
    <2>1. rax' = Link(rbp) /\ hops' = (Depth[Running.fn] - 1) - Depth[t]
        BY <1>8 DEF Seek
    <2>2. Running.fn # Module
        BY <1>1, <1>8, Outwards
    <2>3. n > 1
        BY <1>1, <2>2 DEF Known
    <2>4. /\ Link(acts[n].fp) = acts[acts[n].env[Outer[acts[n].fn]]].fp
          /\ acts[n].env[Outer[acts[n].fn]] \in 1..n
        BY <1>1, <2>3, LinkIs
    <2>5. FrameAt(rax)' = acts[n].env[Outer[acts[n].fn]]
        BY <1>1, <1>5, <1>6, <2>1, <2>4
    <2>6. LinkMeant(acts, n) = acts[n].env[Outer[acts[n].fn]]
        BY <2>3 DEF LinkMeant
    <2> QED BY <1>2, <1>4, <1>8, <2>1, <2>5, <2>6
<1> QED BY <1>7, <1>8

LEMMA MakeCallMapped ==
    ASSUME IInv, IInv', MakeCall PROVE \E g \in Functions : Links!Call(g)
<1>1. /\ pc = "body" /\ Running.calls # <<>> /\ Seek(Outer[call.fn]) /\ pc' = "call"
      /\ goal' = call.fn /\ acts' = acts
    BY DEF MakeCall
<1>2. Running \in Activation /\ Running.fn \in Functions /\ Running = acts[n] /\ n \in 1..n
      /\ Len(acts) = n
    BY RunningIs
<1>3. InTurn(Running)
    BY <1>1 DEF IInv, Shape, AtPoint
<1>4. call.fn \in Calls[Running.fn]
    BY <1>1, <1>2, <1>3, TurnIs DEF call
<1>5. call.fn \in Functions /\ Outer[call.fn] \in Enclosing[Running.fn] /\ call.fn \in Visible(Running.fn)
    BY <1>2, <1>4, Called
<1>6. Walking' /\ ~Walking
    BY <1>1 DEF Walking
<1>7. /\ LinkedActs' = LinkedActs
      /\ IF Depth[Links!Running.fn] = Depth[Outer[call.fn]]
           THEN FrameAt(rax)' = Len(LinkedActs) /\ hops' = 0
           ELSE /\ FrameAt(rax)' = Links!Running.link
                /\ hops' = (Depth[Links!Running.fn] - 1) - Depth[Outer[call.fn]]
    BY <1>1, <1>5, <1>6, SeekMapped
<1>8. Links!Running.fn = Running.fn
    BY <1>2, Mapped DEF Meaning
<1>9. call.fn \in Links!Visible(Links!Running.fn)
    BY <1>5, <1>8 DEF Links!Visible, Visible
<1>10. Links!Call(call.fn)
    BY <1>1, <1>6, <1>7, <1>9 DEF Links!Call, Links!Seek
<1> QED BY <1>5, <1>10

LEMMA FindMapped ==
    ASSUME IInv, IInv', NEW c \in Captures[Running.fn], Find(c[1], c[2], c[3])
    PROVE  \E h \in Functions : Links!Find(h)
<1>1. pc = "body" /\ Seek(c[1]) /\ pc' = "find" /\ goal' = c[1] /\ acts' = acts
    BY DEF Find
<1>2. Running.fn \in Functions /\ Running = acts[n] /\ n \in 1..n /\ Len(acts) = n
    BY RunningIs
<1>3. c[1] \in Enclosing[Running.fn] /\ c[1] \in Functions
    BY <1>2, Captured
<1>4. Walking' /\ ~Walking
    BY <1>1 DEF Walking
<1>5. /\ LinkedActs' = LinkedActs
      /\ IF Depth[Links!Running.fn] = Depth[c[1]]
           THEN FrameAt(rax)' = Len(LinkedActs) /\ hops' = 0
           ELSE /\ FrameAt(rax)' = Links!Running.link
                /\ hops' = (Depth[Links!Running.fn] - 1) - Depth[c[1]]
    BY <1>1, <1>3, <1>4, SeekMapped
<1>6. Links!Running.fn = Running.fn
    BY <1>2, Mapped DEF Meaning
<1>7. Links!Find(c[1])
    BY <1>1, <1>3, <1>4, <1>5, <1>6 DEF Links!Find, Links!Seek
<1> QED BY <1>3, <1>7

LEMMA HopMapped == ASSUME IInv, IInv', Hop PROVE Links!Hop
<1>1. /\ pc \in {"call", "find"} /\ hops > 0 /\ rax' = Link(rax) /\ hops' = hops - 1
      /\ acts' = acts /\ pc' = pc /\ goal' = goal
    BY DEF Hop
<1>2. Walking /\ Walking'
    BY <1>1 DEF Walking
<1>3. /\ Len(acts) = n /\ n \in Nat /\ n' = n /\ Running = acts[n] /\ acts \in Seq(Activation)
      /\ Frozen(stack, acts)
    BY <1>1, RunningIs DEF n
<1>4. PICK j \in 1..n : Reached(acts, Target(pc, goal), j, rax, hops)
    BY <1>2, <1>3 DEF IInv, Shape, Traverses
<1>5. Known(acts, j) /\ acts[j].fn \in Functions
    BY <1>3, FrozenAt DEF Known
<1>6. Target(pc, goal) \in Enclosing[acts[j].fn] /\ rax = acts[j].fp
      /\ hops = Depth[acts[j].fn] - Depth[Target(pc, goal)]
    BY <1>4 DEF Reached
<1>7. Depth[acts[j].fn] # Depth[Target(pc, goal)]
    <2>1. Depth[acts[j].fn] \in Nat /\ Depth[Target(pc, goal)] \in Nat
        BY <1>5, <1>6, DepthAssumption
    <2> QED BY <1>1, <1>6, <2>1
<1>8. j > 1
    <2>1. acts[j].fn # Module
        BY <1>5, <1>6, <1>7, Outwards
    <2> QED BY <1>3, <1>5, <2>1 DEF Known
<1>9. /\ Link(acts[j].fp) = acts[acts[j].env[Outer[acts[j].fn]]].fp
      /\ acts[j].env[Outer[acts[j].fn]] \in 1..n
    BY <1>8, LinkIs
<1>10. LinkedActs' = LinkedActs /\ LinkedActs = Meaning(acts)
    BY <1>1, Mapped, MappedNext
<1>11. LinkedActs[j].link = acts[j].env[Outer[acts[j].fn]]
    BY <1>3, <1>8, <1>10 DEF Meaning, LinkMeant
<1>12. FrameAt(rax) = j
    BY <1>6, Mapped
<1>13. FrameAt(rax)' = LinkedActs[j].link
    <2>1. rax' = acts[acts[j].env[Outer[acts[j].fn]]].fp
        BY <1>1, <1>6, <1>9
    <2>2. FrameAt(rax)' = FrameOf(acts, rax')
        BY <1>1, MappedNext
    <2>3. FrameOf(acts, acts[acts[j].env[Outer[acts[j].fn]]].fp) = acts[j].env[Outer[acts[j].fn]]
        BY <1>3, <1>9, FrameOfIs
    <2> QED BY <1>11, <2>1, <2>2, <2>3
<1> QED BY <1>1, <1>2, <1>10, <1>12, <1>13 DEF Links!Hop

LEMMA FoundMapped == ASSUME IInv, IInv', Found PROVE Links!Found
<1>1. /\ pc = "find" /\ hops = 0 /\ pc' = "body" /\ goal' = Module /\ rax' = 0 /\ hops' = 0
      /\ acts' = acts
    BY DEF Found, Idle
<1>2. Walking /\ ~Walking'
    BY <1>1 DEF Walking
<1>3. LinkedActs' = LinkedActs
    BY <1>1, Mapped, MappedNext
<1> QED BY <1>1, <1>2, <1>3 DEF Links!Found, Links!Idle

LEMMA EnterMapped == ASSUME IInv, IInv', Enter PROVE Links!Enter
<1>1. PICK g, w, b, q : EnterIs(g, w, b, q)
    BY EnterDoes
<1>2. pc = "call" /\ hops = 0 /\ pc' = "body" /\ goal' = Module /\ rax' = 0 /\ hops' = 0
    BY DEF Enter, Idle
<1>3. /\ Len(acts) = n /\ n \in Nat /\ n >= 1 /\ n \in 1..n /\ Running = acts[n]
      /\ acts \in Seq(Activation) /\ Frozen(stack, acts) /\ Known(acts, n)
      /\ Running.fn \in Functions
    BY RunningIs
<1>4. /\ acts' \in Seq(Activation) /\ Len(acts') = n + 1 /\ acts'[n] = w /\ acts'[n + 1] = b
      /\ \A i \in 1..n : i # n => acts'[i] = acts[i]
      /\ w.fn = Running.fn /\ w.env = Running.env /\ n < MaxActive
      /\ AtCall(Running, g) /\ g = Turn(Running).fn /\ g \in Calls[Running.fn] /\ b.fn = g
      /\ b.env = [h \in Functions |-> IF h = g THEN n + 1
                                      ELSE IF h \in Enclosing[g] THEN Running.env[h] ELSE 0]
    BY <1>1 DEF EnterIs, SamePlace
<1>5. goal = g
    BY <1>2, <1>4 DEF IInv, Shape, AtPoint, AtCall
<1>6. /\ g # Module /\ g \in Functions /\ Outer[g] \in Enclosing[Running.fn] /\ Outer[g] \in Functions
      /\ Outer[g] \in Enclosing[g] /\ Outer[g] # g
    <2>1. g # Module /\ g \in Functions /\ Outer[g] \in Enclosing[Running.fn]
        BY <1>3, <1>4, Called
    <2> QED BY <2>1, Surroundings, NestingAssumption
<1>7. FrameAt(rax) = Running.env[Outer[g]]
    <2>1. Traverses(acts, Outer[g], rax, 0)
        BY <1>2, <1>5 DEF IInv, Shape, Walking, Target
    <2>2. rax = acts[Running.env[Outer[g]]].fp /\ Running.env[Outer[g]] \in 1..n
        BY <2>1, Arrived
    <2> QED BY <2>2, Mapped
<1>8. b.env[Outer[g]] = Running.env[Outer[g]]
    BY <1>4, <1>6
<1> DEFINE e == [fn |-> g, link |-> Running.env[Outer[g]], env |-> b.env]
<1>9. Meaning(acts') = Append(Meaning(acts), e)
    <2>1. /\ \A i \in 1..n : acts'[i].fn = acts[i].fn /\ acts'[i].env = acts[i].env
        BY <1>3, <1>4
    <2>2. \A i \in 1..n : LinkMeant(acts', i) = LinkMeant(acts, i)
        BY <2>1 DEF LinkMeant
    <2>3. LinkMeant(acts', n + 1) = Running.env[Outer[g]]
        BY <1>3, <1>4, <1>8 DEF LinkMeant
    <2>4. PICK u : u = Meaning(acts)
        OBVIOUS
    <2>5. /\ u = [i \in 1..n |-> [fn |-> acts[i].fn, env |-> acts[i].env, link |-> LinkMeant(acts, i)]]
        BY <1>3, <2>4 DEF Meaning
    <2>6. Meaning(acts') = [i \in 1..(n + 1) |-> [fn |-> acts'[i].fn, env |-> acts'[i].env,
                                                 link |-> LinkMeant(acts', i)]]
        BY <1>4 DEF Meaning
    <2>7. Append(u, e) = [i \in 1..(n + 1) |-> IF i <= n THEN u[i] ELSE e]
        BY <1>3, <2>5
    <2>8. \A i \in 1..(n + 1) : [fn |-> acts'[i].fn, env |-> acts'[i].env, link |-> LinkMeant(acts', i)]
                                  = IF i <= n THEN u[i] ELSE e
        <3> TAKE i \in 1..(n + 1)
        <3>1. CASE i <= n
            BY <1>3, <2>1, <2>2, <2>5, <3>1
        <3>2. CASE i = n + 1
            BY <1>3, <1>4, <2>3, <3>2, SMTT(30)
        <3> QED BY <1>3, <3>1, <3>2
    <2> QED BY <2>4, <2>6, <2>7, <2>8
<1>10. LinkedActs' = Append(LinkedActs, e) /\ Len(LinkedActs) = n /\ Links!Running = LinkedActs[n]
       /\ LinkedActs = Meaning(acts)
    BY <1>9, Mapped, MappedNext
<1>11. Links!Running.env = Running.env
    BY <1>3, <1>10 DEF Meaning
<1>12. e = [fn |-> goal, link |-> FrameAt(rax),
            env |-> [h \in Functions |->
                       IF h = goal THEN Len(LinkedActs) + 1
                       ELSE IF h \in Enclosing[goal] THEN Links!Running.env[h] ELSE 0]]
    BY <1>4, <1>5, <1>7, <1>10, <1>11
<1>13. Walking /\ ~Walking'
    BY <1>2 DEF Walking
<1> HIDE DEF e
<1> QED BY <1>2, <1>4, <1>10, <1>12, <1>13 DEF Links!Enter, Links!Idle

LEMMA ReturnMapped == ASSUME IInv, IInv', Return PROVE Links!Return
<1>1. PICK f, a, w : ReturnIs(f, a, w)
    BY ReturnDoes
<1>2. goal' = goal /\ rax' = rax /\ hops' = hops
    BY DEF Return
<1>3. /\ Len(acts) = n /\ n \in Nat /\ n >= 1 /\ acts \in Seq(Activation)
    BY RunningIs
<1>4. /\ Len(acts') = n - 1 /\ acts'[n - 1] = w /\ \A i \in 1..n - 2 : acts'[i] = acts[i]
      /\ n > 1 /\ a = acts[n - 1] /\ w.fn = a.fn /\ w.env = a.env
      /\ pc = "body" /\ pc' \in {"body", "pop"}
    BY <1>1 DEF ReturnIs, SamePlace
<1>5. \A i \in 1..n - 1 : acts'[i].fn = acts[i].fn /\ acts'[i].env = acts[i].env
    <2> TAKE i \in 1..n - 1
    <2>1. i = n - 1 \/ i \in 1..n - 2
        BY <1>3
    <2> QED BY <1>4, <2>1
<1>6. Meaning(acts') = SubSeq(Meaning(acts), 1, n - 1)
    <2>1. \A i \in 1..n - 1 : LinkMeant(acts', i) = LinkMeant(acts, i)
        BY <1>5 DEF LinkMeant
    <2>2. PICK u : u = Meaning(acts)
        OBVIOUS
    <2>3. u = [i \in 1..n |-> [fn |-> acts[i].fn, env |-> acts[i].env, link |-> LinkMeant(acts, i)]]
        BY <1>3, <2>2 DEF Meaning
    <2>4. Meaning(acts') = [i \in 1..n - 1 |-> [fn |-> acts'[i].fn, env |-> acts'[i].env,
                                               link |-> LinkMeant(acts', i)]]
        BY <1>4 DEF Meaning
    <2>5. SubSeq(u, 1, n - 1) = [i \in 1..n - 1 |-> u[i]]
        BY <1>3, <1>4, <2>3
    <2>6. \A i \in 1..n - 1 : u[i] = [fn |-> acts'[i].fn, env |-> acts'[i].env,
                                      link |-> LinkMeant(acts', i)]
        BY <1>3, <1>5, <2>1, <2>3
    <2> QED BY <2>2, <2>4, <2>5, <2>6
<1>7. LinkedActs' = SubSeq(LinkedActs, 1, Len(LinkedActs) - 1) /\ Len(LinkedActs) = n
    BY <1>6, Mapped, MappedNext
<1>8. ~Walking /\ ~Walking'
    BY <1>4 DEF Walking
<1> QED BY <1>2, <1>4, <1>7, <1>8 DEF Links!Return

\* A step of the running activation that the mapping does not show.
LEMMA LocalStutters ==
    ASSUME IInv, IInv', NEW a, SamePlace(Running, a), Replaced(acts', acts, n, a),
           pc \in {"body", "pop"}, pc' \in {"body", "pop"}, goal' = goal, hops' = hops
    PROVE  UNCHANGED Links!vars
<1>1. Len(acts) = n /\ n \in Nat /\ n \in 1..n /\ Running = acts[n]
    BY RunningIs
<1>2. Len(acts') = n /\ acts'[n] = a /\ \A i \in 1..n : i # n => acts'[i] = acts[i]
    BY <1>1 DEF Replaced
<1>3. n' = n
    BY <1>2 DEF n
<1>4. SameFrames(acts, acts', n)
    <2> SUFFICES ASSUME NEW i \in 1..n
                 PROVE  acts'[i].fn = acts[i].fn /\ acts'[i].env = acts[i].env
                        /\ acts'[i].fp = acts[i].fp
        BY DEF SameFrames
    <2>1. CASE i = n
        BY <2>1, <1>1, <1>2 DEF SamePlace
    <2>2. CASE i # n
        BY <2>2, <1>2
    <2> QED BY <2>1, <2>2
<1> QED BY <1>3, <1>4, Stutters

\* A step of which the mapping shows nothing changes no activation, or only
\* what the running one holds.
LEMMA UpdateStutters ==
    ASSUME IInv, IInv', NEW x,
           acts' = acts \/ acts' = [acts EXCEPT ![n].holds = x]
             \/ acts' = [acts EXCEPT ![n].declared = x] \/ acts' = [acts EXCEPT ![n].calls = x],
           pc \in {"body", "pop"}, pc' = pc, goal' = goal, hops' = hops
    PROVE  UNCHANGED Links!vars
<1>1. Len(acts) = n /\ n \in Nat /\ n \in 1..n /\ acts \in Seq(Activation)
    BY RunningIs
<1>2. acts[n] \in Activation
    BY <1>1
<1>3. \A i \in 1..n : /\ acts'[i].fn = acts[i].fn /\ acts'[i].env = acts[i].env
                      /\ acts'[i].fp = acts[i].fp
    <2>1. PICK a \in Activation : a = acts[n]
        BY <1>2
    <2>2. CASE acts' = acts
        BY <2>2
    <2>3. CASE acts' = [acts EXCEPT ![n].holds = x]
        <3>1. PICK b : b = [a EXCEPT !.holds = x]
            OBVIOUS
        <3>2. b.fn = a.fn /\ b.env = a.env /\ b.fp = a.fp
            BY <3>1 DEF Activation
        <3>3. acts' = [acts EXCEPT ![n] = b]
            BY <1>1, <2>1, <2>3, <3>1
        <3> QED BY <1>1, <2>1, <3>2, <3>3
    <2>4. CASE acts' = [acts EXCEPT ![n].declared = x]
        <3>1. PICK b : b = [a EXCEPT !.declared = x]
            OBVIOUS
        <3>2. b.fn = a.fn /\ b.env = a.env /\ b.fp = a.fp
            BY <3>1 DEF Activation
        <3>3. acts' = [acts EXCEPT ![n] = b]
            BY <1>1, <2>1, <2>4, <3>1
        <3> QED BY <1>1, <2>1, <3>2, <3>3
    <2>5. CASE acts' = [acts EXCEPT ![n].calls = x]
        <3>1. PICK b : b = [a EXCEPT !.calls = x]
            OBVIOUS
        <3>2. b.fn = a.fn /\ b.env = a.env /\ b.fp = a.fp
            BY <3>1 DEF Activation
        <3>3. acts' = [acts EXCEPT ![n] = b]
            BY <1>1, <2>1, <2>5, <3>1
        <3> QED BY <1>1, <2>1, <3>2, <3>3
    <2> QED BY <2>2, <2>3, <2>4, <2>5
<1>4. Len(acts') = n
    BY <1>1
<1>5. n' = n
    BY <1>4 DEF n
<1> QED BY <1>3, <1>5, Stutters DEF SameFrames

LEMMA NextMapped == ASSUME Balanced, IInv, IInv', [Next]_vars PROVE [Links!Next]_(Links!vars)
<1>1. ASSUME NEW c \in Registers, Compute(c) PROVE UNCHANGED Links!vars
    <2>1. PICK x : acts' = [acts EXCEPT ![n].holds = x]
        BY <1>1 DEF Compute
    <2> QED BY <1>1, <2>1, UpdateStutters DEF Compute
<1>2. ASSUME NEW c \in Registers, Argument(c) PROVE UNCHANGED Links!vars
    <2>1. PICK k, g, a, r : ArgumentIs(c, k, g, a, r)
        BY <1>2, ArgumentDoes
    <2>2. pc = "body" /\ pc' = pc /\ goal' = goal /\ hops' = hops
        BY <1>2 DEF Argument
    <2> QED BY <2>1, <2>2, LocalStutters DEF ArgumentIs
<1>3. ASSUME NEW v \in Variables(Running.fn), Declare(v) PROVE UNCHANGED Links!vars
    <2>1. PICK x : acts' = [acts EXCEPT ![n].declared = x]
        BY <1>3 DEF Declare
    <2> QED BY <1>3, <2>1, UpdateStutters DEF Declare
<1>4. ASSUME NEW c \in Captures[Running.fn], Find(c[1], c[2], c[3]) PROVE Links!Next
    BY <1>4, FindMapped DEF Links!Next
<1>5. ASSUME NEW g \in Functions, StartCall(g) PROVE UNCHANGED Links!vars
    <2>1. PICK x : acts' = [acts EXCEPT ![n].calls = x]
        BY <1>5 DEF StartCall
    <2> QED BY <1>5, <2>1, UpdateStutters DEF StartCall
<1>6. CASE Divide
    BY <1>6, UpdateStutters DEF Divide
<1>7. CASE PrintValue
    BY <1>7, UpdateStutters DEF PrintValue
<1>8. CASE DeclareArray
    BY <1>8, UpdateStutters DEF DeclareArray
<1>9. CASE MakeCall
    BY <1>9, MakeCallMapped DEF Links!Next
<1>10. CASE Hop
    BY <1>10, HopMapped DEF Links!Next
<1>11. CASE Enter
    BY <1>11, EnterMapped DEF Links!Next
<1>12. CASE Return
    BY <1>12, ReturnMapped DEF Links!Next
<1>13. CASE PopParam
    <2>1. PICK k, b : PopIs(k, b)
        BY <1>13, PopDoes
    <2>2. pc = "pop" /\ pc' \in {"body", "pop"} /\ goal' = goal /\ hops' = hops
        BY <1>13 DEF PopParam
    <2> QED BY <2>1, <2>2, LocalStutters DEF PopIs
<1>14. CASE Found
    BY <1>14, FoundMapped DEF Links!Next
<1>15. CASE UNCHANGED vars
    BY <1>15 DEF vars, Links!vars, LinkedActs, FrameAt, Link, Read, Walking, n
<1>16. CASE NextSegment
    BY <1>15, <1>16, NextSegmentIs
<1>17. ASSUME NEW c \in Registers, PrintString(c) PROVE UNCHANGED Links!vars
    <2>1. PICK a : PrintsString(c, a)
        BY <1>17, PrintStringDoes
    <2> QED BY <2>1, LocalStutters DEF PrintsString
<1> QED BY <1>1, <1>2, <1>3, <1>4, <1>5, <1>6, <1>7, <1>8, <1>9, <1>10, <1>11, <1>12,
           <1>13, <1>14, <1>15, <1>16, <1>17 DEF Next

LEMMA InitMapped == ASSUME Init PROVE Links!Init
<1>1. IInv
    BY InitIInv
<1>2. /\ acts = << NewActivation(Module, 0, [h \in Functions |-> IF h = Module THEN 1 ELSE 0]) >>
      /\ pc = "body" /\ goal = Module /\ rax = 0 /\ hops = 0
    BY DEF Init
<1>3. n = 1
    BY <1>2 DEF n
<1>4. LinkedActs = [i \in 1..1 |-> [fn |-> Module, link |-> 0,
                      env |-> [h \in Functions |-> IF h = Module THEN 1 ELSE 0]]]
    BY <1>2, <1>3 DEF LinkedActs, NewActivation
<1>5. ~Walking
    BY <1>2 DEF Walking
<1> QED BY <1>2, <1>4, <1>5 DEF Links!Init

(***************************************************************************)
(* The code generator implements the static links: the word above the      *)
(* return address of every frame is the frame of the activation its        *)
(* function was declared in, and the loads that follow those words are the *)
(* traversals of StaticLinks, step by step.                                *)
(***************************************************************************)
THEOREM LinksFollowed == ASSUME Balanced PROVE Spec => FollowsLinks
<1>1. Init => Links!Init
    BY InitMapped
<1>2. IInv /\ IInv' /\ [Next]_vars => [Links!Next]_(Links!vars)
    BY NextMapped
<1>3. Spec => []IInv
    BY Inductive
<1> QED BY <1>1, <1>2, <1>3, PTL DEF Spec, FollowsLinks, Links!Spec

(***************************************************************************)
(* What the registers hold.  Between an activation that waits with a value *)
(* in a register and the first one after it that saves the register, every *)
(* function keeps it, and that one has the value in its frame.             *)
(***************************************************************************)
Unsaved(s, c, i, j) == \A k \in i + 1..j : c \notin SavedBy(s[k].fn)
Slot(a, c)          == a.fp + regs_used[a.fn] + 1 - c
TempOf(i, c)        == <<"temp", i, c>>

\* Up to the k-th activation, every value that is not in its register any
\* more is in the frame of the first activation that saves the register.
KeptAt(m, s, i, j, c, keeps) ==
    /\ c \in keeps[s[j].fn]
    /\ c \in SavedBy(s[j].fn) => m[Slot(s[j], c)] = TempOf(i, c)
InFrames(m, s, k, keeps) ==
    \A i, j \in 1..k : \A c \in s[i].holds :
      i < j /\ Unsaved(s, c, i, j - 1) => KeptAt(m, s, i, j, c, keeps)
InRegisterOf(r, s, k) ==
    \A i \in 1..k : \A c \in s[i].holds : Unsaved(s, c, i, k) => r[c] = TempOf(i, c)

Temps(keeps) == InFrames(stack, acts, n, keeps) /\ InRegisterOf(reg, acts, n)

\* The words that hold the values of others are the same in p.
SameSlots(m, p, s, k) ==
    \A i, j \in 1..k : \A c \in SavedBy(s[j].fn) :
      i < j /\ m[Slot(s[j], c)] = TempOf(i, c) => p[Slot(s[j], c)] = TempOf(i, c)

\* Activations 1..k of t hold no more than those of s; the last may.
HoldNoMore(s, t, k) == \A i \in 1..k - 1 : t[i].holds \subseteq s[i].holds

LEMMA SavedRegister ==
    ASSUME NEW f \in Functions, NEW c \in SavedBy(f)
    PROVE  /\ c \in 1..regs_used[f] /\ c \in 1..MAX_REG /\ regs_used[f] \in Nat
           /\ Variables(f) # {} => c > 1
           /\ max_offset[f] \in Nat /\ max_offset[f] >= regs_used[f]
<1>1. LaidOut(f) /\ MAX_REG \in Nat
    BY Layout, SegmentAssumption
<1>2. c \in 1..regs_used[f] /\ (Variables(f) # {} => c > 1)
    <2>1. regs_used[f] \in Nat
        BY <1>1 DEF LaidOut
    <2> QED BY <2>1 DEF SavedBy
<1>3. regs_used[f] \in 0..MAX_REG /\ CG_offset(f) \in Nat /\ CG_offset(f) >= regs_used[f]
      /\ max_offset[f] = CG_offset(f) + declared[f] /\ declared[f] \in Nat
    BY <1>1 DEF LaidOut
<1> QED BY <1>1, <1>2, <1>3

\* A saved register's word is within the frame that saves it.
LEMMA SlotAt ==
    ASSUME NEW m, NEW s \in Seq(Activation), Frozen(m, s), NEW j \in 1..Len(s),
           NEW c \in SavedBy(s[j].fn)
    PROVE  /\ Slot(s[j], c) \in Nat /\ Slot(s[j], c) > s[j].fp
           /\ Slot(s[j], c) <= s[j].fp + max_offset[s[j].fn]
           /\ \A k \in 1..Len(s) : j < k => Slot(s[j], c) < s[k].fp
<1>1. s[j] \in Activation
    OBVIOUS
<1>2. /\ s[j].fn \in Functions /\ s[j].fp \in Nat /\ max_offset[s[j].fn] \in Nat
      /\ Words(s[j]) \in Nat /\ Rest(s[j]) \in 0..4
      /\ Top(s[j]) = s[j].fp + max_offset[s[j].fn] + Words(s[j])
    BY <1>1, Sizes
<1>3. c \in 1..regs_used[s[j].fn] /\ regs_used[s[j].fn] \in Nat
      /\ max_offset[s[j].fn] >= regs_used[s[j].fn]
    BY <1>2, SavedRegister
<1>4. PICK fp \in Nat, max \in Nat, used \in Nat, words \in Nat, rest \in Nat :
        /\ fp = s[j].fp /\ max = max_offset[s[j].fn] /\ used = regs_used[s[j].fn]
        /\ words = Words(s[j]) /\ rest = Rest(s[j])
    <2>1. Rest(s[j]) \in Nat
        BY <1>2
    <2> QED BY <1>2, <1>3, <2>1
<1>5. c \in Nat /\ c >= 1 /\ c <= used /\ used <= max /\ Slot(s[j], c) = fp + used + 1 - c
    BY <1>3, <1>4 DEF Slot
<1>6. Slot(s[j], c) \in Nat /\ Slot(s[j], c) > fp /\ Slot(s[j], c) <= fp + max
    BY <1>5
<1>7. ASSUME NEW k \in 1..Len(s), j < k PROVE Slot(s[j], c) < s[k].fp
    <2>1. Top(s[j]) + Rest(s[j]) + 3 <= s[k].fp
        BY <1>7, FramesRise DEF Frozen
    <2>2. s[k].fp \in Nat
        BY FrozenAt
    <2>3. fp + max + words + rest + 3 <= s[k].fp
        BY <1>2, <1>4, <2>1
    <2>4. PICK top \in Nat, x \in Nat : top = s[k].fp /\ x = Slot(s[j], c)
        BY <1>6, <2>2
    <2>5. fp + max + words + rest + 3 <= top /\ x <= fp + max
        BY <1>6, <2>3, <2>4
    <2>6. x < top
        BY <2>5
    <2> QED BY <2>4, <2>6
<1> QED BY <1>4, <1>6, <1>7

\* The words up to the end of the last frame include all of them.
LEMMA SlotsBelow ==
    ASSUME NEW m, NEW p, NEW s \in Seq(Activation), Frozen(m, s), NEW k \in 1..Len(s),
           NEW l \in Nat, l >= s[k].fp + max_offset[s[k].fn],
           \A x \in 1..l : p[x] = m[x]
    PROVE  SameSlots(m, p, s, k)
<1> SUFFICES ASSUME NEW i \in 1..k, NEW j \in 1..k, NEW c \in SavedBy(s[j].fn)
             PROVE  p[Slot(s[j], c)] = m[Slot(s[j], c)]
    BY DEF SameSlots
<1>1. j \in 1..Len(s) /\ s[j] \in Activation /\ s[k] \in Activation
    OBVIOUS
<1>2. /\ s[k].fp \in Nat /\ s[j].fp \in Nat /\ max_offset[s[k].fn] \in Nat
      /\ max_offset[s[j].fn] \in Nat
    BY <1>1, Sizes
<1>3. /\ Slot(s[j], c) \in Nat /\ Slot(s[j], c) > s[j].fp
      /\ Slot(s[j], c) <= s[j].fp + max_offset[s[j].fn]
      /\ j < k => Slot(s[j], c) < s[k].fp
    BY <1>1, SlotAt
<1>4. PICK fp \in Nat, max \in Nat, low \in Nat :
        fp = s[k].fp /\ max = max_offset[s[k].fn] /\ low = s[j].fp
    BY <1>2
<1>5. Slot(s[j], c) <= fp + max /\ Slot(s[j], c) > low /\ fp + max <= l
    <2>1. CASE j = k
        BY <1>3, <1>4, <2>1
    <2>2. CASE j < k
        BY <1>3, <1>4, <2>2
    <2> QED BY <2>1, <2>2
<1>6. Slot(s[j], c) \in 1..l
    <2>1. PICK x \in Nat : x = Slot(s[j], c)
        BY <1>3
    <2>2. x > low /\ x <= fp + max /\ fp + max <= l
        BY <1>5, <2>1
    <2>3. x \in 1..l
        BY <2>2
    <2> QED BY <2>1, <2>3
<1> QED BY <1>6

LEMMA InFramesKept ==
    ASSUME NEW m, NEW p, NEW s, NEW t, NEW k \in Nat, NEW keeps, InFrames(m, s, k, keeps),
           SameFrames(s, t, k), HoldNoMore(s, t, k), SameSlots(m, p, s, k)
    PROVE  InFrames(p, t, k, keeps)
<1> SUFFICES ASSUME NEW i \in 1..k, NEW j \in 1..k, NEW c \in t[i].holds,
                    i < j, Unsaved(t, c, i, j - 1)
             PROVE  KeptAt(p, t, i, j, c, keeps)
    BY DEF InFrames
<1>1. i \in 1..k - 1 /\ c \in s[i].holds
    BY DEF HoldNoMore
<1>2. /\ t[j].fn = s[j].fn /\ t[j].fp = s[j].fp
      /\ \A x \in i + 1..j - 1 : t[x].fn = s[x].fn
    BY DEF SameFrames
<1>3. Unsaved(s, c, i, j - 1)
    BY <1>2 DEF Unsaved
<1>4. KeptAt(m, s, i, j, c, keeps)
    BY <1>1, <1>3 DEF InFrames
<1>5. Slot(t[j], c) = Slot(s[j], c)
    BY <1>2 DEF Slot
<1> QED BY <1>2, <1>4, <1>5 DEF KeptAt, SameSlots

\* A step of the running activation that computes nothing.
LEMMA TempsStay ==
    ASSUME IInv, NEW keeps, Temps(keeps), NEW a, SamePlace(Running, a), a.holds = Running.holds,
           Replaced(acts', acts, n, a), SameSlots(stack, stack', acts, n),
           \A c \in 1..MAX_REG : reg'[c] = reg[c]
    PROVE  Temps(keeps)'
<1>1. /\ Len(acts) = n /\ n \in Nat /\ n \in 1..n /\ Running = acts[n]
      /\ acts \in Seq(Activation)
    BY RunningIs
<1>2. /\ acts' \in Seq(Activation) /\ Len(acts') = n /\ acts'[n] = a
      /\ \A i \in 1..n : i # n => acts'[i] = acts[i]
    BY <1>1 DEF Replaced
<1>3. n' = n
    BY <1>2 DEF n
<1>4. \A i \in 1..n : /\ acts'[i].fn = acts[i].fn /\ acts'[i].env = acts[i].env
                      /\ acts'[i].fp = acts[i].fp /\ acts'[i].holds = acts[i].holds
    <2> TAKE i \in 1..n
    <2>1. CASE i = n
        BY <2>1, <1>1, <1>2 DEF SamePlace
    <2>2. CASE i # n
        BY <2>2, <1>2
    <2> QED BY <2>1, <2>2
<1>5. SameFrames(acts, acts', n)
    BY <1>4 DEF SameFrames
<1>6. HoldNoMore(acts, acts', n)
    <2>1. \A i \in 1..n - 1 : i \in 1..n
        BY <1>1
    <2> QED BY <1>4, <2>1 DEF HoldNoMore
<1>7. InFrames(stack', acts', n, keeps)
    BY <1>1, <1>5, <1>6, InFramesKept DEF Temps
<1>8. ASSUME NEW i \in 1..n, NEW c \in acts'[i].holds, Unsaved(acts', c, i, n)
      PROVE  reg'[c] = TempOf(i, c)
    <2>1. c \in acts[i].holds /\ \A x \in i + 1..n : acts'[x].fn = acts[x].fn
        BY <1>4
    <2>2. Unsaved(acts, c, i, n)
        BY <1>8, <2>1 DEF Unsaved
    <2>3. reg[c] = TempOf(i, c)
        BY <2>1, <2>2 DEF Temps, InRegisterOf
    <2>4. c \in 1..MAX_REG
        <3>1. acts[i] \in Activation
            BY <1>1
        <3> QED BY <2>1, <3>1 DEF Activation
    <2> QED BY <2>3, <2>4
<1>9. InRegisterOf(reg', acts', n)
    BY <1>8 DEF InRegisterOf
<1> QED BY <1>3, <1>7, <1>9 DEF Temps

\* A step that changes no activation, nor the frames.
LEMMA TempsStill ==
    ASSUME IInv, NEW keeps, Temps(keeps), acts' = acts,
           \A x \in 1..rbp + max_offset[Running.fn] : stack'[x] = stack[x],
           \A c \in 1..MAX_REG : reg'[c] = reg[c]
    PROVE  Temps(keeps)'
<1>1. /\ Len(acts) = n /\ n \in 1..n /\ Running = acts[n] /\ Running \in Activation
      /\ acts \in Seq(Activation) /\ Frozen(stack, acts)
      /\ rbp = Running.fp /\ rbp \in Nat /\ max_offset[Running.fn] \in Nat
    BY RunningIs
<1>2. SamePlace(Running, Running) /\ Replaced(acts', acts, n, Running)
    BY <1>1 DEF SamePlace, Replaced
<1>3. PICK l \in Nat : l = rbp + max_offset[Running.fn]
    BY <1>1
<1>4. SameSlots(stack, stack', acts, n)
    <2>1. l >= acts[n].fp + max_offset[acts[n].fn] /\ \A x \in 1..l : stack'[x] = stack[x]
        BY <1>1, <1>3
    <2> QED BY <1>1, <2>1, SlotsBelow
<1> QED BY <1>2, <1>4, TempsStay

LEMMA ComputeTemps ==
    ASSUME IInv, NEW keeps, Keeps(keeps), Temps(keeps), NEW c \in Registers, Compute(c)
    PROVE  Temps(keeps)'
<1> DEFINE a == [Running EXCEPT !.holds = @ \cup {c}]
<1>1. /\ c \in Written[Running.fn] /\ acts' = [acts EXCEPT ![n] = a] /\ stack' = stack
      /\ reg' = [reg EXCEPT ![c] = TempOf(n, c)]
    BY DEF Compute, Running, TempOf
<1>2. /\ n \in 1..n /\ Len(acts) = n /\ acts \in Seq(Activation) /\ n \in Nat
      /\ Running \in Activation /\ Running.fn \in Functions /\ Running = acts[n]
      /\ reg \in [Registers -> Value]
    BY RunningIs DEF IInv, Typed
<1>3. a.fn = Running.fn /\ a.fp = Running.fp /\ a.env = Running.env
      /\ a.holds = Running.holds \cup {c}
    BY <1>2 DEF Activation
<1> HIDE DEF a
<1>4. Len(acts') = n /\ acts'[n] = a /\ \A i \in 1..n : i # n => acts'[i] = acts[i]
    BY <1>1, <1>2
<1>5. n' = n
    BY <1>4 DEF n
<1>6. \A i \in 1..n : /\ acts'[i].fn = acts[i].fn /\ acts'[i].env = acts[i].env
                      /\ acts'[i].fp = acts[i].fp
    BY <1>2, <1>3, <1>4
<1>7. InFrames(stack', acts', n, keeps)
    <2>1. HoldNoMore(acts, acts', n) /\ SameFrames(acts, acts', n)
        BY <1>2, <1>4, <1>6 DEF HoldNoMore, SameFrames
    <2>2. SameSlots(stack, stack', acts, n)
        BY <1>1 DEF SameSlots
    <2> QED BY <1>2, <2>1, <2>2, InFramesKept DEF Temps
<1>8. ASSUME NEW i \in 1..n, NEW d \in acts'[i].holds, Unsaved(acts', d, i, n)
      PROVE  reg'[d] = TempOf(i, d)
    <2>1. Unsaved(acts, d, i, n)
        BY <1>6, <1>8 DEF Unsaved
    <2>2. CASE i = n /\ d = c
        <3>1. c \in Registers
            OBVIOUS
        <3> QED BY <1>1, <1>2, <2>2
    <2>3. CASE ~ (i = n /\ d = c)
        <3>1. d \in acts[i].holds
            BY <1>2, <1>3, <1>4, <1>8, <2>3
        <3>2. reg[d] = TempOf(i, d)
            BY <2>1, <3>1 DEF Temps, InRegisterOf
        <3>3. d # c
            <4>1. CASE i = n
                BY <2>3, <4>1
            <4>2. CASE i # n
                <5>1. i < n /\ Unsaved(acts, d, i, n - 1) /\ d \notin SavedBy(Running.fn)
                    BY <1>2, <2>1, <4>2 DEF Unsaved
                <5>2. KeptAt(stack, acts, i, n, d, keeps)
                    BY <1>2, <3>1, <5>1 DEF Temps, InFrames
                <5>3. d \in keeps[Running.fn] \ SavedBy(Running.fn)
                    BY <1>2, <5>1, <5>2 DEF KeptAt
                <5>4. d \notin Written[Running.fn]
                    BY <1>2, <5>3 DEF Keeps
                <5> QED BY <1>1, <5>4
            <4> QED BY <4>1, <4>2
        <3> QED BY <1>1, <3>2, <3>3
    <2> QED BY <2>2, <2>3
<1>9. InRegisterOf(reg', acts', n)
    BY <1>8 DEF InRegisterOf
<1> QED BY <1>5, <1>7, <1>9 DEF Temps

LEMMA DeclareTemps ==
    ASSUME Balanced, IInv, NEW keeps, Temps(keeps), NEW v \in Variables(Running.fn), Declare(v)
    PROVE  Temps(keeps)'
<1> DEFINE a == [Running EXCEPT !.declared = @ \cup {v}]
           o == Offset(Running.fn, "var", v)
<1>1. /\ acts' = [acts EXCEPT ![n] = a] /\ reg' = reg
      /\ stack' = [stack EXCEPT ![rbp + o] = <<"var", n, v>>]
    BY DEF Declare, Running
<1>2. /\ n \in 1..n /\ Len(acts) = n /\ acts \in Seq(Activation) /\ n \in Nat
      /\ Running \in Activation /\ Running.fn \in Functions /\ Running = acts[n]
      /\ rbp = Running.fp /\ rbp \in Nat /\ stack \in Seq(Value) /\ Len(stack) \in Nat
      /\ max_offset[Running.fn] \in Nat /\ Frozen(stack, acts) /\ Known(acts, n)
      /\ Len(stack) >= rbp + max_offset[Running.fn]
    BY RunningIs
<1>3. v \in Nat
    BY <1>2, Layout DEF LaidOut
<1>4. /\ a \in Activation /\ a.fn = Running.fn /\ a.env = Running.env /\ a.fp = Running.fp
      /\ a.holds = Running.holds
    BY <1>2, <1>3 DEF Activation
<1>5. o \in 1..max_offset[Running.fn] - 1 /\ o >= regs_used[Running.fn]
    BY <1>2, VariablePlaced
<1> HIDE DEF a, o
<1>6. SamePlace(Running, a) /\ Replaced(acts', acts, n, a)
    BY <1>1, <1>2, <1>4, ReplacedIs DEF SamePlace
<1>7. SameSlots(stack, stack', acts, n)
    <2> SUFFICES ASSUME NEW i \in 1..n, NEW j \in 1..n, NEW c \in SavedBy(acts[j].fn), i < j
                 PROVE  stack'[Slot(acts[j], c)] = stack[Slot(acts[j], c)]
        BY DEF SameSlots
    <2>1. /\ Slot(acts[j], c) \in Nat /\ Slot(acts[j], c) > acts[j].fp
          /\ Slot(acts[j], c) <= acts[j].fp + max_offset[acts[j].fn]
          /\ j < n => Slot(acts[j], c) < acts[n].fp
        BY <1>2, SlotAt
    <2>2. CASE j < n
        <3>1. Slot(acts[j], c) # rbp + o
            BY <1>2, <1>5, <2>1, <2>2
        <3> QED BY <1>1, <1>2, <3>1
    <2>3. CASE j = n
        <3>1. c \in 1..regs_used[Running.fn] /\ c > 1 /\ regs_used[Running.fn] \in Nat
            BY <1>2, <2>3, SavedRegister
        <3>2. Slot(acts[j], c) = rbp + regs_used[Running.fn] + 1 - c
            BY <1>2, <2>3 DEF Slot
        <3>3. PICK used \in Nat, fp \in Nat : used = regs_used[Running.fn] /\ fp = rbp
            BY <1>2, <3>1
        <3>4. c \in Nat /\ c > 1 /\ o \in Int /\ o >= used
            BY <1>5, <3>1, <3>3
        <3>5. Slot(acts[j], c) # rbp + o
            BY <3>2, <3>3, <3>4
        <3> QED BY <1>1, <1>2, <3>5
    <2> QED BY <1>2, <2>2, <2>3
<1> QED BY <1>1, <1>4, <1>6, <1>7, TempsStay

\* The steps that move parameters, and those that read links.
LEMMA OtherTemps ==
    ASSUME Balanced, IInv, NEW keeps, Temps(keeps),
           Divide \/ PrintValue \/ DeclareArray \/ MakeCall \/ Hop \/ Found
             \/ (\E c \in Captures[Running.fn] : Find(c[1], c[2], c[3]))
    PROVE  Temps(keeps)'
<1>1. /\ reg \in [Registers -> Value] /\ stack \in Seq(Value) /\ Len(stack) \in Nat
      /\ rbp \in Nat /\ max_offset[Running.fn] \in Nat /\ P \in Nat
      /\ Len(stack) >= rbp + max_offset[Running.fn] /\ Running \in Activation
    BY RunningIs DEF IInv, Typed
<1>2. \A c \in 1..MAX_REG : c \in Registers /\ c \notin ParamRegs
    BY ParamRegs4
<1>3. \A k \in 0..3 : ParamReg(k) \in ParamRegs
    BY ParamRegs4
<1>4. CASE Divide
    <2>1. acts' = acts /\ stack' = stack /\ \A c \in 1..MAX_REG : reg'[c] = reg[c]
        BY <1>1, <1>2, <1>3, <1>4 DEF Divide
    <2> QED BY <2>1, TempsStill
<1>5. CASE PrintValue
    BY <1>5, PrintedIs, TempsStill DEF PrintValue
<1>6. CASE DeclareArray
    <2>1. acts' = acts /\ stack' = stack
        BY <1>6, DeclareArrayIs DEF DeclareArray
    <2>2. PICK k \in {0, 2} : reg' = [c \in Registers |->
                                IF c \in {ParamReg(i) : i \in k..1} THEN Junk ELSE reg[c]]
        BY <1>6, DeclareArrayIs
    <2>3. \A i \in k..1 : ParamReg(i) \in ParamRegs
        <3>1. \A i \in k..1 : i \in 0..3
            OBVIOUS
        <3> QED BY <1>3, <3>1
    <2>4. \A c \in 1..MAX_REG : reg'[c] = reg[c]
        BY <1>2, <2>2, <2>3
    <2> QED BY <2>1, <2>4, TempsStill
<1>7. CASE MakeCall
    <2>1. /\ stack' = stack \o Saved(Running.count, Least(P, 4)) /\ reg' = reg /\ acts' = acts
        BY <1>7 DEF MakeCall
    <2>2. Running.count \in Nat /\ Least(P, 4) \in 0..4
        BY <1>1, Sizes DEF Least
    <2>3. Pushes(stack', stack, Saved(Running.count, Least(P, 4)))
        BY <1>1, <2>1, <2>2, SavedIs, PushesIs
    <2>4. \A x \in 1..rbp + max_offset[Running.fn] : stack'[x] = stack[x]
        BY <1>1, <2>3 DEF Pushes
    <2> QED BY <2>1, <2>4, TempsStill
<1>8. CASE Hop
    BY <1>8, TempsStill DEF Hop
<1>9. CASE Found
    BY <1>9, TempsStill DEF Found
<1>10. CASE \E c \in Captures[Running.fn] : Find(c[1], c[2], c[3])
    BY <1>10, TempsStill DEF Find
<1> QED BY <1>4, <1>5, <1>6, <1>7, <1>8, <1>9, <1>10

\* A string printed for the only time is no longer held.
LEMMA PrintStringTemps ==
    ASSUME IInv, NEW keeps, Keeps(keeps), Temps(keeps), NEW c \in Registers, PrintString(c)
    PROVE  Temps(keeps)'
<1>1. PICK a : PrintsString(c, a)
    BY PrintStringDoes
<1>2. /\ n \in 1..n /\ Len(acts) = n /\ acts \in Seq(Activation) /\ n \in Nat
      /\ Running \in Activation /\ Running = acts[n]
    BY RunningIs
<1>3. /\ acts' = [acts EXCEPT ![n] = a] /\ stack' = stack
      /\ c \in 1..MAX_REG /\ c \in Running.holds /\ a.holds = Running.holds \ {c}
      /\ a.fn = Running.fn /\ a.env = Running.env /\ a.fp = Running.fp
      /\ reg' = [Printed EXCEPT ![c] = Junk]
    BY <1>1 DEF PrintsString, SamePlace, Keeps
<1>4. Len(acts') = n /\ acts'[n] = a /\ \A i \in 1..n : i # n => acts'[i] = acts[i]
    BY <1>2, <1>3
<1>5. n' = n
    BY <1>4 DEF n
<1>6. \A i \in 1..n : /\ acts'[i].fn = acts[i].fn /\ acts'[i].env = acts[i].env
                      /\ acts'[i].fp = acts[i].fp /\ acts'[i].holds \subseteq acts[i].holds
    BY <1>2, <1>3, <1>4
<1>7. InFrames(stack', acts', n, keeps)
    <2>1. HoldNoMore(acts, acts', n) /\ SameFrames(acts, acts', n)
        <3>1. \A i \in 1..n - 1 : i \in 1..n
            BY <1>2
        <3> QED BY <1>6, <3>1 DEF HoldNoMore, SameFrames
    <2>2. SameSlots(stack, stack', acts, n)
        BY <1>3 DEF SameSlots
    <2> QED BY <1>2, <2>1, <2>2, InFramesKept DEF Temps
<1>8. ASSUME NEW i \in 1..n, NEW d \in acts'[i].holds, Unsaved(acts', d, i, n)
      PROVE  reg'[d] = TempOf(i, d)
    <2>1. Unsaved(acts, d, i, n) /\ d \in acts[i].holds
        BY <1>6, <1>8 DEF Unsaved
    <2>2. reg[d] = TempOf(i, d)
        BY <2>1 DEF Temps, InRegisterOf
    <2>3. d # c
        <3>1. CASE i = n
            BY <1>3, <1>4, <1>8, <3>1
        <3>2. CASE i # n
            <4>1. i < n /\ Unsaved(acts, d, i, n - 1) /\ d \notin SavedBy(Running.fn)
                BY <1>2, <2>1, <3>2 DEF Unsaved
            <4>2. KeptAt(stack, acts, i, n, d, keeps)
                BY <1>2, <2>1, <4>1 DEF Temps, InFrames
            <4>3. d \in keeps[Running.fn] \ SavedBy(Running.fn)
                BY <1>2, <4>1, <4>2 DEF KeptAt
            <4>4. Running.fn \in Functions
                BY <1>2 DEF Activation
            <4>5. d \notin Written[Running.fn]
                BY <4>3, <4>4 DEF Keeps
            <4>6. c \in Written[Running.fn]
                BY <1>2, <1>3 DEF IInv, Typed
            <4> QED BY <4>5, <4>6
        <3> QED BY <3>1, <3>2
    <2>4. d \in 1..MAX_REG
        <3>1. acts[i] \in Activation
            BY <1>2
        <3> QED BY <2>1, <3>1 DEF Activation
    <2>5. Printed[d] = reg[d] /\ d \in Registers /\ Printed \in [Registers -> Value]
        BY <2>4, PrintedIs, ParamRegs4
    <2> QED BY <1>3, <2>2, <2>3, <2>5
<1>9. InRegisterOf(reg', acts', n)
    BY <1>8 DEF InRegisterOf
<1> QED BY <1>5, <1>7, <1>9 DEF Temps

LEMMA StartCallTemps ==
    ASSUME IInv, NEW keeps, Temps(keeps), NEW g \in Functions, StartCall(g)
    PROVE  Temps(keeps)'
<1> DEFINE r == [fn |-> g, args |-> <<>>, pops |-> 0]
           d == Append(Running.calls, r)
           a == [Running EXCEPT !.calls = d]
<1>1. acts' = [acts EXCEPT ![n] = a] /\ stack' = stack /\ reg' = reg
    BY DEF StartCall, Running
<1>2. /\ n \in 1..n /\ Len(acts) = n /\ acts \in Seq(Activation)
      /\ Running \in Activation /\ Running = acts[n]
    BY RunningIs
<1>3. d \in Seq(CallRecord)
    <2>1. <<>> \in Seq(Value)
        BY EmptySeq, Zenon
    <2>2. r \in CallRecord
        BY <2>1 DEF CallRecord
    <2>3. Running.calls \in Seq(CallRecord)
        BY <1>2 DEF Activation
    <2> HIDE DEF r
    <2> QED BY <2>2, <2>3
<1> HIDE DEF d
<1>4. /\ a \in Activation /\ a.fn = Running.fn /\ a.env = Running.env /\ a.fp = Running.fp
      /\ a.holds = Running.holds
    BY <1>2, <1>3 DEF Activation
<1> HIDE DEF a
<1>5. SamePlace(Running, a) /\ Replaced(acts', acts, n, a)
    BY <1>1, <1>2, <1>4, ReplacedIs DEF SamePlace
<1>6. SameSlots(stack, stack', acts, n) /\ \A c \in 1..MAX_REG : reg'[c] = reg[c]
    BY <1>1 DEF SameSlots
<1> QED BY <1>4, <1>5, <1>6, TempsStay

LEMMA ArgumentTemps ==
    ASSUME Balanced, IInv, NEW keeps, Temps(keeps), NEW c \in Registers, Argument(c)
    PROVE  Temps(keeps)'
<1>1. PICK k, g, a, r : ArgumentIs(c, k, g, a, r)
    BY ArgumentDoes
<1>2. /\ n \in 1..n /\ Len(acts) = n /\ acts \in Seq(Activation) /\ Running = acts[n]
      /\ Frozen(stack, acts) /\ rbp = Running.fp /\ rbp \in Nat /\ max_offset[Running.fn] \in Nat
      /\ Len(stack) \in Nat /\ Len(stack) >= rbp + max_offset[Running.fn]
    BY RunningIs
<1>3. \A x \in 1..Len(stack) : stack'[x] = stack[x]
    BY <1>1 DEF ArgumentIs, Pushes
<1>4. SameSlots(stack, stack', acts, n)
    BY <1>2, <1>3, SlotsBelow
<1>5. ASSUME NEW d \in 1..MAX_REG PROVE reg'[d] = reg[d]
    <2>1. k \in Nat /\ (reg' = [reg EXCEPT ![ParamReg(k)] = reg[c]] \/ reg' = reg)
        BY <1>1 DEF ArgumentIs
    <2>2. d \in Registers /\ d # ParamReg(k)
        BY <2>1, ParamRegs4
    <2> QED BY <2>1, <2>2 DEF IInv, Typed
<1>6. SamePlace(Running, a) /\ a.holds = Running.holds /\ Replaced(acts', acts, n, a)
    BY <1>1 DEF ArgumentIs
<1> QED BY <1>4, <1>5, <1>6, TempsStay

LEMMA PopParamTemps ==
    ASSUME Balanced, IInv, NEW keeps, Temps(keeps), PopParam
    PROVE  Temps(keeps)'
<1>1. PICK k, b : PopIs(k, b)
    BY PopDoes
<1>2. /\ n \in 1..n /\ Len(acts) = n /\ acts \in Seq(Activation) /\ Running = acts[n]
      /\ Frozen(stack, acts) /\ rbp = Running.fp /\ rbp \in Nat /\ max_offset[Running.fn] \in Nat
    BY RunningIs
<1>3. \A x \in 1..Top(b) : stack'[x] = stack[x]
    BY <1>1 DEF PopIs, Prefix
<1>4. Top(b) \in Nat /\ Top(b) >= acts[n].fp + max_offset[acts[n].fn]
    BY <1>1, <1>2, Sizes DEF PopIs, SamePlace
<1>5. SameSlots(stack, stack', acts, n)
    BY <1>2, <1>3, <1>4, SlotsBelow
<1>6. ASSUME NEW d \in 1..MAX_REG PROVE reg'[d] = reg[d]
    <2>1. /\ k \in Nat /\ k >= 1
          /\ reg' = [reg EXCEPT ![ParamReg(k - 1)] = stack[Len(stack)]] \/ reg' = reg
        BY <1>1 DEF PopIs
    <2>2. k - 1 \in Nat
        BY <2>1
    <2>3. d \in Registers /\ d # ParamReg(k - 1)
        BY <2>2, ParamRegs4
    <2> QED BY <2>1, <2>3 DEF IInv, Typed
<1>7. SamePlace(Running, b) /\ b.holds = Running.holds /\ Replaced(acts', acts, n, b)
    BY <1>1 DEF PopIs
<1> QED BY <1>5, <1>6, <1>7, TempsStay

\* The function entered saves what it saves, and keeps the rest.
LEMMA EnterTemps ==
    ASSUME IInv, NEW keeps, Keeps(keeps), Temps(keeps), Enter
    PROVE  Temps(keeps)'
<1>1. PICK g, w, b, q : EnterIs(g, w, b, q)
    BY EnterDoes
<1>2. /\ n \in 1..n /\ Len(acts) = n /\ acts \in Seq(Activation) /\ n \in Nat
      /\ Running \in Activation /\ Running.fn \in Functions /\ Running = acts[n]
      /\ Frozen(stack, acts) /\ rbp = Running.fp /\ rbp \in Nat
      /\ max_offset[Running.fn] \in Nat /\ Len(stack) \in Nat
    BY RunningIs
<1>3. /\ Len(acts') = n + 1 /\ acts'[n] = w /\ acts'[n + 1] = b
      /\ \A i \in 1..n : i # n => acts'[i] = acts[i]
      /\ w.fn = Running.fn /\ w.env = Running.env /\ w.fp = Running.fp
      /\ w.holds = Running.holds \cap Live[Running.fn]
      /\ b.fn = g /\ b.fp = Len(stack) + 3 /\ b.holds = {} /\ g \in Calls[Running.fn]
    BY <1>1 DEF EnterIs, SamePlace
<1>4. g \in Functions /\ Params[g] \in Nat
    BY <1>2, <1>3, Called, ProgramAssumption
<1>5. n' = n + 1
    BY <1>3 DEF n
<1>6. \A i \in 1..n : /\ acts'[i].fn = acts[i].fn /\ acts'[i].env = acts[i].env
                      /\ acts'[i].fp = acts[i].fp /\ acts'[i].holds \subseteq acts[i].holds
    BY <1>2, <1>3
<1>7. ASSUME NEW i \in 1..n, NEW c \in acts'[i].holds
      PROVE  /\ c \in acts[i].holds /\ c \in 1..MAX_REG /\ c \in Registers
             /\ \A j \in 1..n : Unsaved(acts', c, i, j) <=> Unsaved(acts, c, i, j)
    <2>1. acts[i] \in Activation /\ c \in acts[i].holds
        BY <1>2, <1>6
    <2>2. c \in 1..MAX_REG /\ c \in Registers
        BY <2>1, ParamRegs4 DEF Activation
    <2>3. ASSUME NEW j \in 1..n PROVE Unsaved(acts', c, i, j) <=> Unsaved(acts, c, i, j)
        <3>1. \A x \in i + 1..j : x \in 1..n
            BY <1>2
        <3>2. \A x \in i + 1..j : acts'[x].fn = acts[x].fn
            BY <1>6, <3>1
        <3> QED BY <3>2 DEF Unsaved
    <2> QED BY <2>1, <2>2, <2>3
<1>8. ASSUME NEW i \in 1..n, NEW c \in acts'[i].holds, Unsaved(acts', c, i, n)
      PROVE  reg[c] = TempOf(i, c) /\ reg'[c] = TempOf(i, c) /\ c \in keeps[g]
    <2>1. c \in acts[i].holds /\ Unsaved(acts, c, i, n) /\ c \in 1..MAX_REG /\ c \in Registers
        BY <1>2, <1>7, <1>8
    <2>2. reg[c] = TempOf(i, c)
        BY <2>1 DEF Temps, InRegisterOf
    <2>3. reg'[c] = reg[c]
        <3>1. \A k \in 1..Params[g] : c # ParamReg(k - 1)
            <4> TAKE k \in 1..Params[g]
            <4>1. k - 1 \in Nat
                BY <1>4
            <4> QED BY <2>1, <4>1, ParamRegs4
        <3>2. reg' = [x \in Registers |->
                 IF \E k \in 1..Params[g] : x = ParamReg(k - 1) /\ k <= 4
                   THEN Received(reg[x], x - MAX_REG - 1) ELSE reg[x]]
            BY <1>1 DEF EnterIs
        <3> QED BY <2>1, <3>1, <3>2
    <2>4. c \in keeps[g]
        <3>1. CASE i = n
            <4>1. c \in Live[Running.fn]
                BY <1>3, <1>8, <3>1
            <4> QED BY <1>2, <1>3, <4>1 DEF Keeps
        <3>2. CASE i # n
            <4>0. i < n /\ n \in i + 1..n /\ \A x \in i + 1..n - 1 : x \in i + 1..n
                BY <1>2, <3>2
            <4>1. Unsaved(acts, c, i, n - 1) /\ c \notin SavedBy(Running.fn)
                BY <1>2, <2>1, <4>0 DEF Unsaved
            <4>2. KeptAt(stack, acts, i, n, c, keeps)
                BY <1>2, <2>1, <4>0, <4>1 DEF Temps, InFrames
            <4>3. c \in keeps[Running.fn] \ SavedBy(Running.fn)
                BY <1>2, <4>1, <4>2 DEF KeptAt
            <4> QED BY <1>2, <1>3, <4>3 DEF Keeps
        <3> QED BY <3>1, <3>2
    <2> QED BY <2>2, <2>3, <2>4
<1>9. ASSUME NEW i \in 1..n, NEW j \in 1..n, NEW c \in acts'[i].holds, i < j,
             Unsaved(acts', c, i, j - 1)
      PROVE  KeptAt(stack', acts', i, j, c, keeps)
    <2>1. c \in acts[i].holds /\ Unsaved(acts, c, i, j - 1)
        <3>1. j - 1 \in 1..n
            BY <1>2, <1>9
        <3> QED BY <1>7, <1>9, <3>1
    <2>2. KeptAt(stack, acts, i, j, c, keeps)
        BY <1>9, <2>1 DEF Temps, InFrames
    <2>3. acts'[j].fn = acts[j].fn /\ Slot(acts'[j], c) = Slot(acts[j], c)
        BY <1>6 DEF Slot
    <2>4. ASSUME c \in SavedBy(acts[j].fn)
          PROVE  stack'[Slot(acts[j], c)] = stack[Slot(acts[j], c)]
        <3>1. SameSlots(stack, stack', acts, n)
            <4> DEFINE l == rbp + max_offset[Running.fn]
            <4>1. l \in Nat /\ l = rbp + max_offset[Running.fn]
                BY <1>2
            <4> HIDE DEF l
            <4>2. \A x \in 1..l : stack'[x] = stack[x]
                <5>1. Len(stack) = Top(Running) + Rest(Running) /\ AtCall(Running, g)
                    BY <1>1 DEF EnterIs
                <5>2. /\ Rest(Running) \in 0..4 /\ Running.count = Params[g]
                      /\ Words(Running) \in Nat /\ Displaced(Running) \in 0..4
                      /\ Top(Running) = l + Words(Running)
                      /\ Words(Running) = Displaced(Running) + (Params[g] - Least(Params[g], 4))
                    BY <1>2, <4>1, <5>1, Sizes DEF AtCall, Words
                <5>6. PICK params \in Nat, words \in Nat, more \in 0..4, pushed \in 0..4, len \in Nat :
                        /\ params = Params[g] /\ words = Words(Running) /\ more = Rest(Running)
                        /\ pushed = Displaced(Running) /\ len = Len(stack)
                    BY <1>2, <1>4, <5>2
                <5>7. len = l + words + more /\ words = pushed + (params - Least(params, 4))
                    BY <5>1, <5>2, <5>6
                <5>8. l <= len /\ l < len - (params - 5)
                    BY <4>1, <5>7 DEF Least
                <5>3. l <= Len(stack) /\ l < Len(stack) - (Params[g] - 5)
                    BY <5>6, <5>8
                <5>4. \A x \in 1..l : x \in 1..Len(stack) /\ x \notin Len(stack) - (Params[g] - 5)..Len(stack)
                    BY <1>2, <1>4, <4>1, <5>3
                <5>5. \A x \in 1..Len(stack) :
                        stack'[x] = IF x \in Len(stack) - (Params[g] - 5)..Len(stack)
                          THEN Received(stack[x], 5 + (Len(stack) - x)) ELSE stack[x]
                    BY <1>1 DEF EnterIs
                <5> QED BY <5>4, <5>5
            <4>3. l >= acts[n].fp + max_offset[acts[n].fn]
                BY <1>2, <4>1
            <4> QED BY <1>2, <4>1, <4>2, <4>3, SlotsBelow
        <3>2. stack[Slot(acts[j], c)] = TempOf(i, c)
            BY <2>2, <2>4 DEF KeptAt
        <3> QED BY <1>9, <2>4, <3>1, <3>2 DEF SameSlots
    <2> QED BY <2>2, <2>3, <2>4 DEF KeptAt
<1>10. ASSUME NEW i \in 1..n, NEW c \in acts'[i].holds, Unsaved(acts', c, i, n)
       PROVE  KeptAt(stack', acts', i, n + 1, c, keeps)
    <2>1. reg[c] = TempOf(i, c) /\ c \in keeps[g]
        BY <1>8, <1>10
    <2>2. ASSUME c \in SavedBy(g) PROVE stack'[Slot(b, c)] = reg[c]
        <3>1. c \in 1..regs_used[g] /\ regs_used[g] \in Nat /\ max_offset[g] \in Nat
              /\ max_offset[g] >= regs_used[g]
            BY <1>4, <2>2, SavedRegister
        <3>2. PICK x \in Nat : x = regs_used[g] + 1 - c
            BY <3>1
        <3>3. x \in 1..max_offset[g] /\ x <= regs_used[g] /\ regs_used[g] + 1 - x = c
            BY <3>1, <3>2
        <3>4. Slot(b, c) = Len(stack) + 3 + x
            BY <1>2, <1>3, <3>1, <3>2 DEF Slot
        <3>5. stack'[Len(stack) + 3 + x] = IF x <= regs_used[g] THEN reg[regs_used[g] + 1 - x] ELSE Junk
            BY <1>1, <3>3 DEF EnterIs
        <3> QED BY <3>3, <3>4, <3>5
    <2> QED BY <1>3, <2>1, <2>2 DEF KeptAt
<1>11. InFrames(stack', acts', n + 1, keeps)
    <2> SUFFICES ASSUME NEW i \in 1..n + 1, NEW j \in 1..n + 1, NEW c \in acts'[i].holds,
                        i < j, Unsaved(acts', c, i, j - 1)
                 PROVE  KeptAt(stack', acts', i, j, c, keeps)
        BY DEF InFrames
    <2>1. i \in 1..n
        BY <1>2
    <2>2. CASE j \in 1..n
        BY <1>9, <2>1, <2>2
    <2>3. CASE j = n + 1
        <3>1. j - 1 = n
            BY <1>2, <2>3
        <3> QED BY <1>10, <2>1, <2>3, <3>1
    <2> QED BY <1>2, <2>2, <2>3
<1>12. InRegisterOf(reg', acts', n + 1)
    <2> SUFFICES ASSUME NEW i \in 1..n + 1, NEW c \in acts'[i].holds, Unsaved(acts', c, i, n + 1)
                 PROVE  reg'[c] = TempOf(i, c)
        BY DEF InRegisterOf
    <2>1. i \in 1..n
        BY <1>2, <1>3
    <2>2. \A x \in i + 1..n : x \in i + 1..n + 1
        BY <1>2
    <2>3. Unsaved(acts', c, i, n)
        BY <2>2 DEF Unsaved
    <2> QED BY <1>8, <2>1, <2>3
<1> QED BY <1>5, <1>11, <1>12 DEF Temps

\* The function that returns restores what it saved.
LEMMA ReturnTemps ==
    ASSUME IInv, NEW keeps, Keeps(keeps), Temps(keeps), Return
    PROVE  Temps(keeps)'
<1>1. PICK f, a, w : ReturnIs(f, a, w)
    BY ReturnDoes
<1>2. /\ n \in 1..n /\ Len(acts) = n /\ acts \in Seq(Activation) /\ n \in Nat
      /\ Running \in Activation /\ Running.fn \in Functions /\ Running = acts[n]
      /\ Frozen(stack, acts) /\ rbp = Running.fp /\ rbp \in Nat
    BY RunningIs
<1>3. /\ Len(acts') = n - 1 /\ acts'[n - 1] = w /\ \A i \in 1..n - 2 : acts'[i] = acts[i]
      /\ a = acts[n - 1] /\ n > 1 /\ f = Running.fn /\ a \in Activation
      /\ w.fn = a.fn /\ w.env = a.env /\ w.fp = a.fp /\ w.holds = a.holds
    BY <1>1 DEF ReturnIs, SamePlace
<1>4. n - 1 \in 1..n /\ \A i \in 1..n - 1 : i \in 1..n /\ (i # n - 1 => i \in 1..n - 2)
    BY <1>2, <1>3
<1>5. \A i \in 1..n - 1 : /\ acts'[i].fn = acts[i].fn /\ acts'[i].env = acts[i].env
                          /\ acts'[i].fp = acts[i].fp /\ acts'[i].holds = acts[i].holds
    <2> TAKE i \in 1..n - 1
    <2>1. CASE i = n - 1
        BY <2>1, <1>3
    <2>2. CASE i # n - 1
        BY <2>2, <1>3, <1>4
    <2> QED BY <2>1, <2>2
<1>6. n' = n - 1
    BY <1>3 DEF n
<1>7. ASSUME NEW i \in 1..n - 1, NEW c PROVE Forget(TempOf(i, c)) = TempOf(i, c)
    <2>1. Len(TempOf(i, c)) = 3 /\ TempOf(i, c)[2] = i /\ i # n
        BY <1>2 DEF TempOf
    <2> QED BY <2>1 DEF Forget
<1>8. SameSlots(stack, stack', acts, n - 1)
    <2> SUFFICES ASSUME NEW i \in 1..n - 1, NEW j \in 1..n - 1, NEW c \in SavedBy(acts[j].fn),
                        stack[Slot(acts[j], c)] = TempOf(i, c)
                 PROVE  stack'[Slot(acts[j], c)] = TempOf(i, c)
        BY DEF SameSlots
    <2>1. /\ a.fp \in Nat /\ max_offset[a.fn] \in Nat /\ Words(a) \in Nat
          /\ Top(a) = a.fp + max_offset[a.fn] + Words(a)
        BY <1>3, Sizes
    <2>2. j \in 1..Len(acts) /\ acts[j].fp \in Nat
        BY <1>2, <1>4, FrozenAt
    <2>3. /\ Slot(acts[j], c) \in Nat /\ Slot(acts[j], c) > acts[j].fp
          /\ Slot(acts[j], c) <= acts[j].fp + max_offset[acts[j].fn]
          /\ j < n - 1 => Slot(acts[j], c) < a.fp
        BY <1>2, <1>3, <1>4, <2>2, SlotAt
    <2>4. PICK x \in Nat, fp \in Nat, max \in Nat, words \in Nat, low \in Nat :
            /\ x = Slot(acts[j], c) /\ fp = a.fp /\ max = max_offset[a.fn] /\ words = Words(a)
            /\ low = acts[j].fp
        BY <2>1, <2>2, <2>3
    <2>5. x <= fp + max /\ x > low
        <3>1. CASE j = n - 1
            BY <1>3, <2>3, <2>4, <3>1
        <3>2. CASE j < n - 1
            BY <2>3, <2>4, <3>2
        <3> QED BY <1>2, <3>1, <3>2
    <2>6. x \in 1..fp + max + words
        BY <2>5
    <2>7. stack'[Slot(acts[j], c)] = Forget(stack[Slot(acts[j], c)])
        <3>1. \A y \in 1..Top(a) : stack'[y] = Forget(stack[y])
            BY <1>1 DEF ReturnIs
        <3> QED BY <2>1, <2>4, <2>6, <3>1
    <2> QED BY <1>7, <2>7
<1>9. InFrames(stack', acts', n - 1, keeps)
    <2>1. SameFrames(acts, acts', n - 1)
        BY <1>5 DEF SameFrames
    <2>2. HoldNoMore(acts, acts', n - 1)
        <3>1. \A i \in 1..(n - 1) - 1 : i \in 1..n - 1
            BY <1>2, <1>3
        <3> QED BY <1>5, <3>1 DEF HoldNoMore
    <2>3. InFrames(stack, acts, n - 1, keeps)
        BY <1>4 DEF Temps, InFrames
    <2>4. n - 1 \in Nat
        BY <1>2, <1>3
    <2> QED BY <1>8, <2>1, <2>2, <2>3, <2>4, InFramesKept
<1>10. ASSUME NEW i \in 1..n - 1, NEW c \in acts'[i].holds, Unsaved(acts', c, i, n - 1)
       PROVE  reg'[c] = TempOf(i, c)
    <2>1. i \in 1..n /\ i < n /\ c \in acts[i].holds /\ acts[i] \in Activation
        BY <1>2, <1>4, <1>5
    <2>2. c \in 1..MAX_REG /\ c \in Registers
        BY <2>1, ParamRegs4 DEF Activation
    <2>3. Unsaved(acts, c, i, n - 1)
        <3>1. \A x \in i + 1..n - 1 : x \in 1..n - 1
            BY <1>2
        <3> QED BY <1>5, <1>10, <3>1 DEF Unsaved
    <2>4. KeptAt(stack, acts, i, n, c, keeps)
        BY <1>2, <2>1, <2>3 DEF Temps, InFrames
    <2>5. reg'[c] = Forget(IF c <= regs_used[f] THEN stack[rbp + regs_used[f] + 1 - c] ELSE reg[c])
        <3>1. a.count \in Nat
            BY <1>3, Sizes
        <3>2. ~ (c >= ParamReg(a.count))
            BY <2>2, <3>1, ParamRegs4 DEF ParamReg
        <3>3. reg'[c] = IF c >= ParamReg(a.count) /\ c < ParamReg(InRegisters(a.fn))
                     THEN Forget(stack[rbp - 3 - (ParamReg(InRegisters(a.fn)) - 1 - c)])
                     ELSE Forget(IF c <= regs_used[f] THEN stack[rbp + regs_used[f] + 1 - c]
                                                      ELSE reg[c])
            BY <1>1, <2>2 DEF ReturnIs
        <3> QED BY <3>2, <3>3
    <2>6. CASE c \in SavedBy(f)
        <3>1. c \in 1..regs_used[f] /\ regs_used[f] \in Nat
            BY <1>2, <1>3, <2>6, SavedRegister
        <3>2. stack[Slot(acts[n], c)] = TempOf(i, c) /\ Slot(acts[n], c) = rbp + regs_used[f] + 1 - c
            BY <1>2, <1>3, <2>4, <2>6 DEF KeptAt, Slot
        <3>3. c <= regs_used[f]
            BY <3>1
        <3> QED BY <1>7, <2>5, <3>2, <3>3
    <2>7. CASE c \notin SavedBy(f)
        <3>1. c \in keeps[f] \ SavedBy(f)
            BY <1>2, <1>3, <2>4, <2>7 DEF KeptAt
        <3>2. c > regs_used[f]
            BY <1>2, <1>3, <3>1 DEF Keeps
        <3>3. Unsaved(acts, c, i, n)
            BY <1>2, <1>3, <2>3, <2>7 DEF Unsaved
        <3>4. reg[c] = TempOf(i, c)
            BY <2>1, <3>3 DEF Temps, InRegisterOf
        <3>5. ~ (c <= regs_used[f])
            <4>0. f \in Functions /\ MAX_REG \in Nat
                BY <1>2, <1>3, ParamRegs4
            <4>1. regs_used[f] \in Nat
                BY <4>0, RegsUsed
            <4> QED BY <2>2, <3>2, <4>1
        <3> QED BY <1>7, <2>5, <3>4, <3>5
    <2> QED BY <2>6, <2>7
<1>11. InRegisterOf(reg', acts', n - 1)
    BY <1>10 DEF InRegisterOf
<1> QED BY <1>6, <1>9, <1>11 DEF Temps

LEMMA NextTemps ==
    ASSUME Balanced, IInv, NEW keeps, Keeps(keeps), Temps(keeps), [Next]_vars
    PROVE  Temps(keeps)'
<1>1. CASE UNCHANGED vars
    BY <1>1 DEF vars, Temps, n
<1>2. CASE NextSegment
    BY <1>1, <1>2, NextSegmentIs
<1>3. CASE Next /\ ~NextSegment
    BY <1>3, ComputeTemps, ArgumentTemps, PrintStringTemps, DeclareTemps, StartCallTemps,
       OtherTemps, EnterTemps, ReturnTemps, PopParamTemps DEF Next
<1> QED BY <1>1, <1>2, <1>3

LEMMA InitTemps == ASSUME Init, NEW keeps PROVE Temps(keeps)
<1> DEFINE a == NewActivation(Module, 0, [h \in Functions |-> IF h = Module THEN 1 ELSE 0])
<1>1. acts = <<a>> /\ a.holds = {}
    BY DEF Init, NewActivation
<1> HIDE DEF a
<1>2. Len(acts) = 1 /\ acts[1] = a
    BY <1>1
<1>3. n = 1 /\ acts[1].holds = {}
    BY <1>1, <1>2 DEF n
<1> QED BY <1>3 DEF Temps, InFrames, InRegisterOf

(***************************************************************************)
(* A temporary whose register every function called restores or leaves     *)
(* alone has its value after the calls made in between, whatever their     *)
(* nesting and recursion.                                                  *)
(***************************************************************************)
THEOREM TemporariesSurvive ==
    ASSUME Balanced, NEW keeps, Keeps(keeps) PROVE Spec => []TempsKept
<1>1. Init => Temps(keeps)
    BY InitTemps
<1>2. IInv /\ Temps(keeps) /\ [Next]_vars => Temps(keeps)'
    BY NextTemps
<1>3. IInv /\ Temps(keeps) => TempsKept
    <2> SUFFICES ASSUME IInv, Temps(keeps), NEW c \in Running.holds
                 PROVE  reg[c] = <<"temp", n, c>>
        BY DEF TempsKept
    <2>1. n \in 1..n /\ Running = acts[n] /\ Unsaved(acts, c, n, n)
        BY RunningIs DEF Unsaved
    <2> QED BY <2>1 DEF Temps, InRegisterOf, TempOf
<1>4. Spec => []IInv
    BY Inductive
<1> QED BY <1>1, <1>2, <1>3, <1>4, PTL DEF Spec

(***************************************************************************)
(* Parameters and arguments.  An activation has its parameters in their    *)
(* registers until an argument displaces them, then above its frame; those *)
(* after the fourth are where its caller pushed them.                      *)
(***************************************************************************)
ParamIs(i, k) == <<"param", i, k>>
Pushed(a, k)  == a.fp + max_offset[a.fn] + k

OnTop(m, a, i, k)  == \A x \in 1..k : m[Pushed(a, x)] = ParamIs(i, x)
Waited(m, s, k)    == \A i \in 1..k : OnTop(m, s[i], i, InRegisters(s[i].fn))
BelowFrame(m, a, i) == \A x \in 5..Params[a.fn] : m[a.fp - (x - 2)] = ParamIs(i, x)
Above(m, s, k)     == \A i \in 1..k : BelowFrame(m, s[i], i)
InHand(r, a, i)    == \A x \in a.count + 1..InRegisters(a.fn) : r[ParamReg(x - 1)] = ParamIs(i, x)

\* Where the x-th argument of the call being prepared is.
ArgAt(m, r, a, x) ==
    IF x <= 4 THEN r[ParamReg(x - 1)] ELSE m[a.fp + max_offset[a.fn] + Displaced(a) + (x - 4)]
Given(m, r, a) ==
    a.calls # <<>> => \A x \in 1..Len(Turn(a).args) : ArgAt(m, r, a, x) = Turn(a).args[x]

\* What the running activation, the i-th, has of its parameters.
Handed(m, r, a, i, at) ==
    /\ OnTop(m, a, i, IF at = "call" THEN InRegisters(a.fn) ELSE Displaced(a))
    /\ InHand(r, a, i) /\ Given(m, r, a)

Parameters ==
    /\ Waited(stack, acts, n - 1) /\ Above(stack, acts, n)
    /\ Handed(stack, reg, Running, n, pc)

\* p has the parameters of activations 1..k that are in the first l words of m.
SameParams(m, p, l, k) ==
    \A x \in 1..l : \A i \in 1..k : \A y : m[x] = ParamIs(i, y) => p[x] = ParamIs(i, y)

\* What an activation has pushed when it waits includes its parameters.
LEMMA AllPushed ==
    ASSUME NEW a \in Activation
    PROVE  InRegisters(a.fn) \in 0..4 /\ InRegisters(a.fn) <= Words(a) + Rest(a)
<1>1. a.count \in Nat /\ Params[a.fn] \in Nat
    BY Sizes
<1>2. InRegisters(a.fn) \in 0..4 /\ InRegisters(a.fn) <= Params[a.fn]
    BY <1>1 DEF InRegisters, Least
<1>3. CASE Params[a.fn] = 0
    <2>1. InRegisters(a.fn) = 0
        BY <1>1, <1>2, <1>3
    <2>2. Words(a) \in Nat /\ Rest(a) \in 0..4
        BY Sizes
    <2> QED BY <1>2, <2>1, <2>2
<1>4. CASE Params[a.fn] # 0
    <2>1. Words(a) = Least(a.count, 4) + (a.count - Least(a.count, 4))
        BY <1>4 DEF Words, Displaced
    <2>2. Words(a) = a.count
        BY <1>1, <2>1 DEF Least
    <2> QED BY <1>1, <1>2, <2>2 DEF Rest
<1> QED BY <1>3, <1>4

\* All of it lies below the running frame.
LEMMA ParamsBelow ==
    ASSUME NEW m, NEW s \in Seq(Activation), Frozen(m, s), NEW k \in 1..Len(s), NEW i \in 1..k
    PROVE  /\ \A x \in 1..InRegisters(s[i].fn) : i < k => Pushed(s[i], x) \in 1..s[k].fp
           /\ \A x \in 5..Params[s[i].fn] : s[i].fp - (x - 2) \in 1..s[k].fp
           /\ s[k].fp \in Nat /\ s[i].fp \in Nat
<1>1. i \in 1..Len(s) /\ s[i] \in Activation /\ s[k] \in Activation
    OBVIOUS
<1>2. /\ s[i].fp \in Nat /\ s[k].fp \in Nat /\ max_offset[s[i].fn] \in Nat /\ s[i].fn \in Functions
      /\ Words(s[i]) \in Nat /\ Rest(s[i]) \in 0..4 /\ Params[s[i].fn] \in Nat
      /\ Top(s[i]) = s[i].fp + max_offset[s[i].fn] + Words(s[i])
    BY <1>1, Sizes
<1>3. InRegisters(s[i].fn) \in 0..4 /\ InRegisters(s[i].fn) <= Words(s[i]) + Rest(s[i])
    BY <1>1, AllPushed
<1>4. PICK fp \in Nat, max \in Nat, words \in Nat, rest \in 0..4, top \in Nat :
        /\ fp = s[i].fp /\ max = max_offset[s[i].fn] /\ words = Words(s[i]) /\ rest = Rest(s[i])
        /\ top = s[k].fp
    BY <1>2
<1>5. ASSUME i < k PROVE fp + max + words + rest + 3 <= top
    <2>1. Top(s[i]) + Rest(s[i]) + 3 <= s[k].fp
        BY <1>1, <1>5, FramesRise DEF Frozen
    <2> QED BY <1>2, <1>4, <2>1
<1>6. ASSUME NEW x \in 1..InRegisters(s[i].fn), i < k PROVE Pushed(s[i], x) \in 1..s[k].fp
    <2>0. PICK least \in 0..4 : least = InRegisters(s[i].fn)
        BY <1>3
    <2>1. /\ Pushed(s[i], x) = fp + max + x /\ x \in 1..least /\ least <= words + rest
        BY <1>3, <1>4, <1>6, <2>0 DEF Pushed
    <2>2. fp + max + x \in 1..top
        BY <1>5, <1>6, <2>1
    <2> QED BY <1>4, <2>1, <2>2
<1>7. fp <= top
    <2>1. CASE i = k
        <3>1. s[i] = s[k]
            BY <2>1
        <3> QED BY <1>4, <3>1
    <2>2. CASE i < k
        <3>1. fp + max + words + rest + 3 <= top
            BY <1>5, <2>2
        <3>2. rest \in Nat
            OBVIOUS
        <3> QED BY <3>1, <3>2
    <2> QED BY <2>1, <2>2
<1>8. ASSUME NEW x \in 5..Params[s[i].fn] PROVE s[i].fp - (x - 2) \in 1..s[k].fp
    <2>1. s[i].fn # Module
        BY <1>2, <1>8, ProgramAssumption
    <2>2. i > 1 /\ i - 1 \in 1..Len(s)
        BY <1>1, <2>1, FrozenAt DEF Known
    <2>3. Waits(s[i - 1], s[(i - 1) + 1]) /\ (i - 1) + 1 = i /\ s[i - 1] \in Activation
        BY <1>1, <2>2, FrozenAt
    <2>4. s[i].fp = Top(s[i - 1]) + Rest(s[i - 1]) + 3 /\ s[i - 1].count = Params[s[i].fn]
        BY <2>3 DEF Waits
    <2>5. /\ s[i - 1].fp \in Nat /\ max_offset[s[i - 1].fn] \in Nat /\ Rest(s[i - 1]) \in 0..4
          /\ Top(s[i - 1]) = s[i - 1].fp + max_offset[s[i - 1].fn] + Words(s[i - 1])
          /\ Displaced(s[i - 1]) \in 0..4
        BY <2>3, Sizes
    <2>6. PICK d \in 0..4, l \in Nat, o \in Nat, r \in 0..4, c \in Nat :
            /\ d = Displaced(s[i - 1]) /\ l = s[i - 1].fp /\ o = max_offset[s[i - 1].fn]
            /\ r = Rest(s[i - 1]) /\ c = Params[s[i].fn]
        BY <1>2, <2>5
    <2>7. Words(s[i - 1]) = d + (c - Least(c, 4))
        BY <2>4, <2>6 DEF Words
    <2>8. fp = l + o + (d + (c - Least(c, 4))) + r + 3 /\ x \in 5..c
        BY <1>4, <2>4, <2>5, <2>6, <2>7
    <2>9. fp - (x - 2) >= 1 /\ fp - (x - 2) \in Int
        BY <2>8 DEF Least
    <2>10. fp - (x - 2) \in 1..top
        <3>1. x \in Nat /\ x >= 5
            BY <2>8
        <3>2. fp - (x - 2) <= top
            BY <1>7, <3>1
        <3> QED BY <2>9, <3>2
    <2> QED BY <1>4, <2>10
<1> QED BY <1>2, <1>6, <1>8

LEMMA BelowKept ==
    ASSUME NEW m, NEW p, NEW s \in Seq(Activation), NEW t, Frozen(m, s), NEW k \in 1..Len(s),
           SameFrames(s, t, k), SameParams(m, p, s[k].fp, k), Waited(m, s, k - 1), Above(m, s, k)
    PROVE  Waited(p, t, k - 1) /\ Above(p, t, k)
<1>1. ASSUME NEW i \in 1..k
      PROVE  t[i].fn = s[i].fn /\ t[i].fp = s[i].fp /\ i \in 1..k
    BY DEF SameFrames
<1>2. ASSUME NEW i \in 1..k - 1, NEW x \in 1..InRegisters(t[i].fn)
      PROVE  p[Pushed(t[i], x)] = ParamIs(i, x)
    <2>1. i \in 1..k /\ i < k
        BY <1>2
    <2>2. t[i].fn = s[i].fn /\ Pushed(t[i], x) = Pushed(s[i], x)
        BY <1>1, <2>1 DEF Pushed
    <2>3. Pushed(s[i], x) \in 1..s[k].fp
        BY <2>1, <2>2, ParamsBelow
    <2>4. m[Pushed(s[i], x)] = ParamIs(i, x)
        BY <2>2 DEF Waited, OnTop
    <2> QED BY <2>1, <2>2, <2>3, <2>4 DEF SameParams
<1>3. ASSUME NEW i \in 1..k, NEW x \in 5..Params[t[i].fn]
      PROVE  p[t[i].fp - (x - 2)] = ParamIs(i, x)
    <2>1. x \in 5..Params[s[i].fn] /\ t[i].fp = s[i].fp
        BY <1>1
    <2>2. s[i].fp - (x - 2) \in 1..s[k].fp
        BY <2>1, ParamsBelow
    <2>3. m[s[i].fp - (x - 2)] = ParamIs(i, x)
        BY <2>1 DEF Above, BelowFrame
    <2> QED BY <2>1, <2>2, <2>3 DEF SameParams
<1> QED BY <1>2, <1>3 DEF Waited, OnTop, Above, BelowFrame

\* A step of the running activation that leaves what is below its frame.
LEMMA ParamsStay ==
    ASSUME IInv, Parameters, NEW a, SamePlace(Running, a), Replaced(acts', acts, n, a),
           \A x \in 1..rbp : stack'[x] = stack[x], Handed(stack', reg', a, n, pc')
    PROVE  Parameters'
<1>1. /\ Len(acts) = n /\ n \in Nat /\ n \in 1..n /\ Running = acts[n] /\ rbp = Running.fp
      /\ acts \in Seq(Activation) /\ Frozen(stack, acts)
    BY RunningIs
<1>2. /\ acts' \in Seq(Activation) /\ Len(acts') = n /\ acts'[n] = a
      /\ \A i \in 1..n : i # n => acts'[i] = acts[i]
    BY <1>1 DEF Replaced
<1>3. n' = n
    BY <1>2 DEF n
<1>4. Running' = a
    BY <1>2, <1>3 DEF Running
<1>5. SameFrames(acts, acts', n)
    <2> SUFFICES ASSUME NEW i \in 1..n
                 PROVE  acts'[i].fn = acts[i].fn /\ acts'[i].env = acts[i].env
                        /\ acts'[i].fp = acts[i].fp
        BY DEF SameFrames
    <2>1. CASE i = n
        BY <2>1, <1>1, <1>2 DEF SamePlace
    <2>2. CASE i # n
        BY <2>2, <1>2
    <2> QED BY <2>1, <2>2
<1>6. SameParams(stack, stack', acts[n].fp, n)
    BY <1>1 DEF SameParams
<1>7. Waited(stack', acts', n - 1) /\ Above(stack', acts', n)
    BY <1>1, <1>5, <1>6, BelowKept DEF Parameters
<1> QED BY <1>3, <1>4, <1>7 DEF Parameters

LEMMA ParamsStill ==
    ASSUME IInv, Parameters, acts' = acts, \A x \in 1..rbp : stack'[x] = stack[x],
           Handed(stack', reg', Running, n, pc')
    PROVE  Parameters'
<1>1. n \in 1..n /\ Len(acts) = n /\ acts \in Seq(Activation) /\ Running = acts[n]
      /\ Running \in Activation
    BY RunningIs
<1>2. SamePlace(Running, Running) /\ Replaced(acts', acts, n, Running)
    BY <1>1 DEF SamePlace, Replaced
<1> QED BY <1>2, ParamsStay

\* The words an activation has pushed, by how many arguments it has passed.
LEMMA Counted ==
    ASSUME NEW a \in Activation
    PROVE  /\ a.count \in Nat /\ InRegisters(a.fn) \in 0..4 /\ InRegisters(a.fn) \in Nat
           /\ Params[a.fn] \in Nat /\ InRegisters(a.fn) <= Params[a.fn]
           /\ \A x \in 1..Params[a.fn] : x <= 4 => x \in 1..InRegisters(a.fn)
           /\ Params[a.fn] = 0 => InRegisters(a.fn) = 0 /\ Displaced(a) = 0
           /\ Params[a.fn] # 0 /\ a.count <= 4 => Displaced(a) = a.count /\ Words(a) = a.count
           /\ Params[a.fn] = 0 /\ a.count <= 4 => Words(a) = 0
           /\ Params[a.fn] # 0 /\ a.count > 4 => Displaced(a) = 4
           /\ a.count > 4 => Words(a) = Displaced(a) + (a.count - 4) /\ Rest(a) = 0
           /\ a.count < InRegisters(a.fn) => Rest(a) = InRegisters(a.fn) - a.count
           /\ Displaced(a) \in 0..4 /\ Displaced(a) \in Nat
<1>1. a.count \in Nat /\ Params[a.fn] \in Nat
    BY Sizes
<1>2. PICK k \in Nat, p \in Nat : k = a.count /\ p = Params[a.fn]
    BY <1>1
<1>3. /\ InRegisters(a.fn) = IF p < 4 THEN p ELSE 4
      /\ Displaced(a) = IF p = 0 THEN 0 ELSE IF k < 4 THEN k ELSE 4
      /\ Words(a) = Displaced(a) + (k - IF k < 4 THEN k ELSE 4)
      /\ Rest(a) = IF InRegisters(a.fn) > k THEN InRegisters(a.fn) - k ELSE 0
    BY <1>2 DEF InRegisters, Displaced, Words, Rest, Least
<1>4. PICK l, d, w, r : l = InRegisters(a.fn) /\ d = Displaced(a) /\ w = Words(a) /\ r = Rest(a)
    OBVIOUS
<1>5. /\ l = IF p < 4 THEN p ELSE 4
      /\ d = IF p = 0 THEN 0 ELSE IF k < 4 THEN k ELSE 4
      /\ w = d + (k - IF k < 4 THEN k ELSE 4)
      /\ r = IF l > k THEN l - k ELSE 0
    BY <1>3, <1>4
<1>6. /\ l \in 0..4 /\ l <= p /\ d \in 0..4 /\ \A x \in 1..p : x <= 4 => x \in 1..l
      /\ p = 0 => l = 0 /\ d = 0
      /\ p # 0 /\ k <= 4 => d = k /\ w = k
      /\ p = 0 /\ k <= 4 => w = 0
      /\ p # 0 /\ k > 4 => d = 4
      /\ k > 4 => w = d + (k - 4) /\ r = 0
      /\ k < l => r = l - k
    BY <1>5
<1>7. l \in Nat /\ d \in Nat
    BY <1>6
<1> QED BY <1>2, <1>4, <1>6, <1>7

\* The steps that change neither the stack nor an activation.
LEMMA StillParams ==
    ASSUME IInv, Parameters, stack' = stack, acts' = acts, pc' = "call" <=> pc = "call",
           InHand(reg', Running, n), Given(stack, reg', Running)
    PROVE  Parameters'
<1>1. Handed(stack', reg', Running, n, pc')
    BY DEF Parameters, Handed
<1> QED BY <1>1, ParamsStill

LEMMA OtherParams ==
    ASSUME Balanced, Passed, IInv, Parameters,
           Divide \/ PrintValue \/ DeclareArray \/ Hop \/ Found
             \/ (\E c \in Captures[Running.fn] : Find(c[1], c[2], c[3]))
    PROVE  Parameters'
<1>1. /\ reg \in [Registers -> Value] /\ stack \in Seq(Value) /\ Len(stack) \in Nat
      /\ P \in Nat /\ P = Params[Running.fn] /\ Running \in Activation /\ Running.fn \in Functions
      /\ InRegisters(Running.fn) \in 0..4 /\ InRegisters(Running.fn) <= P
      /\ Running.count \in Nat
    BY RunningIs, Counted DEF IInv, Typed
<1>2. Handed(stack, reg, Running, n, pc) /\ InHand(reg, Running, n) /\ Given(stack, reg, Running)
    BY DEF Parameters, Handed
<1>3. ASSUME NEW x \in 1..4 PROVE ParamReg(x - 1) \in Registers
    <2>1. x - 1 \in 0..3
        BY <1>3
    <2> QED BY <2>1, ParamRegs4
<1>4. CASE Divide
    <2>1. /\ P <= 3 /\ stack' = stack /\ acts' = acts /\ pc = "body" /\ pc' = pc
          /\ reg' = [reg EXCEPT ![ParamReg(3)] = Junk] /\ Running.fn \in Divides
        BY <1>4 DEF Divide
    <2>2. ASSUME NEW x \in 1..3 PROVE reg'[ParamReg(x - 1)] = reg[ParamReg(x - 1)]
        <3>1. x \in 1..4 /\ x - 1 \in Int /\ 3 \in Int /\ x - 1 # 3
            BY <2>2
        <3>2. ParamReg(x - 1) # ParamReg(3)
            BY <3>1, ParamRegs4
        <3> QED BY <1>1, <1>3, <2>1, <3>1, <3>2
    <2>3. InHand(reg', Running, n)
        <3>1. \A x \in Running.count + 1..InRegisters(Running.fn) : x \in 1..3
            BY <1>1, <2>1
        <3> QED BY <1>2, <2>2, <3>1 DEF InHand
    <2>4. Given(stack, reg', Running)
        <3> SUFFICES ASSUME Running.calls # <<>>, NEW x \in 1..Len(Turn(Running).args)
                     PROVE  ArgAt(stack, reg', Running, x) = Turn(Running).args[x]
            BY DEF Given
        <3>1. AtBody(Running) /\ InTurn(Running)
            BY <2>1 DEF IInv, Shape, AtPoint
        <3>2. Turn(Running).fn \in Calls[Running.fn] /\ Params[Turn(Running).fn] \in Nat
            BY <1>1, <3>1, TurnIs
        <3>3. Params[Turn(Running).fn] <= 3
            BY <1>1, <2>1, <3>2 DEF Passed
        <3>4. x \in 1..3
            BY <1>1, <3>1, <3>2, <3>3 DEF AtBody
        <3>5. ArgAt(stack, reg', Running, x) = ArgAt(stack, reg, Running, x)
            BY <2>2, <3>4 DEF ArgAt
        <3> QED BY <1>2, <3>5 DEF Given
    <2> QED BY <2>1, <2>3, <2>4, StillParams
<1>5. CASE PrintValue
    <2>1. /\ stack' = stack /\ acts' = acts /\ Running.calls = <<>> /\ pc' = pc /\ reg' = Printed
        BY <1>5 DEF PrintValue
    <2>2. \A x \in Running.count + 1..InRegisters(Running.fn) : x \in 1..InRegisters(Running.fn)
        BY <1>1
    <2>3. InHand(reg', Running, n) /\ Given(stack, reg', Running)
        BY <1>2, <2>1, <2>2, PrintedIs DEF InHand, Given
    <2> QED BY <2>1, <2>3, StillParams
<1>6. CASE DeclareArray
    <2>1. acts' = acts /\ stack' = stack /\ Running.calls = <<>> /\ pc' = pc
        BY <1>6, DeclareArrayIs DEF DeclareArray
    <2>2. PICK k \in {0, 2} : /\ k = 0 => P = 0
                              /\ reg' = [c \in Registers |->
                                   IF c \in {ParamReg(i) : i \in k..1} THEN Junk ELSE reg[c]]
        BY <1>6, DeclareArrayIs
    <2>3. ASSUME NEW x \in Running.count + 1..InRegisters(Running.fn)
          PROVE  reg'[ParamReg(x - 1)] = reg[ParamReg(x - 1)]
        <3>1. P # 0 /\ x \in 1..4
            BY <1>1
        <3>2. k..1 = {}
            BY <2>2, <3>1
        <3> QED BY <1>3, <2>2, <3>1, <3>2
    <2>4. InHand(reg', Running, n) /\ Given(stack, reg', Running)
        BY <1>2, <2>1, <2>3 DEF InHand, Given
    <2> QED BY <2>1, <2>4, StillParams
<1>7. CASE Hop
    BY <1>2, <1>7, StillParams DEF Hop
<1>8. CASE Found
    BY <1>2, <1>8, StillParams DEF Found
<1>9. CASE \E c \in Captures[Running.fn] : Find(c[1], c[2], c[3])
    BY <1>2, <1>9, StillParams DEF Find
<1> QED BY <1>4, <1>5, <1>6, <1>7, <1>8, <1>9

\* What the running activation has of its parameters depends on its place, on
\* what is above its frame, on the parameter registers and on its last call.
SameCount(a, b) ==
    /\ b.fn = a.fn /\ b.fp = a.fp /\ b.count = a.count
    /\ b.calls # <<>> => Turn(b).args = <<>> \/ (a.calls # <<>> /\ Turn(b).args = Turn(a).args)

LEMMA HandedKept ==
    ASSUME NEW a \in Activation, NEW b \in Activation, SameCount(a, b), NEW m, NEW r, NEW q, NEW i,
           NEW at, \A x \in 1..4 : q[ParamReg(x - 1)] = r[ParamReg(x - 1)], Handed(m, r, a, i, at)
    PROVE  Handed(m, q, b, i, at)
<1>1. \A x \in a.count + 1..InRegisters(a.fn) : x \in 1..4
    <2>1. InRegisters(a.fn) \in 0..4 /\ a.count \in Nat
        BY Counted
    <2> QED BY <2>1
<1>2. InHand(q, b, i)
    BY <1>1 DEF Handed, InHand, SameCount
<1>3. OnTop(m, b, i, IF at = "call" THEN InRegisters(b.fn) ELSE Displaced(b))
    BY DEF Handed, OnTop, SameCount, Pushed, Displaced
<1>4. ASSUME b.calls # <<>>, NEW x \in 1..Len(Turn(b).args)
      PROVE  ArgAt(m, q, b, x) = Turn(b).args[x]
    <2>1. a.calls # <<>> /\ Turn(b).args = Turn(a).args
        BY <1>4 DEF SameCount
    <2>2. ArgAt(m, r, a, x) = Turn(b).args[x]
        BY <1>4, <2>1 DEF Handed, Given
    <2>3. x <= 4 => x \in 1..4
        <3>1. x \in Nat /\ x >= 1
            BY <1>4
        <3> QED BY <3>1
    <2>4. ArgAt(m, q, b, x) = ArgAt(m, r, a, x)
        BY <2>3 DEF ArgAt, SameCount, Displaced
    <2> QED BY <2>2, <2>4
<1> QED BY <1>2, <1>3, <1>4 DEF Handed, Given

LEMMA ComputeParams ==
    ASSUME IInv, Parameters, NEW c \in Registers, Compute(c) PROVE Parameters'
<1> DEFINE a == [Running EXCEPT !.holds = @ \cup {c}]
<1>1. /\ c \in Written[Running.fn] /\ acts' = [acts EXCEPT ![n] = a] /\ stack' = stack /\ pc' = pc
      /\ reg' = [reg EXCEPT ![c] = <<"temp", n, c>>]
    BY DEF Compute, Running
<1>2. /\ n \in 1..n /\ Len(acts) = n /\ acts \in Seq(Activation)
      /\ Running \in Activation /\ Running.fn \in Functions /\ Running = acts[n]
      /\ reg \in [Registers -> Value]
    BY RunningIs DEF IInv, Typed
<1>3. c \in 1..MAX_REG
    BY <1>1, <1>2, Layout DEF LaidOut
<1>4. /\ a \in Activation /\ a.fn = Running.fn /\ a.fp = Running.fp /\ a.env = Running.env
      /\ a.count = Running.count /\ a.calls = Running.calls
    BY <1>2, <1>3 DEF Activation
<1> HIDE DEF a
<1>5. SamePlace(Running, a) /\ Replaced(acts', acts, n, a)
    BY <1>1, <1>2, <1>4, ReplacedIs DEF SamePlace
<1>6. \A x \in 1..4 : reg'[ParamReg(x - 1)] = reg[ParamReg(x - 1)]
    <2> TAKE x \in 1..4
    <2>1. x - 1 \in Nat /\ x - 1 \in 0..3
        OBVIOUS
    <2>2. ParamReg(x - 1) # c /\ ParamReg(x - 1) \in Registers
        BY <1>3, <2>1, ParamRegs4
    <2> QED BY <1>1, <1>2, <2>2
<1>7. SameCount(Running, a)
    BY <1>4 DEF SameCount, Turn
<1>8. Handed(stack, reg, Running, n, pc)
    BY DEF Parameters
<1>9. PICK q : q = reg'
    OBVIOUS
<1>10. Handed(stack, q, a, n, pc)
    BY <1>2, <1>4, <1>6, <1>7, <1>8, <1>9, HandedKept
<1>11. Handed(stack', reg', a, n, pc')
    BY <1>1, <1>9, <1>10
<1> QED BY <1>1, <1>5, <1>11, ParamsStay

\* Printing a string keeps the function's own parameters, and no argument waits.
LEMMA PrintStringParams ==
    ASSUME IInv, Parameters, NEW c \in Registers, PrintString(c) PROVE Parameters'
<1>1. PICK a : PrintsString(c, a)
    BY PrintStringDoes
<1>2. /\ c \in 1..MAX_REG /\ Running.calls = <<>> /\ reg' = [Printed EXCEPT ![c] = Junk]
      /\ SamePlace(Running, a) /\ Replaced(acts', acts, n, a) /\ stack' = stack /\ pc' = pc
      /\ a.fn = Running.fn /\ a.fp = Running.fp /\ a.count = Running.count /\ a.calls = <<>>
    BY <1>1 DEF PrintsString, SamePlace
<1>3. /\ Running \in Activation /\ InRegisters(Running.fn) \in 0..4 /\ Running.count \in Nat
    BY RunningIs, Counted
<1>4. Handed(stack, reg, Running, n, pc)
    BY DEF Parameters
<1>5. ASSUME NEW x \in Running.count + 1..InRegisters(Running.fn)
      PROVE  reg'[ParamReg(x - 1)] = reg[ParamReg(x - 1)]
    <2>1. x \in 1..InRegisters(Running.fn) /\ x - 1 \in 0..3
        BY <1>3
    <2>2. ParamReg(x - 1) # c /\ ParamReg(x - 1) \in Registers
        BY <1>2, <2>1, ParamRegs4
    <2> QED BY <1>2, <2>1, <2>2, PrintedIs
<1>6. InHand(reg', a, n) /\ Given(stack', reg', a)
    BY <1>2, <1>4, <1>5 DEF Handed, InHand, Given
<1>7. OnTop(stack', a, n, IF pc' = "call" THEN InRegisters(a.fn) ELSE Displaced(a))
    BY <1>2, <1>4 DEF Handed, OnTop, Pushed, Displaced
<1>8. Handed(stack', reg', a, n, pc')
    BY <1>6, <1>7 DEF Handed
<1> QED BY <1>2, <1>8, ParamsStay

LEMMA DeclareParams ==
    ASSUME Balanced, IInv, Parameters, NEW v \in Variables(Running.fn), Declare(v)
    PROVE  Parameters'
<1> DEFINE a == [Running EXCEPT !.declared = @ \cup {v}]
           o == Offset(Running.fn, "var", v)
<1>1. /\ acts' = [acts EXCEPT ![n] = a] /\ reg' = reg /\ pc' = pc /\ pc = "body"
      /\ stack' = [stack EXCEPT ![rbp + o] = <<"var", n, v>>] /\ Running.calls = <<>>
    BY DEF Declare, Running
<1>2. /\ n \in 1..n /\ Len(acts) = n /\ acts \in Seq(Activation)
      /\ Running \in Activation /\ Running.fn \in Functions /\ Running = acts[n]
      /\ rbp = Running.fp /\ rbp \in Nat /\ stack \in Seq(Value) /\ Len(stack) \in Nat
      /\ Len(stack) >= rbp + max_offset[Running.fn] /\ max_offset[Running.fn] \in Nat
    BY RunningIs
<1>3. v \in Nat
    BY <1>2, Layout DEF LaidOut
<1>4. /\ a \in Activation /\ a.fn = Running.fn /\ a.env = Running.env /\ a.fp = Running.fp
      /\ a.count = Running.count /\ a.calls = Running.calls
    BY <1>2, <1>3 DEF Activation
<1>5. o \in 1..max_offset[Running.fn] - 1
    BY <1>2, VariablePlaced
<1> HIDE DEF a, o
<1>6. SamePlace(Running, a) /\ Replaced(acts', acts, n, a)
    BY <1>1, <1>2, <1>4, ReplacedIs DEF SamePlace
<1>7. \A x \in 1..rbp : stack'[x] = stack[x]
    BY <1>1, <1>2, <1>5
<1>8. Handed(stack', reg', a, n, pc')
    <2>1. Running.count = 0
        BY <1>1 DEF IInv, Shape, AtPoint, AtBody
    <2>2. InHand(reg', a, n) /\ Given(stack', reg', a)
        BY <1>1, <1>4 DEF Parameters, Handed, InHand, Given
    <2>3. Displaced(a) = 0
        <3>1. Params[a.fn] # 0 => Displaced(a) = a.count
            BY <1>4, <2>1, Counted
        <3>2. Params[a.fn] = 0 => Displaced(a) = 0
            BY <1>4, Counted
        <3> QED BY <1>4, <2>1, <3>1, <3>2
    <2>4. OnTop(stack', a, n, Displaced(a))
        BY <2>3 DEF OnTop
    <2> QED BY <1>1, <2>2, <2>4 DEF Handed
<1> QED BY <1>6, <1>7, <1>8, ParamsStay

LEMMA StartCallParams ==
    ASSUME IInv, Parameters, NEW g \in Functions, StartCall(g)
    PROVE  Parameters'
<1> DEFINE r == [fn |-> g, args |-> <<>>, pops |-> 0]
           d == Append(Running.calls, r)
           a == [Running EXCEPT !.calls = d]
<1>1. acts' = [acts EXCEPT ![n] = a] /\ stack' = stack /\ reg' = reg /\ pc' = pc
    BY DEF StartCall, Running
<1>2. /\ n \in 1..n /\ Len(acts) = n /\ acts \in Seq(Activation)
      /\ Running \in Activation /\ Running = acts[n]
    BY RunningIs
<1>3. d \in Seq(CallRecord) /\ d[Len(d)] = r /\ r.args = <<>>
    <2>1. <<>> \in Seq(Value)
        BY EmptySeq, Zenon
    <2>2. r \in CallRecord /\ r.args = <<>>
        BY <2>1 DEF CallRecord
    <2>3. Running.calls \in Seq(CallRecord)
        BY <1>2 DEF Activation
    <2> HIDE DEF r
    <2> QED BY <2>2, <2>3
<1> HIDE DEF d
<1>4. /\ a \in Activation /\ a.fn = Running.fn /\ a.env = Running.env /\ a.fp = Running.fp
      /\ a.count = Running.count /\ a.calls = d
    BY <1>2, <1>3 DEF Activation
<1> HIDE DEF a, r
<1>5. SamePlace(Running, a) /\ Replaced(acts', acts, n, a)
    BY <1>1, <1>2, <1>4, ReplacedIs DEF SamePlace
<1>6. SameCount(Running, a)
    BY <1>3, <1>4 DEF SameCount, Turn
<1>7. Handed(stack', reg', a, n, pc')
    BY <1>1, <1>2, <1>4, <1>6, HandedKept DEF Parameters
<1> QED BY <1>1, <1>5, <1>7, ParamsStay

\* The call pushes the parameters its arguments have not displaced.
LEMMA MakeCallParams == ASSUME IInv, Parameters, MakeCall PROVE Parameters'
<1>1. /\ stack' = stack \o Saved(Running.count, Least(P, 4)) /\ reg' = reg /\ acts' = acts
      /\ pc = "body" /\ pc' = "call"
    BY DEF MakeCall
<1>2. /\ Running \in Activation /\ stack \in Seq(Value) /\ Len(stack) \in Nat
      /\ Running.fp \in Nat /\ max_offset[Running.fn] \in Nat /\ Words(Running) \in Nat
      /\ Top(Running) = Running.fp + max_offset[Running.fn] + Words(Running)
      /\ reg \in [Registers -> Value] /\ rbp \in Nat /\ Top(Running) \in Nat
      /\ Len(stack) >= rbp + max_offset[Running.fn]
    BY RunningIs, Sizes DEF IInv, Typed
<1>3. PICK k \in Nat, l \in 0..4 :
        k = Running.count /\ l = InRegisters(Running.fn) /\ l = Least(P, 4)
    BY <1>2, Counted DEF InRegisters, P
<1>4. Pushes(stack', stack, Saved(k, l))
    BY <1>1, <1>2, <1>3, SavedIs, PushesIs
<1>5. \A x \in 1..Len(stack) : stack'[x] = stack[x]
    BY <1>4 DEF Pushes
<1>6. Len(stack) = Top(Running) /\ AtBody(Running)
    <2>1. Len(stack) = Top(Running) + 0
        BY <1>1 DEF IInv, Shape, AtPoint
    <2> QED BY <1>1, <1>2, <2>1 DEF IInv, Shape, AtPoint
<1>7. Handed(stack, reg, Running, n, "body")
    BY <1>1 DEF Parameters
<1>8. PICK fp \in Nat, max \in Nat, words \in Nat, len \in Nat :
        /\ fp = Running.fp /\ max = max_offset[Running.fn] /\ words = Words(Running)
        /\ len = Len(stack) /\ len = fp + max + words
    BY <1>2, <1>6
<1>9. ASSUME NEW x \in 1..l PROVE stack'[Pushed(Running, x)] = ParamIs(n, x)
    <2>0. Params[Running.fn] # 0 /\ x \in Nat
        <3>1. x \in Nat /\ x >= 1 /\ l # 0
            OBVIOUS
        <3>2. Params[Running.fn] = 0 => l = 0
            BY <1>2, <1>3, Counted
        <3> QED BY <3>1, <3>2
    <2>1. Pushed(Running, x) = fp + max + x
        BY <1>8 DEF Pushed
    <2>2. CASE x <= Displaced(Running)
        <3>0. PICK d \in 0..4 : d = Displaced(Running)
            BY <1>2, Counted
        <3>1. x \in 1..d
            BY <2>0, <2>2, <3>0
        <3>2. stack[Pushed(Running, x)] = ParamIs(n, x)
            BY <1>7, <3>0, <3>1 DEF Handed, OnTop
        <3>3. d <= words
            <4>1. k <= 4 => d = k /\ words = k
                BY <1>2, <1>3, <1>8, <2>0, <3>0, Counted
            <4>2. k > 4 => words = d + (k - 4)
                BY <1>2, <1>3, <1>8, <2>0, <3>0, Counted
            <4> QED BY <4>1, <4>2
        <3>4. fp + max + x \in 1..len
            BY <1>8, <3>1, <3>3
        <3> QED BY <1>5, <1>8, <2>1, <3>2, <3>4
    <2>3. CASE ~ (x <= Displaced(Running))
        <3>1. k < 4 /\ Displaced(Running) = k /\ words = k
            <4>1. k <= 4 => Displaced(Running) = k /\ words = k
                BY <1>2, <1>3, <1>8, <2>0, Counted
            <4>2. k > 4 => Displaced(Running) = 4
                BY <1>2, <1>3, <2>0, Counted
            <4>3. x <= 4
                OBVIOUS
            <4> QED BY <2>0, <2>3, <4>1, <4>2, <4>3
        <3>2. x \in k + 1..l /\ x - k \in 1..(l - k) /\ k + (x - k) - 1 = x - 1 /\ l > k
            BY <2>0, <2>3, <3>1
        <3>3. /\ Len(Saved(k, l)) = l - k
              /\ Saved(k, l)[x - k] = reg[ParamReg(x - 1)]
            BY <1>2, <3>2, SavedIs
        <3>4. stack'[Len(stack) + (x - k)] = Saved(k, l)[x - k]
            BY <1>4, <3>2, <3>3 DEF Pushes
        <3>5. Len(stack) + (x - k) = fp + max + x
            BY <1>8, <2>0, <3>1
        <3>6. reg[ParamReg(x - 1)] = ParamIs(n, x)
            BY <1>3, <1>7, <3>2 DEF Handed, InHand
        <3> QED BY <2>1, <3>3, <3>4, <3>5, <3>6
    <2> QED BY <2>2, <2>3
<1>10. OnTop(stack', Running, n, InRegisters(Running.fn))
    BY <1>3, <1>9 DEF OnTop
<1>11. Given(stack', reg, Running)
    <2> SUFFICES ASSUME Running.calls # <<>>, NEW x \in 1..Len(Turn(Running).args)
                 PROVE  ArgAt(stack', reg, Running, x) = Turn(Running).args[x]
        BY DEF Given
    <2>1. ArgAt(stack, reg, Running, x) = Turn(Running).args[x]
        BY <1>7 DEF Handed, Given
    <2>2. CASE x <= 4
        BY <2>1, <2>2 DEF ArgAt
    <2>3. CASE ~ (x <= 4)
        <3>1. x \in Nat /\ x <= k /\ k > 4
            BY <1>3, <1>6, <2>3 DEF AtBody
        <3>2. PICK d \in 0..4 : d = Displaced(Running)
            BY <1>2, Counted
        <3>3. words = d + (k - 4)
            BY <1>2, <1>3, <1>8, <3>1, <3>2, Counted
        <3>6. ~ (x <= 4) /\ d \in Nat /\ len = fp + max + words
            BY <1>8, <2>3
        <3>4. fp + max + d + (x - 4) \in 1..len
            BY <3>1, <3>3, <3>6
        <3>5. stack'[Running.fp + max_offset[Running.fn] + Displaced(Running) + (x - 4)]
                = stack[Running.fp + max_offset[Running.fn] + Displaced(Running) + (x - 4)]
            BY <1>5, <1>8, <3>2, <3>4
        <3> QED BY <2>1, <2>3, <3>5 DEF ArgAt
    <2> QED BY <2>2, <2>3
<1>12. Handed(stack', reg', Running, n, pc')
    BY <1>1, <1>7, <1>10, <1>11 DEF Handed
<1>13. \A x \in 1..rbp : stack'[x] = stack[x]
    <2>1. \A x \in 1..rbp : x \in 1..Len(stack)
        BY <1>2
    <2> QED BY <1>5, <2>1
<1> QED BY <1>1, <1>12, <1>13, ParamsStill

\* An argument is read from a register that still holds what is meant.
LEMMA SourceMeant ==
    ASSUME Passed, IInv, NEW keeps, Temps(keeps), Parameters, NEW c \in Registers, Argument(c)
    PROVE  reg[c] = Meant(c)
<1>1. c \in Sources /\ Orderly
    BY DEF Argument, Passed
<1>2. /\ n \in 1..n /\ Running = acts[n] /\ Running \in Activation /\ MAX_REG \in Nat
      /\ P = Params[Running.fn]
    BY RunningIs, ParamRegs4
<1>3. CASE c \in Running.holds
    <2>1. c \in 1..MAX_REG
        BY <1>2, <1>3 DEF Activation
    <2>2. Unsaved(acts, c, n, n)
        BY <1>2 DEF Unsaved
    <2>3. reg[c] = TempOf(n, c)
        BY <1>2, <1>3, <2>2 DEF Temps, InRegisterOf
    <2> QED BY <1>2, <2>1, <2>3 DEF Meant, TempOf
<1>4. CASE c \notin Running.holds
    <2>1. PICK j \in Running.count..Least(P, 4) - 1 : c = ParamReg(j)
        BY <1>1, <1>4 DEF Sources
    <2>2. PICK k \in Nat, l \in 0..4 : k = Running.count /\ l = Least(P, 4) /\ l = InRegisters(Running.fn)
        BY <1>2, Counted DEF InRegisters
    <2>3. j \in Nat /\ j + 1 \in k + 1..l /\ (j + 1) - 1 = j
        BY <2>1, <2>2
    <2>4. reg[ParamReg(j)] = ParamIs(n, j + 1)
        BY <2>2, <2>3 DEF Parameters, Handed, InHand
    <2>5. ~ (c <= MAX_REG) /\ c - MAX_REG - 1 = j + 1
        BY <1>2, <2>1, <2>3 DEF ParamReg
    <2> QED BY <2>1, <2>4, <2>5 DEF Meant, ParamIs
<1> QED BY <1>3, <1>4

LEMMA ArgumentParams ==
    ASSUME Balanced, Passed, IInv, NEW keeps, Temps(keeps), Parameters,
           NEW c \in Registers, Argument(c)
    PROVE  Parameters'
<1>1. PICK k, g, a, r : ArgumentIs(c, k, g, a, r)
    BY ArgumentDoes
<1>2. /\ Running \in Activation /\ stack \in Seq(Value) /\ Len(stack) \in Nat
      /\ Running.fp \in Nat /\ max_offset[Running.fn] \in Nat /\ Words(Running) \in Nat
      /\ Top(Running) = Running.fp + max_offset[Running.fn] + Words(Running)
      /\ reg \in [Registers -> Value] /\ rbp \in Nat /\ Top(Running) \in Nat
      /\ Len(stack) >= rbp + max_offset[Running.fn] /\ P = Params[Running.fn] /\ P \in Nat
    BY RunningIs, Sizes DEF IInv, Typed
<1>3. /\ pc = "body" /\ pc' = "body" /\ k = Running.count /\ k \in Nat /\ a.count = k + 1
      /\ a \in Activation /\ a.fn = Running.fn /\ a.fp = Running.fp
      /\ a.calls # <<>> /\ Turn(a) = r /\ Len(r.args) = k + 1 /\ r.args[k + 1] = Meant(c)
      /\ Running.calls # <<>> /\ Len(Turn(Running).args) = k
      /\ \A x \in 1..k : r.args[x] = Turn(Running).args[x]
      /\ reg' = IF k < 4 THEN [reg EXCEPT ![ParamReg(k)] = reg[c]] ELSE reg
    BY <1>1 DEF ArgumentIs, SamePlace, LastIs, Argument
<1>k. k \in Nat
    BY <1>3
<1>4. Handed(stack, reg, Running, n, "body")
    BY <1>3 DEF Parameters
<1>5. reg[c] = Meant(c)
    BY SourceMeant
<1>6. Len(stack) = Top(Running)
    <2>1. Len(stack) = Top(Running) + 0
        BY <1>3 DEF IInv, Shape, AtPoint
    <2> QED BY <1>2, <2>1
<1>y. /\ InRegisters(Running.fn) \in 0..4 /\ Displaced(Running) \in 0..4 /\ Displaced(a) \in 0..4
      /\ Running.fp + max_offset[Running.fn] + Words(Running) = Len(stack)
    BY <1>2, <1>3, <1>6, Counted
<1>z. PICK l \in 0..4, d \in 0..4, e \in 0..4 :
        l = InRegisters(Running.fn) /\ d = Displaced(Running) /\ e = Displaced(a)
    BY <1>y
<1>w. PICK fp \in Nat, max \in Nat, words \in Nat, len \in Nat, p \in Nat :
        /\ fp = Running.fp /\ max = max_offset[Running.fn] /\ words = Words(Running)
        /\ len = Len(stack) /\ p = P
    BY <1>2
<1>7. /\ fp = Running.fp /\ max = max_offset[Running.fn] /\ words = Words(Running)
      /\ len = Len(stack) /\ len = fp + max + words /\ p = P
      /\ l = InRegisters(Running.fn) /\ d = Displaced(Running) /\ e = Displaced(a)
    BY <1>y, <1>z, <1>w
<1>x. len = fp + max + words
    BY <1>7
<1>8. /\ \A x : x \in 1..p /\ x <= 4 => x \in 1..l
      /\ k <= 4 /\ p # 0 => d = k /\ words = k
      /\ k < 4 /\ p # 0 => e = k + 1
      /\ p = 0 => d = 0 /\ e = 0
      /\ k >= 4 => e = d /\ words = d + (k - 4)
    <2>1. k + 1 \in Nat /\ (k < 4 => k + 1 <= 4) /\ (k >= 4 => k + 1 > 4 /\ (k > 4 \/ k = 4))
        BY <1>k
    <2>2. \A x : x \in 1..p /\ x <= 4 => x \in 1..l
        BY <1>2, <1>7, Counted
    <2>3. k <= 4 /\ p # 0 => d = k /\ words = k
        BY <1>2, <1>3, <1>7, Counted
    <2>4. k < 4 /\ p # 0 => e = k + 1
        BY <1>2, <1>3, <1>7, <2>1, Counted
    <2>5. p = 0 => d = 0 /\ e = 0
        BY <1>2, <1>3, <1>7, Counted
    <2>6. k >= 4 /\ p # 0 => e = 4
        BY <1>2, <1>3, <1>7, <2>1, Counted
    <2>7. k > 4 => words = d + (k - 4)
        BY <1>2, <1>3, <1>7, Counted
    <2>8. k > 4 /\ p # 0 => d = 4
        BY <1>2, <1>3, <1>7, Counted
    <2>9. k <= 4 /\ p = 0 => words = 0
        BY <1>2, <1>3, <1>7, Counted
    <2> QED BY <1>3, <2>1, <2>2, <2>3, <2>4, <2>5, <2>6, <2>7, <2>8, <2>9
<1>9. /\ k < 4 => p = 0 \/ k < p
      /\ k < 4 /\ p = 0 => stack' = stack
      /\ \A x \in 1..len : stack'[x] = stack[x]
      /\ k < 4 /\ p # 0 => stack'[len + 1] = reg[ParamReg(k)]
      /\ k >= 4 => stack'[len + 1] = reg[c]
    <2>1. /\ k < 4 => p = 0 \/ k < p
          /\ k < 4 /\ p = 0 => stack' = stack
        BY <1>1, <1>7 DEF ArgumentIs
    <2>2. ~ (k < 4 /\ p = 0) => Pushes(stack', stack, << IF k < 4 THEN reg[ParamReg(k)] ELSE reg[c] >>)
        BY <1>1, <1>7 DEF ArgumentIs
    <2>3. PICK y : y = IF k < 4 THEN reg[ParamReg(k)] ELSE reg[c]
        OBVIOUS
    <2>4. ~ (k < 4 /\ p = 0) => stack'[len + 1] = y /\ \A x \in 1..len : stack'[x] = stack[x]
        <3>1. Len(<<y>>) = 1 /\ <<y>>[1] = y /\ 1 \in 1..1
            OBVIOUS
        <3> QED BY <1>7, <2>2, <2>3, <3>1 DEF Pushes
    <2> QED BY <1>3, <2>1, <2>3, <2>4
<1>10. OnTop(stack', a, n, e)
    <2> SUFFICES ASSUME NEW x \in 1..e PROVE stack'[Pushed(a, x)] = ParamIs(n, x)
        BY DEF OnTop
    <2>1. Pushed(a, x) = fp + max + x /\ Pushed(Running, x) = fp + max + x
        BY <1>3, <1>7 DEF Pushed
    <2>2. p # 0 /\ x \in Nat /\ x >= 1 /\ x <= 4
        <3>1. p = 0 => e = 0
            BY <1>8
        <3> QED BY <3>1
    <2>3. CASE x <= d
        <3>1. x \in 1..d
            BY <2>2, <2>3
        <3>2. stack[Pushed(Running, x)] = ParamIs(n, x)
            BY <1>4, <1>7, <3>1 DEF Handed, OnTop
        <3>3. d <= words
            BY <1>3, <1>8, <2>2, SMTT(30)
        <3>4. fp + max + x \in 1..len
            BY <1>7, <3>1, <3>3
        <3> QED BY <1>9, <2>1, <3>2, <3>4
    <2>4. CASE ~ (x <= d)
        <3>1. k < 4 /\ x = k + 1 /\ words = k
            BY <1>3, <1>8, <2>2, <2>4
        <3>2. k < p /\ k + 1 \in 1..p /\ k + 1 <= 4
            BY <1>3, <1>9, <2>2, <3>1
        <3>3. k + 1 \in k + 1..l /\ (k + 1) - 1 = k
            BY <1>3, <1>8, <3>2
        <3>4. reg[ParamReg(k)] = ParamIs(n, k + 1)
            BY <1>3, <1>4, <1>7, <3>3 DEF Handed, InHand
        <3>5. fp + max + x = len + 1
            BY <1>k, <1>x, <3>1
        <3> QED BY <1>9, <2>1, <2>2, <3>1, <3>4, <3>5
    <2> QED BY <2>3, <2>4
<1>11. \A x \in 1..4 : x - 1 # k => reg'[ParamReg(x - 1)] = reg[ParamReg(x - 1)]
    <2> TAKE x \in 1..4
    <2>1. x - 1 \in 0..3 /\ x - 1 \in Int /\ k \in Int
        BY <1>3
    <2>2. x - 1 # k => ParamReg(x - 1) # ParamReg(k)
        BY <2>1, ParamRegs4
    <2>3. ParamReg(x - 1) \in Registers
        BY <2>1, ParamRegs4
    <2> QED BY <1>2, <1>3, <2>2, <2>3
<1>12. InHand(reg', a, n)
    <2> SUFFICES ASSUME NEW x \in a.count + 1..InRegisters(a.fn)
                 PROVE  reg'[ParamReg(x - 1)] = ParamIs(n, x)
        BY DEF InHand
    <2>1. x \in (k + 1) + 1..l
        BY <1>3, <1>7
    <2>2. x \in k + 1..l /\ x \in 1..4 /\ x - 1 # k
        BY <1>k, <2>1
    <2>3. reg[ParamReg(x - 1)] = ParamIs(n, x)
        BY <1>3, <1>4, <1>7, <2>2 DEF Handed, InHand
    <2> QED BY <1>11, <2>2, <2>3
<1>13. Given(stack', reg', a)
    <2> SUFFICES ASSUME NEW x \in 1..Len(Turn(a).args)
                 PROVE  ArgAt(stack', reg', a, x) = Turn(a).args[x]
        BY DEF Given
    <2>1. x \in 1..k + 1 /\ x \in Nat /\ x >= 1 /\ Turn(a).args[x] = r.args[x]
        BY <1>3
    <2>2. ArgAt(stack', reg', a, x) = IF x <= 4 THEN reg'[ParamReg(x - 1)] ELSE stack'[fp + max + e + (x - 4)]
        BY <1>3, <1>7 DEF ArgAt
    <2>3. CASE x = k + 1
        <3>1. CASE k < 4
            <4>1. x <= 4 /\ x - 1 = k /\ k \in 0..3
                BY <1>k, <2>3, <3>1
            <4>2. ParamReg(k) \in Registers
                BY <4>1, ParamRegs4
            <4>3. reg'[ParamReg(k)] = reg[c]
                BY <1>2, <1>3, <3>1, <4>2
            <4> QED BY <1>3, <1>5, <2>1, <2>2, <2>3, <4>1, <4>3
        <3>2. CASE k >= 4
            <4>1. ~ (x <= 4) /\ fp + max + e + (x - 4) = len + 1
                BY <1>k, <1>x, <1>8, <2>3, <3>2
            <4> QED BY <1>3, <1>5, <1>9, <2>1, <2>2, <2>3, <3>2, <4>1
        <3> QED BY <1>3, <3>1, <3>2
    <2>4. CASE x # k + 1
        <3>1. x \in 1..k /\ r.args[x] = Turn(Running).args[x]
            BY <1>3, <2>1, <2>4
        <3>2. ArgAt(stack, reg, Running, x) = r.args[x]
            BY <1>3, <1>4, <3>1 DEF Handed, Given
        <3>3. CASE x <= 4
            <4>1. x \in 1..4 /\ x - 1 # k
                BY <1>3, <2>1, <2>4, <3>3
            <4> QED BY <1>11, <2>1, <2>2, <3>2, <3>3, <4>1 DEF ArgAt
        <3>4. CASE ~ (x <= 4)
            <4>1. k >= 4 /\ e = d /\ words = d + (k - 4)
                BY <1>3, <1>8, <2>1, <3>1, <3>4
            <4>5. x \in 1..k /\ x - 4 \in 1..k - 4 /\ d \in Nat
                BY <1>k, <3>1, <3>4
            <4>2. fp + max + d + (x - 4) \in 1..len
                BY <1>k, <1>x, <4>1, <4>5
            <4>3. ArgAt(stack, reg, Running, x) = stack[fp + max + d + (x - 4)]
                BY <1>7, <3>4 DEF ArgAt
            <4> QED BY <1>9, <2>1, <2>2, <3>2, <3>4, <4>1, <4>2, <4>3
        <3> QED BY <3>3, <3>4
    <2> QED BY <2>3, <2>4
<1>14. Handed(stack', reg', a, n, pc')
    BY <1>3, <1>7, <1>10, <1>12, <1>13 DEF Handed
<1>15. \A x \in 1..rbp : stack'[x] = stack[x]
    <2>1. \A x \in 1..rbp : x \in 1..Len(stack)
        BY <1>2
    <2> QED BY <1>7, <1>9, <2>1
<1>16. SamePlace(Running, a) /\ Replaced(acts', acts, n, a)
    BY <1>1 DEF ArgumentIs
<1> QED BY <1>14, <1>15, <1>16, ParamsStay

\* A pop brings the last parameter displaced back into its register.
LEMMA PopParamParams ==
    ASSUME Balanced, IInv, Parameters, PopParam PROVE Parameters'
<1>1. PICK k, b : PopIs(k, b)
    BY PopDoes
<1>2. /\ Running \in Activation /\ stack \in Seq(Value) /\ Len(stack) \in Nat
      /\ Running.fp \in Nat /\ max_offset[Running.fn] \in Nat /\ Words(Running) \in Nat
      /\ Top(Running) = Running.fp + max_offset[Running.fn] + Words(Running)
      /\ reg \in [Registers -> Value] /\ rbp \in Nat /\ rbp = Running.fp
      /\ P = Params[Running.fn] /\ P \in Nat
    BY RunningIs, Sizes DEF IInv, Typed
<1>3. /\ pc = "pop" /\ pc' \in {"body", "pop"} /\ k = Running.count
      /\ b.count = (IF k > 4 THEN 4 ELSE k - 1)
      /\ b \in Activation /\ b.fn = Running.fn /\ b.fp = Running.fp
      /\ b.calls # <<>> => Turn(b).args = <<>>
      /\ Len(stack) = Top(Running) /\ Top(b) >= rbp + max_offset[Running.fn]
      /\ \A x \in 1..Top(b) : stack'[x] = stack[x]
      /\ reg' = IF k <= 4 /\ P # 0 THEN [reg EXCEPT ![ParamReg(k - 1)] = stack[Len(stack)]] ELSE reg
    BY <1>1 DEF PopIs, SamePlace, Prefix
<1>k. k \in Nat /\ k >= 1
    BY <1>1 DEF PopIs
<1>4. Handed(stack, reg, Running, n, "pop")
    BY <1>3 DEF Parameters
<1>y. /\ InRegisters(Running.fn) \in 0..4 /\ Displaced(Running) \in 0..4 /\ Displaced(b) \in 0..4
      /\ Running.fp + max_offset[Running.fn] + Words(Running) = Len(stack)
      /\ Top(b) = Running.fp + max_offset[Running.fn] + Words(b) /\ Words(b) \in Nat
    BY <1>2, <1>3, Counted, Sizes
<1>z. PICK l \in 0..4, d \in 0..4, e \in 0..4 :
        l = InRegisters(Running.fn) /\ d = Displaced(Running) /\ e = Displaced(b)
    BY <1>y
<1>w. PICK fp \in Nat, max \in Nat, words \in Nat, more \in Nat, len \in Nat, p \in Nat :
        /\ fp = Running.fp /\ max = max_offset[Running.fn] /\ words = Words(Running)
        /\ more = Words(b) /\ len = Len(stack) /\ p = P
    BY <1>2, <1>y
<1>x. len = fp + max + words /\ Top(b) = fp + max + more
    BY <1>y, <1>w
<1>8. /\ p = 0 => l = 0 /\ e = 0
      /\ p # 0 => e = b.count /\ more = b.count
      /\ k <= 4 /\ p # 0 => d = k /\ words = k
      /\ k > 4 /\ p # 0 => d = 4
    <2>1. b.count \in Nat /\ b.count <= 4
        BY <1>3, <1>k
    <2>2. p = 0 => l = 0 /\ e = 0
        BY <1>2, <1>3, <1>z, <1>w, Counted
    <2>3. p # 0 => e = b.count /\ more = b.count
        BY <1>2, <1>3, <1>z, <1>w, <2>1, Counted
    <2>4. k <= 4 /\ p # 0 => d = k /\ words = k
        BY <1>2, <1>3, <1>z, <1>w, Counted
    <2>5. k > 4 /\ p # 0 => d = 4
        BY <1>2, <1>3, <1>z, <1>w, Counted
    <2> QED BY <2>2, <2>3, <2>4, <2>5
<1>9. /\ p # 0 => e <= d /\ e <= more
      /\ b.count + 1 = (IF k > 4 THEN 5 ELSE k)
    <2>1. b.count = (IF k > 4 THEN 4 ELSE k - 1)
        BY <1>3
    <2> QED BY <1>k, <1>8, <2>1
<1>10. OnTop(stack', b, n, e)
    <2> SUFFICES ASSUME NEW x \in 1..e PROVE stack'[Pushed(b, x)] = ParamIs(n, x)
        BY DEF OnTop
    <2>1. Pushed(b, x) = fp + max + x /\ Pushed(Running, x) = fp + max + x
        BY <1>3, <1>w DEF Pushed
    <2>2. p # 0
        BY <1>8
    <2>3. x \in 1..d /\ fp + max + x \in 1..fp + max + more
        BY <1>9, <2>2
    <2>4. stack[Pushed(Running, x)] = ParamIs(n, x)
        BY <1>4, <1>z, <2>3 DEF Handed, OnTop
    <2> QED BY <1>3, <1>x, <2>1, <2>3, <2>4
<1>11. InHand(reg', b, n)
    <2> SUFFICES ASSUME NEW x \in b.count + 1..InRegisters(b.fn)
                 PROVE  reg'[ParamReg(x - 1)] = ParamIs(n, x)
        BY DEF InHand
    <2>1. x \in b.count + 1..l
        BY <1>3, <1>z
    <2>2. k <= 4 /\ x \in k..l /\ x \in 1..4 /\ p # 0
        BY <1>k, <1>8, <1>9, <2>1
    <2>3. x - 1 \in 0..3 /\ k - 1 \in 0..3 /\ x - 1 \in Int /\ k - 1 \in Int
        BY <1>k, <2>2
    <2>4. ParamReg(x - 1) \in Registers /\ ParamReg(k - 1) \in Registers
        BY <2>3, ParamRegs4
    <2>5. reg' = [reg EXCEPT ![ParamReg(k - 1)] = stack[Len(stack)]]
        BY <1>3, <1>w, <2>2
    <2>6. CASE x = k
        <3>1. Pushed(Running, k) = fp + max + k /\ k \in 1..d /\ words = k
            BY <1>k, <1>w, <1>8, <2>2 DEF Pushed
        <3>2. stack[Pushed(Running, k)] = ParamIs(n, k)
            BY <1>4, <1>z, <3>1 DEF Handed, OnTop
        <3>3. stack[Len(stack)] = ParamIs(n, k)
            BY <1>w, <1>x, <3>1, <3>2
        <3> QED BY <1>2, <2>4, <2>5, <2>6, <3>3
    <2>7. CASE x # k
        <3>1. x \in k + 1..l
            BY <1>k, <2>2, <2>7
        <3>2. reg[ParamReg(x - 1)] = ParamIs(n, x)
            BY <1>3, <1>4, <1>z, <3>1 DEF Handed, InHand
        <3>3. x - 1 # k - 1
            BY <1>k, <2>2, <2>7
        <3>4. ParamReg(x - 1) # ParamReg(k - 1)
            BY <2>3, <3>3, ParamRegs4
        <3> QED BY <1>2, <2>4, <2>5, <3>2, <3>4
    <2> QED BY <2>6, <2>7
<1>12. Given(stack', reg', b)
    <2>1. b.calls # <<>> => 1..Len(Turn(b).args) = {}
        BY <1>3
    <2> QED BY <2>1 DEF Given
<1>13. Handed(stack', reg', b, n, pc')
    BY <1>3, <1>z, <1>10, <1>11, <1>12 DEF Handed
<1>14. \A x \in 1..rbp : stack'[x] = stack[x]
    <2>1. \A x \in 1..fp : x \in 1..fp + max + more
        OBVIOUS
    <2>2. rbp = fp /\ Top(b) = fp + max + more
        BY <1>2, <1>w, <1>x
    <2> QED BY <1>3, <2>1, <2>2
<1>15. SamePlace(Running, b) /\ Replaced(acts', acts, n, b)
    BY <1>1 DEF PopIs
<1> QED BY <1>13, <1>14, <1>15, ParamsStay

\* What the called function receives as a parameter is the argument for it.
LEMMA ReceivedArgument ==
    ASSUME IInv, Running.calls # <<>>, InTurn(Running), NEW x \in 1..Len(Turn(Running).args),
           NEW k, k = ParamOf(x, Len(Turn(Running).args))
    PROVE  Received(Turn(Running).args[x], k) = ParamIs(n + 1, k)
<1>1. Running \in Activation
    BY RunningIs
<1>2. call = Turn(Running) /\ Turn(Running).args \in Seq(Value)
    BY <1>1, TurnIs DEF call
<1>3. x \in DOMAIN call.args
    BY <1>2
<1> QED BY <1>2, <1>3 DEF Received, ParamIs

\* The parameters the caller has pushed stay what they are, in its own name.
LEMMA EnterKeeps ==
    ASSUME IInv, NEW g, NEW w, NEW b, NEW q, EnterIs(g, w, b, q)
    PROVE  \A x \in 1..rbp + max_offset[Running.fn] + InRegisters(Running.fn) : stack'[x] = stack[x]
<1>1. /\ Running \in Activation /\ Len(stack) \in Nat /\ rbp = Running.fp /\ Running.fn \in Functions
      /\ rbp \in Nat /\ max_offset[Running.fn] \in Nat
    BY RunningIs
<1>2. g \in Calls[Running.fn] /\ Running.count = Params[g] /\ Len(stack) = Top(Running) + Rest(Running)
    BY DEF EnterIs, AtCall
<1>3. g \in Functions /\ Params[g] \in Nat
    BY <1>1, <1>2, Called, ProgramAssumption
<1>4. /\ Top(Running) = Running.fp + max_offset[Running.fn] + Words(Running)
      /\ Words(Running) \in Nat /\ Rest(Running) \in 0..4
      /\ InRegisters(Running.fn) \in 0..4 /\ Displaced(Running) \in 0..4
      /\ InRegisters(Running.fn) <= Words(Running) + Rest(Running)
    BY <1>1, Sizes, AllPushed, Counted
<1>5. PICK l \in 0..4, d \in 0..4, rest \in 0..4 :
        l = InRegisters(Running.fn) /\ d = Displaced(Running) /\ rest = Rest(Running)
    BY <1>4
<1>6. PICK fp \in Nat, max \in Nat, words \in Nat, len \in Nat, c \in Nat :
        /\ fp = rbp /\ max = max_offset[Running.fn] /\ words = Words(Running)
        /\ len = Len(stack) /\ c = Params[g]
    BY <1>1, <1>3, <1>4
<1>7. len = fp + max + words + rest /\ l <= words + rest
    BY <1>1, <1>2, <1>4, <1>5, <1>6
<1>8. /\ c > 4 => words = d + (c - 4) /\ rest = 0
      /\ c > 4 => l <= d
    <2>1. c > 4 => words = d + (c - 4) /\ rest = 0
        BY <1>1, <1>2, <1>5, <1>6, Counted
    <2>2. Params[Running.fn] = 0 => l = 0
        BY <1>1, <1>5, Counted
    <2>3. Params[Running.fn] # 0 /\ c > 4 => d = 4
        BY <1>1, <1>2, <1>5, <1>6, Counted
    <2> QED BY <2>1, <2>2, <2>3
<1>9. \A x \in 1..fp + max + l : x \in 1..len /\ x \notin len - (c - 5)..len
    <2> TAKE x \in 1..fp + max + l
    <2>1. x \in 1..len
        BY <1>7
    <2>2. CASE c > 4
        <3>1. len - (c - 5) = fp + max + d + 1
            BY <1>7, <1>8, <2>2
        <3> QED BY <1>8, <2>1, <2>2, <3>1
    <2>3. CASE ~ (c > 4)
        <3>1. len - (c - 5) > len
            BY <2>3
        <3> QED BY <2>1, <3>1
    <2> QED BY <2>1, <2>2, <2>3
<1>10. \A x \in 1..len : stack'[x] = IF x \in len - (c - 5)..len
                           THEN Received(stack[x], 5 + (len - x)) ELSE stack[x]
    BY <1>6 DEF EnterIs
<1>11. \A x \in 1..fp + max + l : stack'[x] = stack[x]
    BY <1>9, <1>10
<1> QED BY <1>5, <1>6, <1>11

\* The function entered finds its parameters in their registers and above its frame.
LEMMA EnterHands ==
    ASSUME IInv, Parameters, NEW g, NEW w, NEW b, NEW q, EnterIs(g, w, b, q)
    PROVE  InHand(reg', b, n + 1) /\ BelowFrame(stack', b, n + 1)
<1>1. /\ Running \in Activation /\ Len(stack) \in Nat /\ rbp = Running.fp /\ Running.fn \in Functions
      /\ rbp \in Nat /\ max_offset[Running.fn] \in Nat /\ MAX_REG \in Nat
    BY RunningIs, ParamRegs4
<1>2. /\ g \in Calls[Running.fn] /\ Running.count = Params[g] /\ Len(stack) = Top(Running) + Rest(Running)
      /\ Running.calls # <<>> /\ InTurn(Running) /\ Running.count = Len(Turn(Running).args)
      /\ b.fn = g /\ b.fp = Len(stack) + 3 /\ b.count = 0 /\ b \in Activation
    BY DEF EnterIs, AtCall
<1>3. g \in Functions /\ Params[g] \in Nat
    BY <1>1, <1>2, Called, ProgramAssumption
<1>4. \A x \in 1..Len(Turn(Running).args) : ArgAt(stack, reg, Running, x) = Turn(Running).args[x]
    BY <1>2 DEF Parameters, Handed, Given
<1>5. PICK c \in Nat : c = Params[g] /\ c = Len(Turn(Running).args)
    BY <1>2, <1>3
<1>6. ASSUME NEW x \in b.count + 1..InRegisters(b.fn)
      PROVE  reg'[ParamReg(x - 1)] = ParamIs(n + 1, x)
    <2>1. InRegisters(b.fn) \in 0..4 /\ InRegisters(b.fn) <= c
        BY <1>2, <1>5, Counted
    <2>2. x \in 1..4 /\ x \in 1..c /\ x - 1 \in 0..3
        BY <1>2, <1>6, <2>1
    <2>3. ParamReg(x - 1) \in Registers /\ ParamReg(x - 1) - MAX_REG - 1 = x
        <3>1. ParamReg(x - 1) \in Registers
            BY <2>2, ParamRegs4
        <3> QED BY <1>1, <2>2, <3>1 DEF ParamReg
    <2>4. reg'[ParamReg(x - 1)] = Received(reg[ParamReg(x - 1)], x)
        <3>1. reg' = [r \in Registers |->
                 IF \E k \in 1..c : r = ParamReg(k - 1) /\ k <= 4
                   THEN Received(reg[r], r - MAX_REG - 1) ELSE reg[r]]
            BY <1>5 DEF EnterIs
        <3>2. \E k \in 1..c : ParamReg(x - 1) = ParamReg(k - 1) /\ k <= 4
            BY <2>2
        <3> QED BY <2>3, <3>1, <3>2
    <2>5. reg[ParamReg(x - 1)] = Turn(Running).args[x]
        <3>1. x <= 4
            BY <2>2
        <3> QED BY <1>4, <1>5, <2>2, <3>1 DEF ArgAt
    <2>6. x = ParamOf(x, Len(Turn(Running).args))
        BY <2>2 DEF ParamOf
    <2> QED BY <1>2, <1>5, <2>2, <2>4, <2>5, <2>6, ReceivedArgument
<1>7. ASSUME NEW y \in 5..Params[b.fn]
      PROVE  stack'[b.fp - (y - 2)] = ParamIs(n + 1, y)
    <2>1. y \in 5..c /\ c > 4
        BY <1>2, <1>5, <1>7
    <2>2. PICK d \in 0..4 : d = Displaced(Running)
        BY <1>1, Counted
    <2>3. Words(Running) = d + (c - 4) /\ Rest(Running) = 0
        BY <1>1, <1>2, <1>5, <2>1, <2>2, Counted
    <2>4. PICK fp \in Nat, max \in Nat, len \in Nat :
            fp = Running.fp /\ max = max_offset[Running.fn] /\ len = Len(stack)
        BY <1>1
    <2>5. len = fp + max + d + (c - 4)
        <3>1. PICK words \in Nat : words = Words(Running) /\ words = d + (c - 4)
            BY <1>1, <2>3, Sizes
        <3>2. Top(Running) = fp + max + words
            BY <2>4, <3>1 DEF Top
        <3>3. len = fp + max + words + 0
            BY <1>2, <2>3, <2>4, <3>2
        <3> QED BY <3>1, <3>3
    <2>6. PICK i \in 1..len : i = len + 5 - y
        BY <2>1, <2>5
    <2>7. PICK x \in 5..c : x = c + 5 - y
        BY <2>1
    <2>8. b.fp - (y - 2) = i
        BY <1>2, <2>1, <2>4, <2>6
    <2>9. stack'[i] = Received(stack[i], y)
        <3>1. i \in len - (c - 5)..len /\ 5 + (len - i) = y
            BY <2>1, <2>6
        <3>2. \A j \in 1..len : stack'[j] = IF j \in len - (c - 5)..len
                             THEN Received(stack[j], 5 + (len - j)) ELSE stack[j]
            BY <1>5, <2>4 DEF EnterIs
        <3> QED BY <3>1, <3>2
    <2>10. fp + max + d + (x - 4) = i
        BY <2>1, <2>5, <2>6, <2>7
    <2>11. ~ (x <= 4) /\ x \in 1..c
        BY <2>7
    <2>12. stack[i] = Turn(Running).args[x]
        BY <1>4, <1>5, <2>2, <2>4, <2>10, <2>11 DEF ArgAt
    <2>13. y = ParamOf(x, c)
        <3>1. y = c + 5 - x
            BY <2>1, <2>7
        <3> QED BY <2>11, <3>1 DEF ParamOf
    <2> QED BY <1>2, <1>5, <2>8, <2>9, <2>11, <2>12, <2>13, ReceivedArgument
<1> QED BY <1>6, <1>7 DEF InHand, BelowFrame

LEMMA EnterParams == ASSUME IInv, Parameters, Enter PROVE Parameters'
<1>1. PICK g, w, b, q : EnterIs(g, w, b, q)
    BY EnterDoes
<1>2. /\ n \in 1..n /\ Len(acts) = n /\ acts \in Seq(Activation) /\ n \in Nat
      /\ Running \in Activation /\ Running.fn \in Functions /\ Running = acts[n]
      /\ Frozen(stack, acts) /\ rbp = Running.fp /\ rbp \in Nat
      /\ max_offset[Running.fn] \in Nat
    BY RunningIs
<1>3. /\ Len(acts') = n + 1 /\ acts'[n] = w /\ acts'[n + 1] = b /\ pc = "call" /\ pc' = "body"
      /\ \A i \in 1..n : i # n => acts'[i] = acts[i]
      /\ w.fn = Running.fn /\ w.env = Running.env /\ w.fp = Running.fp
      /\ b.count = 0 /\ b.calls = <<>> /\ b \in Activation
    BY <1>1 DEF EnterIs, SamePlace
<1>4. n' = n + 1
    BY <1>3 DEF n
<1>5. Running' = b
    BY <1>3, <1>4 DEF Running
<1>6. SameFrames(acts, acts', n)
    <2> SUFFICES ASSUME NEW i \in 1..n
                 PROVE  acts'[i].fn = acts[i].fn /\ acts'[i].env = acts[i].env
                        /\ acts'[i].fp = acts[i].fp
        BY DEF SameFrames
    <2>1. CASE i = n
        BY <2>1, <1>2, <1>3
    <2>2. CASE i # n
        BY <2>2, <1>3
    <2> QED BY <2>1, <2>2
<1>7. PICK l \in 0..4 : l = InRegisters(Running.fn)
    BY <1>2, Counted
<1>8. PICK fp \in Nat, max \in Nat : fp = rbp /\ max = max_offset[Running.fn]
    BY <1>2
<1>9. \A x \in 1..fp + max + l : stack'[x] = stack[x]
    BY <1>1, <1>7, <1>8, EnterKeeps
<1>10. SameParams(stack, stack', acts[n].fp, n)
    <2>1. \A x \in 1..fp : x \in 1..fp + max + l
        OBVIOUS
    <2>2. acts[n].fp = fp
        BY <1>2, <1>8
    <2> QED BY <1>9, <2>1, <2>2 DEF SameParams
<1>11. Waited(stack', acts', n - 1) /\ Above(stack', acts', n)
    BY <1>2, <1>6, <1>10, BelowKept DEF Parameters
<1>12. OnTop(stack', acts'[n], n, InRegisters(acts'[n].fn))
    <2> SUFFICES ASSUME NEW x \in 1..l PROVE stack'[Pushed(acts'[n], x)] = ParamIs(n, x)
        BY <1>3, <1>7 DEF OnTop
    <2>1. Pushed(acts'[n], x) = fp + max + x /\ Pushed(Running, x) = fp + max + x
        BY <1>2, <1>3, <1>8 DEF Pushed
    <2>2. fp + max + x \in 1..fp + max + l
        OBVIOUS
    <2>3. stack[Pushed(Running, x)] = ParamIs(n, x)
        BY <1>3, <1>7 DEF Parameters, Handed, OnTop
    <2> QED BY <1>9, <2>1, <2>2, <2>3
<1>13. InHand(reg', b, n + 1) /\ BelowFrame(stack', b, n + 1)
    BY <1>1, EnterHands
<1>14. Waited(stack', acts', n)
    <2>1. \A i \in 1..n : i # n => i \in 1..n - 1
        BY <1>2
    <2> QED BY <1>11, <1>12, <2>1 DEF Waited
<1>15. Above(stack', acts', n + 1)
    <2>1. \A i \in 1..n + 1 : i # n + 1 => i \in 1..n
        BY <1>2
    <2> QED BY <1>3, <1>11, <1>13, <2>1 DEF Above
<1>16. Handed(stack', reg', b, n + 1, pc')
    <2>1. Displaced(b) = 0
        <3>1. Params[b.fn] # 0 => Displaced(b) = b.count
            BY <1>3, Counted
        <3>2. Params[b.fn] = 0 => Displaced(b) = 0
            BY <1>3, Counted
        <3> QED BY <1>3, <3>1, <3>2
    <2>2. OnTop(stack', b, n + 1, Displaced(b)) /\ Given(stack', reg', b)
        BY <1>3, <2>1 DEF OnTop, Given
    <2> QED BY <1>3, <1>13, <2>2 DEF Handed
<1>17. (n + 1) - 1 = n
    BY <1>2
<1> QED BY <1>4, <1>5, <1>14, <1>15, <1>16, <1>17 DEF Parameters

\* The caller has its parameters again where they were when it called.
LEMMA ReturnHands ==
    ASSUME Balanced, IInv, Parameters, NEW f, NEW a, NEW w, ReturnIs(f, a, w)
    PROVE  OnTop(stack', w, n - 1, Displaced(w)) /\ InHand(reg', w, n - 1)
<1>1. /\ n \in Nat /\ Running \in Activation /\ Running.fn \in Functions /\ rbp \in Nat
    BY RunningIs
<1>2. /\ n > 1 /\ f = Running.fn /\ a = acts[n - 1] /\ a \in Activation /\ Waits(a, Running)
      /\ rbp = Top(a) + Rest(a) + 3 /\ \A i \in 1..Top(a) : stack'[i] = Forget(stack[i])
      /\ w \in Activation /\ w.fn = a.fn /\ w.fp = a.fp /\ w.count = a.count
    BY DEF ReturnIs, SamePlace
<1>3. PICK fp \in Nat, max \in Nat, words \in Nat, rest \in 0..4, c \in Nat, p \in Nat :
        /\ fp = a.fp /\ max = max_offset[a.fn] /\ words = Words(a) /\ rest = Rest(a)
        /\ c = a.count /\ p = Params[a.fn] /\ Top(a) = fp + max + words
    BY <1>2, Sizes
<1>4. PICK l \in 0..4, d \in 0..4 : l = InRegisters(a.fn) /\ d = Displaced(w) /\ l <= p
    BY <1>2, <1>3, Counted
<1>5. /\ p = 0 => d = 0 /\ l = 0
      /\ p # 0 /\ c <= 4 => d = c /\ words = c
      /\ p # 0 /\ c > 4 => d = 4 /\ words = d + (c - 4)
      /\ c < l => rest = l - c
    <2>1. p = 0 => d = 0 /\ l = 0
        BY <1>2, <1>3, <1>4, Counted
    <2>2. Displaced(w) = Displaced(a)
        BY <1>2 DEF Displaced
    <2>3. p # 0 /\ c <= 4 => d = c /\ words = c
        BY <1>2, <1>3, <1>4, <2>2, Counted
    <2>4. p # 0 /\ c > 4 => d = 4
        BY <1>2, <1>3, <1>4, <2>2, Counted
    <2>5. c > 4 => words = d + (c - 4)
        BY <1>2, <1>3, <1>4, <2>2, Counted
    <2>6. c < l => rest = l - c
        BY <1>2, <1>3, <1>4, Counted
    <2> QED BY <2>1, <2>3, <2>4, <2>5, <2>6
<1>6. d <= l /\ d <= words
    <2>1. a.calls # <<>> /\ InTurn(a) /\ Turn(a).fn = f /\ c = Params[f]
        BY <1>2, <1>3 DEF Waits
    <2>2. f \in Calls[a.fn] /\ a.fn \in Functions
        BY <1>2, <2>1, TurnIs, Sizes
    <2>3. p = 0 \/ Least(c, 4) <= p
        BY <1>3, <2>1, <2>2 DEF Balanced
    <2>4. l = Least(p, 4)
        BY <1>3, <1>4 DEF InRegisters
    <2> QED BY <1>5, <2>3, <2>4 DEF Least
<1>7. ASSUME NEW x \in 1..l PROVE stack[fp + max + x] = ParamIs(n - 1, x)
    <2>1. n - 1 \in 1..n - 1 /\ x \in 1..InRegisters(acts[n - 1].fn)
        BY <1>1, <1>2, <1>4
    <2>2. stack[Pushed(a, x)] = ParamIs(n - 1, x)
        BY <1>2, <2>1 DEF Parameters, Waited, OnTop
    <2> QED BY <1>3, <2>2 DEF Pushed
<1>8. ASSUME NEW x PROVE Forget(ParamIs(n - 1, x)) = ParamIs(n - 1, x)
    <2>1. ParamIs(n - 1, x)[2] = n - 1 /\ n - 1 # n
        BY <1>1 DEF ParamIs
    <2> QED BY <2>1 DEF Forget
<1>9. OnTop(stack', w, n - 1, d)
    <2> SUFFICES ASSUME NEW x \in 1..d PROVE stack'[Pushed(w, x)] = ParamIs(n - 1, x)
        BY DEF OnTop
    <2>1. Pushed(w, x) = fp + max + x
        BY <1>2, <1>3 DEF Pushed
    <2>2. x \in 1..l /\ fp + max + x \in 1..fp + max + words
        BY <1>6
    <2>3. stack'[fp + max + x] = Forget(stack[fp + max + x])
        BY <1>2, <1>3, <2>2
    <2> QED BY <1>7, <1>8, <2>1, <2>2, <2>3
<1>10. ASSUME NEW x \in w.count + 1..InRegisters(w.fn)
       PROVE  reg'[ParamReg(x - 1)] = ParamIs(n - 1, x)
    <2>1. x \in c + 1..l
        BY <1>2, <1>3, <1>4
    <2>2. x \in 1..l /\ c < l /\ c <= 4 /\ x - 1 \in 0..3 /\ p # 0
        BY <1>5, <2>1
    <2>3. ParamReg(x - 1) \in Registers
        BY <2>2, ParamRegs4
    <2>4. /\ ParamReg(x - 1) >= ParamReg(c) /\ ParamReg(x - 1) < ParamReg(l)
          /\ ParamReg(l) - 1 - ParamReg(x - 1) = l - x
        BY <2>1, ParamRegs4 DEF ParamReg
    <2>5. rbp - 3 - (l - x) = fp + max + x
        <3>1. words = c /\ rest = l - c /\ rbp = fp + max + words + rest + 3
            BY <1>2, <1>3, <1>5, <2>2
        <3> QED BY <2>2, <3>1
    <2>6. reg'[ParamReg(x - 1)] = Forget(stack[rbp - 3 - (ParamReg(l) - 1 - ParamReg(x - 1))])
        <3>1. \A r \in Registers : r >= ParamReg(c) /\ r < ParamReg(l)
                 => reg'[r] = Forget(stack[rbp - 3 - (ParamReg(l) - 1 - r)])
            BY <1>3, <1>4 DEF ReturnIs
        <3> QED BY <2>3, <2>4, <3>1
    <2> QED BY <1>7, <1>8, <2>2, <2>4, <2>5, <2>6
<1> QED BY <1>4, <1>9, <1>10 DEF InHand

LEMMA ReturnParams == ASSUME Balanced, IInv, Parameters, Return PROVE Parameters'
<1>1. PICK f, a, w : ReturnIs(f, a, w)
    BY ReturnDoes
<1>2. /\ n \in 1..n /\ Len(acts) = n /\ acts \in Seq(Activation) /\ n \in Nat
      /\ Frozen(stack, acts)
    BY RunningIs
<1>3. /\ Len(acts') = n - 1 /\ acts'[n - 1] = w /\ \A i \in 1..n - 2 : acts'[i] = acts[i]
      /\ a = acts[n - 1] /\ n > 1 /\ a \in Activation /\ pc' \in {"body", "pop"}
      /\ w.fn = a.fn /\ w.env = a.env /\ w.fp = a.fp /\ (w.calls # <<>> => Turn(w).args = <<>>)
      /\ \A x \in 1..Top(a) : stack'[x] = Forget(stack[x])
    BY <1>1 DEF ReturnIs, SamePlace
<1>4. n - 1 \in 1..Len(acts) /\ \A i \in 1..n - 1 : i \in 1..n /\ (i # n - 1 => i \in 1..n - 2)
    BY <1>2, <1>3
<1>5. SameFrames(acts, acts', n - 1)
    <2> SUFFICES ASSUME NEW i \in 1..n - 1
                 PROVE  acts'[i].fn = acts[i].fn /\ acts'[i].env = acts[i].env
                        /\ acts'[i].fp = acts[i].fp
        BY DEF SameFrames
    <2>1. CASE i = n - 1
        BY <2>1, <1>3
    <2>2. CASE i # n - 1
        BY <2>2, <1>3, <1>4
    <2> QED BY <2>1, <2>2
<1>6. n' = n - 1
    BY <1>3 DEF n
<1>7. Running' = w
    BY <1>3, <1>6 DEF Running
<1>8. SameParams(stack, stack', acts[n - 1].fp, n - 1)
    <2> SUFFICES ASSUME NEW x \in 1..a.fp, NEW i \in 1..n - 1, NEW y, stack[x] = ParamIs(i, y)
                 PROVE  stack'[x] = ParamIs(i, y)
        BY <1>3 DEF SameParams
    <2>1. Forget(ParamIs(i, y)) = ParamIs(i, y)
        <3>1. ParamIs(i, y)[2] = i /\ i # n
            BY <1>2 DEF ParamIs
        <3> QED BY <3>1 DEF Forget
    <2>2. PICK fp \in Nat, max \in Nat, words \in Nat :
            fp = a.fp /\ max = max_offset[a.fn] /\ words = Words(a) /\ Top(a) = fp + max + words
        <3>1. /\ a.fp \in Nat /\ max_offset[a.fn] \in Nat /\ Words(a) \in Nat
              /\ Top(a) = a.fp + max_offset[a.fn] + Words(a)
            BY <1>3, Sizes
        <3> QED BY <3>1
    <2>3. x \in 1..fp
        BY <2>2
    <2>4. x \in 1..fp + max + words
        BY <2>3
    <2> QED BY <1>3, <2>1, <2>2, <2>4
<1>9. Waited(stack, acts, (n - 1) - 1) /\ Above(stack, acts, n - 1)
    <2>1. \A i \in 1..(n - 1) - 1 : i \in 1..n - 1
        BY <1>2, <1>3
    <2> QED BY <1>4, <2>1 DEF Parameters, Waited, Above
<1>10. Waited(stack', acts', (n - 1) - 1) /\ Above(stack', acts', n - 1)
    BY <1>2, <1>4, <1>5, <1>8, <1>9, BelowKept
<1>11. OnTop(stack', w, n - 1, Displaced(w)) /\ InHand(reg', w, n - 1)
    BY <1>1, ReturnHands
<1>12. Given(stack', reg', w)
    <2>1. w.calls # <<>> => 1..Len(Turn(w).args) = {}
        BY <1>3
    <2> QED BY <2>1 DEF Given
<1>13. Handed(stack', reg', w, n - 1, pc')
    BY <1>3, <1>11, <1>12 DEF Handed
<1> QED BY <1>6, <1>7, <1>10, <1>13 DEF Parameters

LEMMA NextParams ==
    ASSUME Balanced, Passed, IInv, NEW keeps, Temps(keeps), Parameters, [Next]_vars
    PROVE  Parameters'
<1>1. CASE UNCHANGED vars
    <2>1. n' = n /\ Running' = Running
        BY <1>1 DEF vars, n, Running
    <2> QED BY <1>1, <2>1 DEF vars, Parameters
<1>2. CASE NextSegment
    BY <1>1, <1>2, NextSegmentIs
<1>3. CASE Next /\ ~NextSegment
    BY <1>3, ComputeParams, ArgumentParams, PrintStringParams, DeclareParams, StartCallParams,
       OtherParams, MakeCallParams, EnterParams, ReturnParams, PopParamParams DEF Next
<1> QED BY <1>1, <1>2, <1>3

LEMMA InitParams == ASSUME Init PROVE Parameters
<1>1. IInv
    BY InitIInv
<1>2. n \in 1..n /\ Len(acts) = n /\ Running = acts[n] /\ Running \in Activation
    BY <1>1, RunningIs
<1> DEFINE a == NewActivation(Module, 0, [h \in Functions |-> IF h = Module THEN 1 ELSE 0])
<1>3. acts = <<a>> /\ a.fn = Module /\ a.count = 0 /\ a.calls = <<>> /\ pc = "body"
    BY DEF Init, NewActivation
<1> HIDE DEF a
<1>4. Len(acts) = 1 /\ acts[1] = a
    BY <1>3
<1>5. n = 1 /\ Running = a
    BY <1>2, <1>4
<1>6. Params[Module] = 0
    BY ProgramAssumption
<1>7. InRegisters(Module) = 0 /\ Displaced(a) = 0
    BY <1>2, <1>3, <1>5, <1>6, Counted
<1>8. Handed(stack, reg, Running, n, pc)
    <2>1. a.count + 1..InRegisters(a.fn) = {} /\ 1..Displaced(a) = {}
        BY <1>3, <1>7
    <2> QED BY <1>3, <1>5, <2>1 DEF Handed, OnTop, InHand, Given
<1>9. Waited(stack, acts, n - 1) /\ Above(stack, acts, n)
    <2>1. 1..n - 1 = {} /\ \A i \in 1..n : acts[i] = a
        BY <1>4, <1>5
    <2>2. 5..Params[a.fn] = {}
        BY <1>3, <1>6
    <2> QED BY <2>1, <2>2 DEF Waited, Above, BelowFrame
<1> QED BY <1>8, <1>9 DEF Parameters

\* A parameter is where the function reads it.
LEMMA ParametersRead == ASSUME IInv, Parameters PROVE ParametersKept
<1> SUFFICES ASSUME pc = "body", NEW k \in Running.count + 1..P
             PROVE  (IF k <= 4 THEN reg[ParamReg(k - 1)] ELSE Read(Running.fp - (k - 2)))
                      = <<"param", n, k>>
    BY DEF ParametersKept
<1>1. /\ n \in 1..n /\ Len(acts) = n /\ acts \in Seq(Activation) /\ Running \in Activation
      /\ Frozen(stack, acts) /\ Running = acts[n] /\ P = Params[Running.fn] /\ P \in Nat
      /\ rbp = Running.fp /\ rbp \in Nat /\ max_offset[Running.fn] \in Nat
      /\ stack \in Seq(Value) /\ Len(stack) \in Nat /\ Len(stack) >= rbp + max_offset[Running.fn]
    BY RunningIs
<1>2. PICK c \in Nat, p \in Nat : c = Running.count /\ p = P
    BY <1>1, Sizes
<1>3. k \in c + 1..p /\ k \in 1..p
    BY <1>2
<1>4. CASE k <= 4
    <2>1. k \in 1..InRegisters(Running.fn) /\ InRegisters(Running.fn) \in Nat
        BY <1>1, <1>2, <1>3, <1>4, Counted
    <2>2. k \in Running.count + 1..InRegisters(Running.fn)
        BY <1>2, <1>3, <2>1
    <2> QED BY <1>4, <2>2 DEF Parameters, Handed, InHand, ParamIs
<1>5. CASE ~ (k <= 4)
    <2>1. k \in 5..Params[acts[n].fn]
        BY <1>1, <1>2, <1>3, <1>5
    <2>2. stack[acts[n].fp - (k - 2)] = ParamIs(n, k)
        BY <1>1, <2>1 DEF Parameters, Above, BelowFrame
    <2>3. acts[n].fp - (k - 2) \in 1..rbp
        BY <1>1, <2>1, ParamsBelow
    <2>4. \A x \in 1..rbp : x \in DOMAIN stack
        BY <1>1
    <2>5. Read(acts[n].fp - (k - 2)) = ParamIs(n, k)
        BY <2>2, <2>3, <2>4 DEF Read
    <2> QED BY <1>1, <1>5, <2>5 DEF ParamIs
<1> QED BY <1>4, <1>5

(***************************************************************************)
(* A function reads what its caller passed it, in the registers and above  *)
(* its frame, before and after the calls whose arguments displace them.    *)
(***************************************************************************)
THEOREM ParametersHold ==
    ASSUME Balanced, Passed, NEW keeps, Keeps(keeps) PROVE Spec => []ParametersKept
<1>1. Init => IInv /\ Temps(keeps) /\ Parameters
    BY InitIInv, InitTemps, InitParams
<1>2. IInv /\ Temps(keeps) /\ Parameters /\ [Next]_vars => Temps(keeps)' /\ Parameters'
    BY NextTemps, NextParams
<1>3. IInv /\ Parameters => ParametersKept
    BY ParametersRead
<1>4. Spec => []IInv
    BY Inductive
<1> QED BY <1>1, <1>2, <1>3, <1>4, PTL DEF Spec

(***************************************************************************)
(* Captured variables.  A declared variable is in its slot, which nothing  *)
(* else is stored in; a traversal is after a variable that its owner has   *)
(* declared, or after a parameter of a function that waits.                *)
(***************************************************************************)
VarOf(i, v)   == <<"var", i, v>>
Place(a, v)   == a.fp + Offset(a.fn, "var", v)

VarsHeld(m, s, k) == \A i \in 1..k : \A v \in s[i].declared : m[Place(s[i], v)] = VarOf(i, v)

Sought ==
    pc = "find" =>
      /\ sought[1] = "var" => sought[2] \in acts[Running.env[goal]].declared
      /\ sought[1] # "var" => /\ sought[1] = "param" /\ goal # Running.fn
                              /\ sought[2] \in DOMAIN escapes[goal]

\* p has the variables of activations 1..k that are in the first l words of m.
SameVars(m, p, l, k) ==
    \A x \in 1..l : \A i \in 1..k : \A v : m[x] = VarOf(i, v) => p[x] = VarOf(i, v)

\* Activations 1..k of s and t have declared the same, variables of theirs.
SameDeclared(s, t, k) ==
    \A i \in 1..k : t[i].declared = s[i].declared /\ s[i].declared \subseteq Variables(s[i].fn)

LEMMA PlaceBelow ==
    ASSUME Balanced, NEW m, NEW s \in Seq(Activation), Frozen(m, s), NEW k \in 1..Len(s),
           NEW i \in 1..k, NEW v \in Variables(s[i].fn)
    PROVE  Place(s[i], v) \in 1..s[k].fp + max_offset[s[k].fn]
<1>1. i \in 1..Len(s) /\ s[i] \in Activation /\ s[k] \in Activation
    OBVIOUS
<1>2. /\ s[i].fp \in Nat /\ s[k].fp \in Nat /\ max_offset[s[i].fn] \in Nat
      /\ max_offset[s[k].fn] \in Nat /\ s[i].fn \in Functions /\ Words(s[i]) \in Nat
      /\ Rest(s[i]) \in 0..4 /\ Top(s[i]) = s[i].fp + max_offset[s[i].fn] + Words(s[i])
    BY <1>1, Sizes
<1>3. PICK fp \in Nat, max \in Nat, words \in Nat, rest \in 0..4, top \in Nat, more \in Nat :
        /\ fp = s[i].fp /\ max = max_offset[s[i].fn] /\ words = Words(s[i]) /\ rest = Rest(s[i])
        /\ top = s[k].fp /\ more = max_offset[s[k].fn]
    BY <1>2
<1>4. PICK y \in 1..max : y = Offset(s[i].fn, "var", v)
    <2>1. Offset(s[i].fn, "var", v) \in 1..max_offset[s[i].fn] - 1
        BY <1>2, VariablePlaced
    <2> QED BY <1>3, <2>1
<1>5. fp + y \in 1..top + more
    <2>1. CASE i = k
        <3>1. fp = top /\ max = more
            BY <1>3, <2>1
        <3> QED BY <3>1
    <2>2. CASE i < k
        <3>1. Top(s[i]) + Rest(s[i]) + 3 <= s[k].fp
            BY <1>1, <2>2, FramesRise DEF Frozen
        <3>2. fp + max + words + rest + 3 <= top
            BY <1>2, <1>3, <3>1
        <3>3. rest \in Nat
            OBVIOUS
        <3> QED BY <3>2, <3>3
    <2> QED BY <2>1, <2>2
<1> QED BY <1>3, <1>4, <1>5 DEF Place

LEMMA VarsKept ==
    ASSUME Balanced, NEW m, NEW p, NEW s \in Seq(Activation), NEW t, Frozen(m, s),
           NEW k \in 1..Len(s), SameFrames(s, t, k), SameDeclared(s, t, k), VarsHeld(m, s, k),
           NEW l, l = s[k].fp + max_offset[s[k].fn], SameVars(m, p, l, k)
    PROVE  VarsHeld(p, t, k)
<1> SUFFICES ASSUME NEW i \in 1..k, NEW v \in t[i].declared
             PROVE  p[Place(t[i], v)] = VarOf(i, v)
    BY DEF VarsHeld
<1>1. t[i].fn = s[i].fn /\ t[i].fp = s[i].fp /\ v \in s[i].declared /\ v \in Variables(s[i].fn)
    BY DEF SameFrames, SameDeclared
<1>2. m[Place(s[i], v)] = VarOf(i, v)
    BY <1>1 DEF VarsHeld
<1>3. Place(t[i], v) = Place(s[i], v)
    BY <1>1 DEF Place
<1>4. Place(s[i], v) \in 1..l
    BY <1>1, PlaceBelow
<1> QED BY <1>2, <1>3, <1>4 DEF SameVars

\* The running activation has declared only variables of its function, and so
\* have the others.
LEMMA Declares == ASSUME IInv PROVE \A i \in 1..n : acts[i].declared \subseteq Variables(acts[i].fn)
    BY DEF IInv, Typed

\* A step that leaves the frames as they are and declares nothing.
SameUpTo(s, t, k) ==
    \A i \in 1..k : /\ t[i].fn = s[i].fn /\ t[i].env = s[i].env /\ t[i].fp = s[i].fp
                    /\ t[i].declared = s[i].declared

LEMMA VarsSame ==
    ASSUME Balanced, IInv, VarsHeld(stack, acts, n), Len(acts') = n, SameUpTo(acts, acts', n),
           \A x \in 1..rbp + max_offset[Running.fn] : stack'[x] = stack[x]
    PROVE  VarsHeld(stack', acts', n')
<1>1. /\ Len(acts) = n /\ n \in Nat /\ n \in 1..n /\ Running = acts[n] /\ rbp = Running.fp
      /\ acts \in Seq(Activation) /\ Frozen(stack, acts)
    BY RunningIs
<1>2. n' = n
    BY DEF n
<1>3. SameFrames(acts, acts', n) /\ SameDeclared(acts, acts', n)
    BY Declares DEF SameFrames, SameDeclared, SameUpTo
<1>4. PICK l : l = rbp + max_offset[Running.fn]
    OBVIOUS
<1>5. SameVars(stack, stack', l, n) /\ l = acts[n].fp + max_offset[acts[n].fn]
    BY <1>1, <1>4 DEF SameVars
<1> QED BY <1>1, <1>2, <1>3, <1>5, VarsKept

LEMMA VarsStay ==
    ASSUME Balanced, IInv, VarsHeld(stack, acts, n), NEW a, SamePlace(Running, a),
           a.declared = Running.declared, Replaced(acts', acts, n, a),
           \A x \in 1..rbp + max_offset[Running.fn] : stack'[x] = stack[x]
    PROVE  VarsHeld(stack', acts', n')
<1>1. Len(acts) = n /\ n \in 1..n /\ Running = acts[n]
    BY RunningIs
<1>2. Len(acts') = n /\ acts'[n] = a /\ \A i \in 1..n : i # n => acts'[i] = acts[i]
    BY <1>1 DEF Replaced
<1>3. SameUpTo(acts, acts', n)
    <2> SUFFICES ASSUME NEW i \in 1..n
                 PROVE  /\ acts'[i].fn = acts[i].fn /\ acts'[i].env = acts[i].env
                        /\ acts'[i].fp = acts[i].fp /\ acts'[i].declared = acts[i].declared
        BY DEF SameUpTo
    <2>1. CASE i = n
        BY <2>1, <1>1, <1>2 DEF SamePlace
    <2>2. CASE i # n
        BY <2>2, <1>2
    <2> QED BY <2>1, <2>2
<1> QED BY <1>2, <1>3, VarsSame

LEMMA VarsStill ==
    ASSUME Balanced, IInv, VarsHeld(stack, acts, n), acts' = acts,
           \A x \in 1..rbp + max_offset[Running.fn] : stack'[x] = stack[x]
    PROVE  VarsHeld(stack', acts', n')
<1>1. Len(acts') = n /\ SameUpTo(acts, acts', n)
    BY RunningIs DEF SameUpTo
<1> QED BY <1>1, VarsSame

\* Nor does computing or starting a call.
LEMMA VarsUpdate ==
    ASSUME Balanced, IInv, VarsHeld(stack, acts, n), stack' = stack, NEW x,
           acts' = [acts EXCEPT ![n].holds = x] \/ acts' = [acts EXCEPT ![n].calls = x]
    PROVE  VarsHeld(stack', acts', n')
<1>1. Len(acts) = n /\ n \in Nat /\ n \in 1..n /\ acts \in Seq(Activation)
    BY RunningIs
<1>2. PICK a \in Activation : a = acts[n]
    BY <1>1
<1>3. \E b : /\ acts' = [acts EXCEPT ![n] = b]
            /\ b.fn = a.fn /\ b.env = a.env /\ b.fp = a.fp /\ b.declared = a.declared
    <2>1. CASE acts' = [acts EXCEPT ![n].holds = x]
        <3>1. PICK b : b = [a EXCEPT !.holds = x]
            OBVIOUS
        <3>2. b.fn = a.fn /\ b.env = a.env /\ b.fp = a.fp /\ b.declared = a.declared
            BY <3>1 DEF Activation
        <3>3. acts' = [acts EXCEPT ![n] = b]
            BY <1>1, <1>2, <2>1, <3>1
        <3> QED BY <3>2, <3>3
    <2>2. CASE acts' = [acts EXCEPT ![n].calls = x]
        <3>1. PICK b : b = [a EXCEPT !.calls = x]
            OBVIOUS
        <3>2. b.fn = a.fn /\ b.env = a.env /\ b.fp = a.fp /\ b.declared = a.declared
            BY <3>1 DEF Activation
        <3>3. acts' = [acts EXCEPT ![n] = b]
            BY <1>1, <1>2, <2>2, <3>1
        <3> QED BY <3>2, <3>3
    <2> QED BY <2>1, <2>2
<1>4. Len(acts') = n /\ SameUpTo(acts, acts', n)
    BY <1>1, <1>2, <1>3 DEF SameUpTo
<1> QED BY <1>4, VarsSame

\* A variable declared goes where no other is.
LEMMA DeclareVars ==
    ASSUME Balanced, IInv, VarsHeld(stack, acts, n), NEW v \in Variables(Running.fn), Declare(v)
    PROVE  VarsHeld(stack', acts', n')
<1> DEFINE a == [Running EXCEPT !.declared = @ \cup {v}]
           o == Offset(Running.fn, "var", v)
<1>1. /\ acts' = [acts EXCEPT ![n] = a] /\ v \notin Running.declared
      /\ stack' = [stack EXCEPT ![rbp + o] = VarOf(n, v)]
    BY DEF Declare, Running, VarOf
<1>2. /\ n \in 1..n /\ Len(acts) = n /\ acts \in Seq(Activation) /\ n \in Nat
      /\ Running \in Activation /\ Running.fn \in Functions /\ Running = acts[n]
      /\ rbp = Running.fp /\ rbp \in Nat /\ stack \in Seq(Value) /\ Len(stack) \in Nat
      /\ max_offset[Running.fn] \in Nat /\ Frozen(stack, acts)
      /\ Len(stack) >= rbp + max_offset[Running.fn]
    BY RunningIs
<1>3. /\ a.fn = Running.fn /\ a.fp = Running.fp /\ a.declared = Running.declared \cup {v}
    BY <1>2 DEF Activation
<1>4. o \in 1..max_offset[Running.fn] - 1 /\ o = CG_offset(Running.fn) - 1 + locals[Running.fn][v]
    BY <1>2, VariablePlaced
<1> HIDE DEF a, o
<1>5. Len(acts') = n /\ acts'[n] = a /\ \A i \in 1..n : i # n => acts'[i] = acts[i]
    BY <1>1, <1>2
<1>6. n' = n
    BY <1>5 DEF n
<1>7. PICK l \in Nat, fp \in Nat, x \in Nat :
        l = Len(stack) /\ fp = rbp /\ x = rbp + o /\ x \in 1..l /\ x > fp
    <2>1. PICK fp \in Nat, max \in Nat, l \in Nat, y \in Nat :
            y \in 1..max - 1 /\ fp = rbp /\ max = max_offset[Running.fn] /\ l = Len(stack) /\ l >= fp + max /\ y = o
        BY <1>2, <1>4
    <2>2. l >= fp + max /\ y >= 1 /\ y <= max - 1
        BY <2>1
    <2>3. fp + y \in 1..l /\ fp + y > fp /\ fp + y \in Nat
        BY <2>2
    <2> QED BY <2>1, <2>3
<1>8. stack'[x] = VarOf(n, v) /\ \A y \in 1..l : y # x => stack'[y] = stack[y]
    BY <1>1, <1>2, <1>7
<1>9. ASSUME NEW i \in 1..n, NEW w \in acts[i].declared, ~ (i = n /\ w = v)
      PROVE  stack'[Place(acts[i], w)] = VarOf(i, w)
    <2>1. stack[Place(acts[i], w)] = VarOf(i, w) /\ w \in Variables(acts[i].fn)
        BY Declares DEF VarsHeld
    <2>2. acts[i].fn \in Functions /\ acts[i].fp \in Nat /\ max_offset[acts[i].fn] \in Nat
        <3>1. acts[i] \in Activation
            BY <1>2
        <3> QED BY <3>1, Sizes
    <2>3. PICK p \in Nat, max \in Nat, y \in Nat :
            /\ y \in 1..max /\ p = acts[i].fp /\ max = max_offset[acts[i].fn] /\ Place(acts[i], w) = p + y
            /\ y = Offset(acts[i].fn, "var", w)
        <3>1. Offset(acts[i].fn, "var", w) \in 1..max_offset[acts[i].fn] - 1
            BY <2>1, <2>2, VariablePlaced
        <3> QED BY <2>2, <3>1 DEF Place
    <2>y. y >= 1 /\ y <= max
        BY <2>3
    <2>4. p + y \in 1..l /\ p + y # x
        <3>1. CASE i = n
            <4>1. w # v /\ acts[i].fn = Running.fn /\ p = fp
                BY <1>2, <1>7, <1>9, <2>3, <3>1
            <4>2. y = CG_offset(Running.fn) - 1 + locals[Running.fn][w]
                BY <1>2, <2>1, <2>3, <4>1, VariablePlaced
            <4>3. locals[Running.fn][w] # locals[Running.fn][v]
                BY <1>2, <2>1, <4>1, NumbersDiffer
            <4>4. /\ CG_offset(Running.fn) \in Nat /\ locals[Running.fn][w] \in Nat
                  /\ locals[Running.fn][v] \in Nat
                <5>1. /\ locals[Running.fn][w] \in 1..declared[Running.fn]
                      /\ locals[Running.fn][v] \in 1..declared[Running.fn]
                    BY <1>2, <2>1, <4>1, NumbersDiffer
                <5>2. CG_offset(Running.fn) \in Nat
                    BY <1>2, Layout DEF LaidOut
                <5> QED BY <5>1, <5>2
            <4>5. y # o
                BY <1>4, <4>2, <4>3, <4>4
            <4>6. fp + max <= l
                BY <1>2, <1>7, <2>3, <4>1
            <4>7. o \in Int /\ x = fp + o
                BY <1>2, <1>4, <1>7
            <4>8. p = fp
                BY <4>1
            <4>9. p + y \in 1..l
                BY <2>y, <4>6, <4>8
            <4>10. p + y # x
                BY <4>5, <4>7, <4>8
            <4> QED BY <4>9, <4>10
        <3>2. CASE i < n
            <4>1. Top(acts[i]) + Rest(acts[i]) + 3 <= acts[n].fp
                BY <1>2, <3>2, FramesRise DEF Frozen
            <4>2. PICK words \in Nat, rest \in 0..4 :
                    Top(acts[i]) = p + max + words /\ rest = Rest(acts[i])
                <5>1. acts[i] \in Activation
                    BY <1>2
                <5>2. /\ Words(acts[i]) \in Nat /\ Rest(acts[i]) \in 0..4
                      /\ Top(acts[i]) = acts[i].fp + max_offset[acts[i].fn] + Words(acts[i])
                    BY <5>1, Sizes
                <5> QED BY <2>3, <5>2
            <4>3. p + max + words + rest + 3 <= fp
                BY <1>2, <1>7, <4>1, <4>2
            <4>4. p + y < fp /\ fp <= l /\ rest \in Nat
                <5>1. rest \in Nat
                    OBVIOUS
                <5>2. fp <= l
                    BY <1>7
                <5> QED BY <2>y, <4>3, <5>1, <5>2
            <4>5. x > fp
                BY <1>7
            <4> QED BY <2>y, <4>4, <4>5
        <3> QED BY <1>2, <3>1, <3>2
    <2> QED BY <1>8, <2>1, <2>3, <2>4
<1>10. ASSUME NEW i \in 1..n, NEW w \in acts'[i].declared
       PROVE  stack'[Place(acts'[i], w)] = VarOf(i, w)
    <2>1. acts'[i].fn = acts[i].fn /\ acts'[i].fp = acts[i].fp
        BY <1>2, <1>3, <1>5
    <2>2. Place(acts'[i], w) = Place(acts[i], w)
        BY <2>1 DEF Place
    <2>3. CASE i = n /\ w = v
        <3>1. Place(acts[i], w) = x
            BY <1>2, <1>7, <2>3 DEF Place, o
        <3> QED BY <1>8, <2>2, <2>3, <3>1
    <2>4. CASE ~ (i = n /\ w = v)
        <3>1. w \in acts[i].declared
            BY <1>2, <1>3, <1>5, <2>4
        <3> QED BY <1>9, <2>2, <2>4, <3>1
    <2> QED BY <2>3, <2>4
<1> QED BY <1>6, <1>10 DEF VarsHeld

LEMMA OtherVars ==
    ASSUME Balanced, IInv, VarsHeld(stack, acts, n),
           (\E c \in Registers : Compute(c) \/ Argument(c) \/ PrintString(c)) \/ (\E g \in Functions : StartCall(g))
             \/ Divide \/ PrintValue \/ DeclareArray \/ MakeCall \/ Hop \/ Found \/ PopParam
             \/ (\E c \in Captures[Running.fn] : Find(c[1], c[2], c[3]))
    PROVE  VarsHeld(stack', acts', n')
<1>1. /\ reg \in [Registers -> Value] /\ stack \in Seq(Value) /\ Len(stack) \in Nat
      /\ rbp \in Nat /\ max_offset[Running.fn] \in Nat /\ P \in Nat
      /\ Len(stack) >= rbp + max_offset[Running.fn] /\ Running \in Activation
    BY RunningIs DEF IInv, Typed
<1>2. PICK l \in Nat : l = rbp + max_offset[Running.fn] /\ l <= Len(stack)
    BY <1>1
<1>3. CASE \E c \in Registers : Compute(c)
    BY <1>3, VarsUpdate DEF Compute
<1>4. CASE \E g \in Functions : StartCall(g)
    <2>1. \E x : stack' = stack /\ acts' = [acts EXCEPT ![n].calls = x]
        BY <1>4 DEF StartCall
    <2> QED BY <2>1, VarsUpdate
<1>5. CASE \E c \in Registers : Argument(c)
    <2>1. PICK c, k, g, a, r : ArgumentIs(c, k, g, a, r)
        BY <1>5, ArgumentDoes
    <2>2. \A x \in 1..l : stack'[x] = stack[x]
        <3>1. stack' = stack \/ \E v : Pushes(stack', stack, v)
            BY <2>1 DEF ArgumentIs
        <3>2. \A x \in 1..Len(stack) : stack'[x] = stack[x]
            BY <3>1 DEF Pushes
        <3>3. \A x \in 1..l : x \in 1..Len(stack)
            BY <1>1, <1>2
        <3> QED BY <3>2, <3>3
    <2>3. SamePlace(Running, a) /\ a.declared = Running.declared /\ Replaced(acts', acts, n, a)
        BY <2>1 DEF ArgumentIs
    <2> QED BY <1>2, <2>2, <2>3, VarsStay
<1>6. CASE PopParam
    <2>1. PICK k, b : PopIs(k, b)
        BY <1>6, PopDoes
    <2>2. SamePlace(Running, b) /\ b.declared = Running.declared /\ Replaced(acts', acts, n, b)
        BY <2>1 DEF PopIs
    <2>3. b \in Activation /\ Top(b) >= l /\ \A x \in 1..Top(b) : stack'[x] = stack[x]
        BY <1>2, <2>1 DEF PopIs, SamePlace, Prefix
    <2>4. Top(b) \in Nat
        BY <2>3, Sizes
    <2>5. \A x \in 1..l : stack'[x] = stack[x]
        BY <2>3, <2>4
    <2> QED BY <1>2, <2>2, <2>5, VarsStay
<1>7. CASE MakeCall
    <2>1. /\ stack' = stack \o Saved(Running.count, Least(P, 4)) /\ acts' = acts
        BY <1>7 DEF MakeCall
    <2>2. Running.count \in Nat /\ Least(P, 4) \in 0..4
        BY <1>1, Sizes DEF Least
    <2>3. Pushes(stack', stack, Saved(Running.count, Least(P, 4)))
        BY <1>1, <2>1, <2>2, SavedIs, PushesIs
    <2>4. \A x \in 1..l : stack'[x] = stack[x]
        BY <1>1, <1>2, <2>3 DEF Pushes
    <2> QED BY <1>2, <2>1, <2>4, VarsStill
<1>8. CASE Divide \/ PrintValue
    BY <1>8, VarsStill DEF Divide, PrintValue
<1>9. CASE DeclareArray
    <2>1. acts' = acts /\ stack' = stack
        BY <1>9, DeclareArrayIs DEF DeclareArray
    <2> QED BY <2>1, VarsStill
<1>10. CASE Hop \/ Found
    BY <1>10, VarsStill DEF Hop, Found
<1>11. CASE \E c \in Captures[Running.fn] : Find(c[1], c[2], c[3])
    BY <1>11, VarsStill DEF Find
<1>12. CASE \E c \in Registers : PrintString(c)
    <2>1. PICK c \in Registers : PrintString(c)
        BY <1>12
    <2>2. PICK a : PrintsString(c, a)
        BY <2>1, PrintStringDoes
    <2> QED BY <2>2, VarsStay DEF PrintsString
<1> QED BY <1>3, <1>4, <1>5, <1>6, <1>7, <1>8, <1>9, <1>10, <1>11, <1>12

LEMMA EnterVars ==
    ASSUME Balanced, IInv, VarsHeld(stack, acts, n), Enter PROVE VarsHeld(stack', acts', n')
<1>1. PICK g, w, b, q : EnterIs(g, w, b, q)
    BY EnterDoes
<1>2. /\ n \in 1..n /\ Len(acts) = n /\ acts \in Seq(Activation) /\ n \in Nat
      /\ Running = acts[n] /\ Running \in Activation
      /\ Frozen(stack, acts) /\ rbp = Running.fp /\ rbp \in Nat /\ max_offset[Running.fn] \in Nat
    BY RunningIs
<1>3. /\ Len(acts') = n + 1 /\ acts'[n] = w /\ acts'[n + 1] = b
      /\ \A i \in 1..n : i # n => acts'[i] = acts[i]
      /\ w.fn = Running.fn /\ w.env = Running.env /\ w.fp = Running.fp
      /\ w.declared = Running.declared /\ b.declared = {}
    BY <1>1 DEF EnterIs, SamePlace
<1>4. n' = n + 1
    BY <1>3 DEF n
<1>5. SameFrames(acts, acts', n) /\ SameDeclared(acts, acts', n)
    <2> SUFFICES ASSUME NEW i \in 1..n
                 PROVE  /\ acts'[i].fn = acts[i].fn /\ acts'[i].env = acts[i].env
                        /\ acts'[i].fp = acts[i].fp /\ acts'[i].declared = acts[i].declared
                        /\ acts[i].declared \subseteq Variables(acts[i].fn)
        BY DEF SameFrames, SameDeclared
    <2>1. CASE i = n
        BY <2>1, <1>2, <1>3, Declares
    <2>2. CASE i # n
        BY <2>2, <1>3, Declares
    <2> QED BY <2>1, <2>2
<1>6. PICK l \in Nat, k \in 0..4 : l = rbp + max_offset[Running.fn] /\ k = InRegisters(Running.fn)
    <2>1. InRegisters(Running.fn) \in 0..4 /\ rbp + max_offset[Running.fn] \in Nat
        BY <1>2, Counted, SMTT(30)
    <2> QED BY <2>1
<1>7. \A x \in 1..l + k : stack'[x] = stack[x]
    BY <1>1, <1>6, EnterKeeps
<1>8. SameVars(stack, stack', l, n) /\ l = acts[n].fp + max_offset[acts[n].fn]
    <2>1. \A x \in 1..l : x \in 1..l + k
        OBVIOUS
    <2> QED BY <1>2, <1>6, <1>7, <2>1 DEF SameVars
<1>9. VarsHeld(stack', acts', n)
    BY <1>2, <1>5, <1>8, VarsKept
<1>10. \A i \in 1..n + 1 : i # n + 1 => i \in 1..n
    BY <1>2
<1> QED BY <1>3, <1>4, <1>9, <1>10 DEF VarsHeld

LEMMA ReturnVars ==
    ASSUME Balanced, IInv, VarsHeld(stack, acts, n), Return PROVE VarsHeld(stack', acts', n')
<1>1. PICK f, a, w : ReturnIs(f, a, w)
    BY ReturnDoes
<1>2. /\ n \in 1..n /\ Len(acts) = n /\ acts \in Seq(Activation) /\ n \in Nat
      /\ Frozen(stack, acts)
    BY RunningIs
<1>3. /\ Len(acts') = n - 1 /\ acts'[n - 1] = w /\ \A i \in 1..n - 2 : acts'[i] = acts[i]
      /\ a = acts[n - 1] /\ n > 1 /\ a \in Activation
      /\ w.fn = a.fn /\ w.env = a.env /\ w.fp = a.fp /\ w.declared = a.declared
      /\ \A x \in 1..Top(a) : stack'[x] = Forget(stack[x])
    BY <1>1 DEF ReturnIs, SamePlace
<1>4. n - 1 \in 1..Len(acts) /\ \A i \in 1..n - 1 : i \in 1..n /\ (i # n - 1 => i \in 1..n - 2)
    BY <1>2, <1>3
<1>5. SameFrames(acts, acts', n - 1) /\ SameDeclared(acts, acts', n - 1)
    <2> SUFFICES ASSUME NEW i \in 1..n - 1
                 PROVE  /\ acts'[i].fn = acts[i].fn /\ acts'[i].env = acts[i].env
                        /\ acts'[i].fp = acts[i].fp /\ acts'[i].declared = acts[i].declared
                        /\ acts[i].declared \subseteq Variables(acts[i].fn)
        BY DEF SameFrames, SameDeclared
    <2>1. CASE i = n - 1
        BY <2>1, <1>3, <1>4, Declares
    <2>2. CASE i # n - 1
        BY <2>2, <1>3, <1>4, Declares
    <2> QED BY <2>1, <2>2
<1>6. n' = n - 1
    BY <1>3 DEF n
<1>7. PICK l : l = a.fp + max_offset[a.fn]
    OBVIOUS
<1>8. SameVars(stack, stack', l, n - 1)
    <2> SUFFICES ASSUME NEW x \in 1..l, NEW i \in 1..n - 1, NEW v, stack[x] = VarOf(i, v)
                 PROVE  stack'[x] = VarOf(i, v)
        BY DEF SameVars
    <2>1. Forget(VarOf(i, v)) = VarOf(i, v)
        <3>1. VarOf(i, v)[2] = i /\ i # n
            BY <1>2 DEF VarOf
        <3> QED BY <3>1 DEF Forget
    <2>2. PICK fp \in Nat, max \in Nat, words \in Nat : l = fp + max /\ Top(a) = fp + max + words
        BY <1>3, <1>7, Sizes, SMTT(30)
    <2>3. x \in 1..fp + max
        BY <2>2
    <2>4. x \in 1..fp + max + words
        BY <2>3
    <2> QED BY <1>3, <2>1, <2>2, <2>4
<1>9. VarsHeld(stack, acts, n - 1)
    BY <1>4 DEF VarsHeld
<1> QED BY <1>2, <1>3, <1>4, <1>5, <1>6, <1>7, <1>8, <1>9, VarsKept

\* What is sought is settled when the traversal begins.
LEMMA NextSought == ASSUME IInv, Sought, [Next]_vars PROVE Sought'
<1> SUFFICES ASSUME pc' = "find" PROVE Sought'
    BY DEF Sought
<1>1. CASE UNCHANGED vars
    <2>1. Running' = Running
        BY <1>1 DEF vars, Running, n
    <2> QED BY <1>1, <2>1 DEF vars, Sought
<1>2. CASE Hop
    <2>1. Running' = Running /\ pc' = pc /\ goal' = goal /\ sought' = sought /\ acts' = acts
        BY <1>2 DEF Hop, Running, n
    <2> QED BY <2>1 DEF Sought
<1>3. CASE \E c \in Captures[Running.fn] : Find(c[1], c[2], c[3])
    <2>1. PICK c \in Captures[Running.fn] : Find(c[1], c[2], c[3])
        BY <1>3
    <2>2. /\ goal' = c[1] /\ sought' = <<c[2], c[3]>> /\ acts' = acts
          /\ c[2] = "var" => c[3] \in acts[Running.env[c[1]]].declared
        BY <2>1 DEF Find
    <2>3. Running' = Running /\ Running.fn \in Functions
        BY <2>2, RunningIs DEF Running, n
    <2>4. /\ c[1] \in Functions /\ c[2] \in {"var", "param"} /\ (c[2] = "param" => c[1] # Running.fn)
          /\ c[3] \in DOMAIN Numbered(c[1], c[2])
        BY <2>3, Captured
    <2>5. c[2] = "param" => c[3] \in DOMAIN escapes[c[1]]
        BY <2>4 DEF escapes
    <2>6. sought'[1] = c[2] /\ sought'[2] = c[3]
        BY <2>2
    <2> QED BY <2>2, <2>3, <2>4, <2>5, <2>6 DEF Sought
<1>4. CASE ~ (UNCHANGED vars \/ Hop \/ \E c \in Captures[Running.fn] : Find(c[1], c[2], c[3]))
    <2>1. ASSUME NEW c \in Registers, Compute(c) \/ Argument(c) \/ PrintString(c)
          PROVE  pc' = "body"
        BY <2>1 DEF Compute, Argument, PrintString
    <2>2. ASSUME NEW v \in Variables(Running.fn), Declare(v) PROVE pc' = "body"
        BY <2>2 DEF Declare
    <2>3. ASSUME NEW g \in Functions, StartCall(g) PROVE pc' = "body"
        BY <2>3 DEF StartCall
    <2>4. ASSUME Divide \/ PrintValue \/ DeclareArray \/ NextSegment PROVE pc' = "body"
        BY <2>4 DEF Divide, PrintValue, DeclareArray, NextSegment
    <2>5. ASSUME MakeCall \/ Enter \/ Found PROVE pc' # "find"
        BY <2>5 DEF MakeCall, Enter, Found
    <2>6. ASSUME Return PROVE pc' # "find"
        BY <2>6, ReturnDoes DEF ReturnIs
    <2>7. ASSUME PopParam PROVE pc' # "find"
        BY <2>7 DEF PopParam
    <2> QED BY <1>4, <2>1, <2>2, <2>3, <2>4, <2>5, <2>6, <2>7 DEF Next
<1> QED BY <1>1, <1>2, <1>3, <1>4

\* Where a traversal ends is the variable it was after.
LEMMA FoundThere ==
    ASSUME Balanced, EscapeInOrder, IInv, Parameters, VarsHeld(stack, acts, n), Sought
    PROVE  CapturedFound
<1> SUFFICES ASSUME pc = "find", hops = 0
             PROVE  Read(rax + Offset(goal, sought[1], sought[2]))
                      = <<sought[1], Running.env[goal], sought[2]>>
    BY DEF CapturedFound
<1>1. /\ n \in 1..n /\ n \in Nat /\ Len(acts) = n /\ acts \in Seq(Activation) /\ Running = acts[n]
      /\ Frozen(stack, acts) /\ rbp = Running.fp /\ rbp \in Nat /\ max_offset[Running.fn] \in Nat
      /\ stack \in Seq(Value) /\ Len(stack) \in Nat /\ Len(stack) >= rbp + max_offset[Running.fn]
    BY RunningIs
<1>2. Traverses(acts, goal, rax, 0)
    BY DEF IInv, Shape, Walking, Target
<1>3. PICK j \in 1..n : j = Running.env[goal] /\ rax = acts[j].fp /\ acts[j].fn = goal
    BY <1>2, Arrived
<1>4. \A x \in 1..rbp + max_offset[Running.fn] : Read(x) = stack[x]
    BY <1>1 DEF Read
<1>5. CASE sought[1] = "var"
    <2>1. sought[2] \in acts[j].declared
        BY <1>3, <1>5 DEF Sought
    <2>2. stack[Place(acts[j], sought[2])] = VarOf(j, sought[2]) /\ sought[2] \in Variables(acts[j].fn)
        BY <2>1, Declares DEF VarsHeld
    <2>3. Place(acts[j], sought[2]) \in 1..rbp + max_offset[Running.fn]
        BY <1>1, <2>2, PlaceBelow
    <2>4. Read(Place(acts[j], sought[2])) = VarOf(j, sought[2])
        BY <1>4, <2>2, <2>3
    <2> QED BY <1>3, <1>5, <2>4 DEF Place, VarOf
<1>6. CASE sought[1] # "var"
    <2>1. sought[1] = "param" /\ goal # Running.fn /\ sought[2] \in DOMAIN escapes[goal]
        BY <1>6 DEF Sought
    <2>2. goal \in Functions
        BY DEF IInv, Typed
    <2>3. sought[2] \in 1..InRegisters(goal) /\ escapes[goal][sought[2]] = sought[2]
        BY <2>1, <2>2 DEF EscapeInOrder, InRegisters
    <2>4. j # n /\ j \in 1..n - 1 /\ j < n
        <3>1. j # n
            BY <1>1, <1>3, <2>1
        <3>2. j \in Nat /\ j >= 1 /\ j <= n
            BY <1>1
        <3> QED BY <1>1, <3>1, <3>2
    <2>5. stack[Pushed(acts[j], sought[2])] = ParamIs(j, sought[2])
        BY <1>3, <2>3, <2>4 DEF Parameters, Waited, OnTop
    <2>6. Pushed(acts[j], sought[2]) \in 1..rbp
        BY <1>1, <1>3, <2>3, <2>4, ParamsBelow
    <2>7. Pushed(acts[j], sought[2]) \in 1..rbp + max_offset[Running.fn]
        <3>1. PICK fp \in Nat, max \in Nat : fp = rbp /\ max = max_offset[Running.fn]
            BY <1>1
        <3>2. \A x \in 1..fp : x \in 1..fp + max
            OBVIOUS
        <3> QED BY <2>6, <3>1, <3>2
    <2>8. Read(Pushed(acts[j], sought[2])) = ParamIs(j, sought[2])
        BY <1>4, <2>5, <2>7
    <2>9. rax + Offset(goal, sought[1], sought[2]) = Pushed(acts[j], sought[2])
        <3>1. Offset(goal, sought[1], sought[2]) = max_offset[goal] + sought[2]
            BY <2>1, <2>3 DEF Offset
        <3>2. acts[j] \in Activation
            BY <1>1
        <3>3. max_offset[goal] \in Nat /\ acts[j].fp \in Nat /\ InRegisters(goal) \in Nat
            BY <1>3, <3>2, Counted, Sizes
        <3>4. PICK fp \in Nat, max \in Nat, k \in Nat :
                fp = acts[j].fp /\ max = max_offset[goal] /\ k = sought[2]
            BY <2>3, <3>3
        <3>5. rax = fp /\ fp + (max + k) = fp + max + k
            BY <1>3, <3>4
        <3> QED BY <1>3, <3>1, <3>4, <3>5 DEF Pushed
    <2> QED BY <1>3, <2>1, <2>8, <2>9 DEF ParamIs
<1> QED BY <1>5, <1>6

(***************************************************************************)
(* A nested function finds the variables and the parameters of those       *)
(* around it that it captures, of the activations it belongs to.           *)
(***************************************************************************)
THEOREM CapturesReached ==
    ASSUME Balanced, Passed, EscapeInOrder, NEW keeps, Keeps(keeps)
    PROVE  Spec => []CapturedFound
<1> DEFINE Held == VarsHeld(stack, acts, n)
<1>1. Init => Temps(keeps) /\ Parameters /\ Held /\ Sought
    <2> SUFFICES ASSUME Init PROVE Held /\ Sought
        BY InitTemps, InitParams
    <2> DEFINE a == NewActivation(Module, 0, [h \in Functions |-> IF h = Module THEN 1 ELSE 0])
    <2>1. acts = <<a>> /\ a.declared = {} /\ pc = "body"
        BY DEF Init, NewActivation
    <2> HIDE DEF a
    <2>2. Len(acts) = 1 /\ acts[1] = a
        BY <2>1
    <2>3. n = 1 /\ acts[1].declared = {}
        BY <2>1, <2>2 DEF n
    <2> QED BY <2>1, <2>3 DEF VarsHeld, Sought
<1>2. IInv /\ Temps(keeps) /\ Parameters /\ Held /\ Sought /\ [Next]_vars
        => Temps(keeps)' /\ Parameters' /\ Held' /\ Sought'
    <2> SUFFICES ASSUME IInv, Temps(keeps), Parameters, Held, Sought, [Next]_vars
                 PROVE  Held'
        BY NextTemps, NextParams, NextSought
    <2>1. CASE UNCHANGED vars
        <3>1. n' = n
            BY <2>1 DEF vars, n
        <3> QED BY <2>1, <3>1 DEF vars, VarsHeld
    <2>2. CASE NextSegment
        BY <2>1, <2>2, NextSegmentIs
    <2>3. CASE Next /\ ~NextSegment
        BY <2>3, DeclareVars, OtherVars, EnterVars, ReturnVars DEF Next
    <2> QED BY <2>1, <2>2, <2>3
<1>3. IInv /\ Parameters /\ Held /\ Sought => CapturedFound
    BY FoundThere
<1>4. Spec => []IInv
    BY Inductive
<1> HIDE DEF Held
<1> QED BY <1>1, <1>2, <1>3, <1>4, PTL DEF Spec
====
