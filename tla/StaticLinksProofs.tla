--------------------------- MODULE StaticLinksProofs ---------------------------
(***************************************************************************)
(* The static links lead to the right frame: type correctness of           *)
(* StaticLinks, and that every traversal ends at the activation the        *)
(* language means, for every nesting of functions, every depth of calls    *)
(* and every recursion.                                                    *)
(***************************************************************************)
EXTENDS StaticLinks, TLAPS

(***************************************************************************)
(* The inductive invariant.  An activation knows itself, what it knows are *)
(* activations of the enclosing functions that began no later, and it      *)
(* agrees with each of them on everything around that one; hence a         *)
(* traversal may forget where it started, provided the links left are as   *)
(* many as the levels between the frame reached and the target.            *)
(***************************************************************************)
Agrees(s, i) ==
    \A k \in Enclosing[s[i].fn] : \A h \in Enclosing[k] :
      s[i].env[h] = s[s[i].env[k]].env[h]

SoundAt(s, i) ==
    /\ s[i].env[s[i].fn] = i
    /\ \A h \in Enclosing[s[i].fn] :
         s[i].env[h] \in 1..i /\ s[s[i].env[h]].fn = h
    /\ Agrees(s, i)
    /\ i > 1 => s[i].fn # Module
    /\ s[i].fn # Module => s[i].link = s[i].env[Outer[s[i].fn]]

Sound(s) == \A i \in 1..Len(s) : SoundAt(s, i)

Traversing ==
    /\ Target \in Enclosing[Running.fn]
    /\ rax \in 1..Len(acts)
    /\ Target \in Enclosing[acts[rax].fn]
    /\ acts[rax].env[Target] = Running.env[Target]
    /\ hops = Depth[acts[rax].fn] - Depth[Target]

IInv ==
    /\ TypeOK
    /\ Len(acts) >= 1
    /\ Sound(acts)
    /\ pc = "call" => goal \in Visible(Running.fn)
    /\ pc # "body" => Traversing

\* A function other than the module is one of the functions around itself,
\* and its outer function and what is around that are the others.
LEMMA Surroundings ==
    ASSUME NEW f \in Functions, f # Module
    PROVE  /\ Outer[f] \in Functions
           /\ Outer[f] \in Enclosing[f]
           /\ Enclosing[Outer[f]] \subseteq Enclosing[f]
           /\ Enclosing[f] \ {f} = Enclosing[Outer[f]]
           /\ Depth[f] = Depth[Outer[f]] + 1
           /\ Depth[f] \in Nat /\ Depth[Outer[f]] \in Nat
  BY OuterAssumption, NestingAssumption, DepthAssumption

\* What every activation of a sound sequence knows, and of whom.
LEMMA Known ==
    ASSUME NEW s \in Seq(Activation), Sound(s), NEW i \in 1..Len(s)
    PROVE  /\ s[i] \in Activation /\ s[i].fn \in Functions
           /\ s[i].env[s[i].fn] = i
           /\ \A h \in Enclosing[s[i].fn] :
                s[i].env[h] \in 1..i /\ s[i].env[h] \in 1..Len(s) /\ s[s[i].env[h]].fn = h
           /\ Agrees(s, i)
           /\ i > 1 => s[i].fn # Module
           /\ s[i].fn # Module => s[i].link = s[i].env[Outer[s[i].fn]]
<1>1. s[i] \in Activation /\ s[i].fn \in Functions
  <2>1. s[i] \in Activation
    OBVIOUS
  <2> QED BY <2>1 DEF Activation
<1>2. SoundAt(s, i)
  BY DEF Sound
<1>3. ASSUME NEW h \in Enclosing[s[i].fn] PROVE s[i].env[h] \in 1..Len(s)
  BY <1>2, <1>3 DEF SoundAt
<1> QED BY <1>1, <1>2, <1>3 DEF SoundAt

\* An activation is sound in every sequence that has the same activations up
\* to it.
LEMMA SamePrefix ==
    ASSUME NEW s \in Seq(Activation), Sound(s), NEW t \in Seq(Activation),
           NEW i \in 1..Len(s), i \in 1..Len(t), \A j \in 1..i : t[j] = s[j]
    PROVE  SoundAt(t, i)
<1>1. t[i] = s[i] /\ s[i].fn \in Functions
  BY Known
<1>2. /\ s[i].env[s[i].fn] = i
      /\ \A h \in Enclosing[s[i].fn] : s[i].env[h] \in 1..i /\ s[s[i].env[h]].fn = h
      /\ Agrees(s, i)
      /\ i > 1 => s[i].fn # Module
      /\ s[i].fn # Module => s[i].link = s[i].env[Outer[s[i].fn]]
  BY Known
<1>3. \A h \in Enclosing[t[i].fn] : t[t[i].env[h]] = s[s[i].env[h]]
  BY <1>1, <1>2
<1>4. Agrees(t, i)
  BY <1>1, <1>2, <1>3 DEF Agrees
<1> QED BY <1>1, <1>2, <1>3, <1>4 DEF SoundAt

\* Removing the last activation leaves the others sound.
LEMMA PopSound ==
    ASSUME NEW s \in Seq(Activation), Sound(s), Len(s) > 1,
           NEW p, p = SubSeq(s, 1, Len(s) - 1)
    PROVE  p \in Seq(Activation) /\ Len(p) = Len(s) - 1 /\ Sound(p)
<1>1. p \in Seq(Activation) /\ Len(p) = Len(s) - 1
  OBVIOUS
<1>2. ASSUME NEW i \in 1..Len(p) PROVE SoundAt(p, i)
  <2>1. i \in 1..Len(s) /\ i \in 1..Len(p) /\ \A j \in 1..i : p[j] = s[j]
    BY <1>1, <1>2
  <2> QED BY <2>1, <1>1, SamePrefix
<1> QED BY <1>1, <1>2 DEF Sound

\* A call linked to the activation its caller knows of the callee's outer
\* function adds a sound activation.
LEMMA PushSound ==
    ASSUME NEW s \in Seq(Activation), Sound(s), NEW n \in Nat, n = Len(s), n >= 1,
           NEW g \in Visible(s[n].fn),
           NEW a \in Activation, a.fn = g, a.link = s[n].env[Outer[g]],
           a.env[g] = n + 1,
           \A h \in Enclosing[Outer[g]] : a.env[h] = s[n].env[h],
           NEW t \in Seq(Activation), Len(t) = n + 1, t[n + 1] = a,
           \A j \in 1..n : t[j] = s[j]
    PROVE  Sound(t)
<1> DEFINE top == s[n]
<1>1. /\ g \in Functions /\ g # Module /\ Outer[g] \in Functions
      /\ Outer[g] \in Enclosing[top.fn]
      /\ g \notin Enclosing[Outer[g]]
      /\ Enclosing[g] \ {g} = Enclosing[Outer[g]]
      /\ Outer[g] \in Enclosing[g]
  BY Surroundings, OuterAssumption DEF Visible
<1>2. /\ n \in 1..n /\ n + 1 > 1
      /\ top.fn \in Functions
      /\ \A h \in Enclosing[top.fn] :
           top.env[h] \in 1..n /\ s[top.env[h]].fn = h
      /\ Agrees(s, n)
  BY Known
<1>5. t[n + 1] = a /\ \A j \in 1..n : t[j] = s[j]
  OBVIOUS
<1>6. Enclosing[Outer[g]] \subseteq Enclosing[top.fn]
  BY <1>1, <1>2, AroundAssumption
<1>7. /\ a.fn = g /\ a.link = top.env[Outer[g]] /\ a.env[g] = n + 1
      /\ \A h \in Enclosing[Outer[g]] : a.env[h] = top.env[h]
  OBVIOUS
<1>8. ASSUME NEW h \in Enclosing[g] PROVE a.env[h] \in 1..(n + 1) /\ t[a.env[h]].fn = h
  <2>1. CASE h = g
    <3>1. a.env[h] = n + 1
      BY <2>1, <1>7
    <3>2. n + 1 \in 1..(n + 1) /\ t[n + 1].fn = g
      BY <1>2, <1>5, <1>7
    <3> QED BY <2>1, <3>1, <3>2
  <2>2. CASE h # g
    <3>1. h \in Enclosing[Outer[g]] /\ h \in Enclosing[top.fn]
      BY <2>2, <1>8, <1>1, <1>6
    <3>2. a.env[h] = top.env[h] /\ top.env[h] \in 1..n /\ s[top.env[h]].fn = h
      BY <3>1, <1>2, <1>7
    <3>3. a.env[h] \in 1..(n + 1) /\ t[a.env[h]] = s[top.env[h]]
      BY <3>2, <1>2, <1>5
    <3> QED BY <3>2, <3>3
  <2> QED BY <2>1, <2>2
<1>9. ASSUME NEW k \in Enclosing[g], NEW h \in Enclosing[k]
      PROVE  a.env[h] = t[a.env[k]].env[h]
  <2>1. CASE k = g
    <3>1. t[a.env[k]] = a
      <4>1. a.env[k] = n + 1
        BY <2>1, <1>7
      <4> QED BY <4>1, <1>5
    <3> QED BY <3>1
  <2>2. CASE k # g
    <3>1. k \in Enclosing[Outer[g]] /\ k \in Enclosing[top.fn]
      BY <2>2, <1>1, <1>6
    <3>2. h \in Enclosing[Outer[g]]
      BY <3>1, <1>1, AroundAssumption
    <3>3. t[a.env[k]] = s[top.env[k]]
      <4>1. a.env[k] = top.env[k] /\ top.env[k] \in 1..n
        BY <3>1, <1>2, <1>7
      <4> QED BY <4>1, <1>5
    <3>4. top.env[h] = s[top.env[k]].env[h]
      BY <3>1, <1>2 DEF Agrees
    <3> QED BY <3>2, <3>3, <3>4, <1>7
  <2> QED BY <2>1, <2>2
<1>10. ASSUME NEW i \in 1..Len(t) PROVE SoundAt(t, i)
  <2>1. CASE i = n + 1
    <3>1. t[i] = a /\ a.fn = g
      BY <2>1, <1>5, <1>7
    <3>2. Agrees(t, i)
      <4>1. \A k \in Enclosing[g] : \A h \in Enclosing[k] :
              a.env[h] = t[a.env[k]].env[h]
        BY <1>9
      <4> QED BY <3>1, <4>1 DEF Agrees
    <3>3. a.link = a.env[Outer[g]]
      BY <1>1, <1>7, NestingAssumption
    <3>4. \A h \in Enclosing[g] : a.env[h] \in 1..(n + 1) /\ t[a.env[h]].fn = h
      BY <1>8
    <3> QED BY <3>1, <3>2, <3>3, <3>4, <2>1, <1>1, <1>7 DEF SoundAt
  <2>2. CASE i \in 1..n
    <3>1. i \in 1..Len(t) /\ \A j \in 1..i : t[j] = s[j] /\ i \in 1..Len(s)
      <4>1. i \in Nat /\ i >= 1 /\ i <= n /\ n \in Nat
        BY <2>2
      <4> QED BY <4>1, <1>5
    <3> QED BY <2>2, <3>1, <1>5, SamePrefix
  <2>3. i = n + 1 \/ i \in 1..n
    BY <1>2, <1>5, <1>10
  <2> QED BY <2>1, <2>2, <2>3
<1> QED BY <1>10 DEF Sound

\* The first step of a traversal towards a frame the running one knows.
LEMMA SeekFinds ==
    ASSUME IInv, NEW target \in Enclosing[Running.fn], Seek(target)
    PROVE  /\ rax' \in 1..Len(acts) /\ hops' \in Nat
           /\ target \in Enclosing[acts[rax'].fn]
           /\ acts[rax'].env[target] = Running.env[target]
           /\ hops' = Depth[acts[rax'].fn] - Depth[target]
<1> DEFINE n == Len(acts)
           f == Running.fn
<1>1. /\ acts \in Seq(Activation) /\ Sound(acts) /\ n \in 1..n
  BY DEF IInv, TypeOK
<1>2. /\ f \in Functions
      /\ \A h \in Enclosing[f] :
           Running.env[h] \in 1..n /\ acts[Running.env[h]].fn = h
      /\ Agrees(acts, n)
      /\ f # Module => Running.link = Running.env[Outer[f]]
  BY <1>1, Known DEF Running
<1>3. target \in Functions /\ Depth[target] \in Nat /\ Depth[f] \in Nat
  BY <1>2, DepthAssumption
<1>4. CASE Depth[f] = Depth[target]
  BY <1>1, <1>2, <1>3, <1>4 DEF Seek, Running
<1>5. CASE Depth[f] # Depth[target]
  <2>1. target # f /\ f # Module
    BY <1>2, <1>5, ModuleAssumption
  <2>2. /\ target \in Enclosing[Outer[f]] /\ Outer[f] \in Enclosing[f]
        /\ Depth[f] = Depth[Outer[f]] + 1 /\ Depth[Outer[f]] \in Nat
        /\ Outer[f] \in Functions
    BY <2>1, <1>2, Surroundings
  <2>3. Depth[target] <= Depth[Outer[f]]
    BY <2>2, <1>3, NestingAssumption
  <2>4. rax' = Running.env[Outer[f]] /\ hops' = Depth[Outer[f]] - Depth[target]
    BY <2>1, <2>2, <1>2, <1>3, <1>5 DEF Seek
  <2>5. rax' \in 1..n /\ acts[rax'].fn = Outer[f]
    BY <2>2, <2>4, <1>2
  <2>6. Running.env[target] = acts[rax'].env[target]
    BY <2>2, <2>4, <1>2 DEF Agrees, Running
  <2> QED BY <2>2, <2>3, <2>4, <2>5, <2>6, <1>3
<1> QED BY <1>4, <1>5

\* The module is running and it is the only activation.
LEMMA InitIInv == Init => IInv
<1> SUFFICES ASSUME Init PROVE IInv
  OBVIOUS
<1> DEFINE e == [h \in Functions |-> IF h = Module THEN 1 ELSE 0]
<1>1. Module \in Functions /\ Enclosing[Module] = {Module} /\ e \in [Functions -> Nat]
  BY ModuleAssumption
<1>2. acts \in Seq(Activation) /\ Len(acts) = 1 /\ acts[1].fn = Module /\ acts[1].env = e
  BY <1>1 DEF Init, Activation
<1>3. e[Module] = 1
  BY <1>1
<1>4. Sound(acts)
  BY <1>1, <1>2, <1>3 DEF Sound, SoundAt, Agrees
<1> QED BY <1>1, <1>2, <1>4 DEF Init, IInv, TypeOK

\* Every step keeps the activations sound and every traversal on its way.
LEMMA NextIInv == IInv /\ [Next]_vars => IInv'
<1> SUFFICES ASSUME IInv, [Next]_vars PROVE IInv'
  OBVIOUS
<1>1. /\ TypeOK /\ Sound(acts) /\ acts \in Seq(Activation)
      /\ Len(acts) \in Nat /\ Len(acts) >= 1 /\ Len(acts) \in 1..Len(acts)
      /\ Running.fn \in Functions
  BY Known DEF IInv, TypeOK, Running
<1>2. ASSUME NEW g \in Functions, Call(g) PROVE IInv'
  <2>1. /\ Outer[g] \in Enclosing[Running.fn] /\ g # Module /\ pc' = "call" /\ goal' = g
        /\ g \in Visible(Running.fn) /\ acts' = acts /\ Running' = Running
        /\ Seek(Outer[g])
    BY <1>2 DEF Call, Visible, Running
  <2>2. /\ rax' \in 1..Len(acts) /\ hops' \in Nat
        /\ Outer[g] \in Enclosing[acts[rax'].fn]
        /\ acts[rax'].env[Outer[g]] = Running.env[Outer[g]]
        /\ hops' = Depth[acts[rax'].fn] - Depth[Outer[g]]
    BY <2>1, SeekFinds
  <2>3. Target' = Outer[g]
    BY <2>1 DEF Target
  <2>4. TypeOK'
    BY <1>1, <2>1, <2>2 DEF TypeOK
  <2> QED BY <1>1, <2>1, <2>2, <2>3, <2>4 DEF IInv, Traversing
<1>3. ASSUME NEW h \in Functions, Find(h) PROVE IInv'
  <2>1. /\ h \in Enclosing[Running.fn] /\ pc' = "find" /\ goal' = h
        /\ acts' = acts /\ Running' = Running /\ Seek(h)
    BY <1>3 DEF Find, Running
  <2>2. /\ rax' \in 1..Len(acts) /\ hops' \in Nat
        /\ h \in Enclosing[acts[rax'].fn]
        /\ acts[rax'].env[h] = Running.env[h]
        /\ hops' = Depth[acts[rax'].fn] - Depth[h]
    BY <2>1, SeekFinds
  <2>3. Target' = h
    BY <2>1 DEF Target
  <2>4. TypeOK'
    BY <1>1, <2>1, <2>2 DEF TypeOK
  <2> QED BY <1>1, <2>1, <2>2, <2>3, <2>4 DEF IInv, Traversing
<1>4. CASE Hop
  <2> DEFINE f == acts[rax].fn
  <2>1. /\ pc # "body" /\ hops > 0 /\ hops \in Nat /\ hops' = hops - 1
        /\ rax' = acts[rax].link
        /\ acts' = acts /\ pc' = pc /\ goal' = goal
        /\ Running' = Running /\ Target' = Target
    BY <1>4 DEF Hop, IInv, TypeOK, Running, Target
  <2>2. /\ Target \in Enclosing[Running.fn] /\ rax \in 1..Len(acts) /\ Target \in Enclosing[f]
        /\ acts[rax].env[Target] = Running.env[Target]
        /\ hops = Depth[f] - Depth[Target]
    BY <2>1 DEF IInv, Traversing
  <2>3. /\ f \in Functions
        /\ \A h \in Enclosing[f] :
             acts[rax].env[h] \in 1..Len(acts) /\ acts[acts[rax].env[h]].fn = h
        /\ Agrees(acts, rax)
        /\ f # Module => acts[rax].link = acts[rax].env[Outer[f]]
    BY <1>1, <2>2, Known
  <2>4. Target \in Functions /\ Depth[Target] \in Nat /\ Depth[f] \in Nat
    BY <2>2, <2>3, DepthAssumption
  <2>5. Target # f /\ f # Module
    BY <2>1, <2>2, <2>4, ModuleAssumption
  <2>6. /\ Target \in Enclosing[Outer[f]] /\ Outer[f] \in Enclosing[f]
        /\ Depth[f] = Depth[Outer[f]] + 1 /\ Depth[Outer[f]] \in Nat
    BY <2>2, <2>3, <2>5, Surroundings
  <2>7. rax' \in 1..Len(acts) /\ acts[rax'].fn = Outer[f]
    BY <2>1, <2>3, <2>5, <2>6
  <2>8. acts[rax'].env[Target] = Running.env[Target]
    <3>1. rax' = acts[rax].env[Outer[f]]
      BY <2>1, <2>3, <2>5
    <3>2. acts[rax].env[Target] = acts[acts[rax].env[Outer[f]]].env[Target]
      BY <2>3, <2>6 DEF Agrees
    <3> QED BY <2>2, <3>1, <3>2
  <2>9. hops' = Depth[acts[rax'].fn] - Depth[Target] /\ hops' \in Nat
    BY <2>1, <2>2, <2>4, <2>6, <2>7
  <2>10. TypeOK'
    BY <1>1, <2>1, <2>7, <2>9 DEF TypeOK
  <2> QED BY <1>1, <2>1, <2>2, <2>6, <2>7, <2>8, <2>9, <2>10 DEF IInv, Traversing
<1>5. CASE Enter
  <2> DEFINE a == [fn   |-> goal, link |-> rax,
                   env  |-> [h \in Functions |->
                               IF h = goal THEN Len(acts) + 1
                               ELSE IF h \in Enclosing[goal] THEN Running.env[h] ELSE 0]]
  <2>1. /\ pc = "call" /\ hops = 0 /\ acts' = Append(acts, a)
        /\ pc' = "body" /\ goal' = Module /\ rax' = 0 /\ hops' = 0
    BY <1>5 DEF Enter, Idle
  <2>2. goal \in Visible(Running.fn)
    BY <2>1 DEF IInv
  <2>3. rax = Running.env[Outer[goal]]
    <3>1. /\ rax \in 1..Len(acts) /\ Target \in Enclosing[acts[rax].fn]
          /\ acts[rax].env[Target] = Running.env[Target]
          /\ hops = Depth[acts[rax].fn] - Depth[Target]
          /\ Target = Outer[goal]
      BY <2>1 DEF IInv, Traversing, Target
    <3>2. acts[rax].fn \in Functions /\ acts[rax].env[acts[rax].fn] = rax
      BY <1>1, <3>1, Known
    <3>3. Target = acts[rax].fn
      BY <2>1, <3>1, <3>2, DepthAssumption, NestingAssumption
    <3> QED BY <3>1, <3>2, <3>3
  <2>4. a \in Activation /\ a.fn = goal /\ a.link = rax /\ a.env[goal] = Len(acts) + 1
    <3>1. goal \in Functions /\ rax \in Nat /\ Running.env \in [Functions -> Nat]
      <4>1. Running \in Activation
        BY <1>1 DEF Running
      <4> QED BY <1>1, <4>1 DEF TypeOK, Activation
    <3>2. a.env \in [Functions -> Nat] /\ a.env[goal] = Len(acts) + 1
      BY <1>1, <3>1
    <3> QED BY <3>1, <3>2 DEF Activation
  <2>5. ASSUME NEW h \in Enclosing[Outer[goal]] PROVE a.env[h] = Running.env[h]
    <3>1. goal \in Functions /\ h \in Enclosing[goal] /\ h # goal /\ h \in Functions
      BY <2>2, <2>5, Surroundings, OuterAssumption, DepthAssumption DEF Visible
    <3> QED BY <3>1
  <2>6. /\ acts' \in Seq(Activation) /\ Len(acts') = Len(acts) + 1
        /\ acts'[Len(acts) + 1] = a /\ \A j \in 1..Len(acts) : acts'[j] = acts[j]
    BY <1>1, <2>1, <2>4
  <2>7. Sound(acts')
    <3> HIDE DEF a
    <3> QED BY <1>1, <2>2, <2>3, <2>4, <2>5, <2>6, PushSound DEF Running
  <2>8. Sound(acts)'
    BY <2>7 DEF Sound, SoundAt, Agrees
  <2>9. TypeOK'
    BY <2>1, <2>6, ModuleAssumption DEF TypeOK
  <2> QED BY <1>1, <2>1, <2>6, <2>8, <2>9 DEF IInv
<1>6. CASE Found
  <2>1. TypeOK'
    BY <1>1, <1>6, ModuleAssumption DEF Found, Idle, TypeOK
  <2> QED BY <1>1, <1>6, <2>1 DEF Found, Idle, IInv, Sound, SoundAt, Agrees
<1>7. CASE Return
  <2>1. /\ pc = "body" /\ Len(acts) > 1 /\ acts' = SubSeq(acts, 1, Len(acts) - 1)
        /\ pc' = pc /\ goal' = goal /\ rax' = rax /\ hops' = hops
    BY <1>7 DEF Return
  <2>2. acts' \in Seq(Activation) /\ Len(acts') = Len(acts) - 1 /\ Sound(acts')
    BY <1>1, <2>1, PopSound
  <2>3. TypeOK'
    BY <1>1, <2>1, <2>2 DEF TypeOK
  <2>4. Sound(acts)'
    BY <2>2 DEF Sound, SoundAt, Agrees
  <2> QED BY <1>1, <2>1, <2>2, <2>3, <2>4 DEF IInv
<1>8. CASE UNCHANGED vars
  BY <1>8 DEF vars, IInv, TypeOK, Sound, SoundAt, Agrees, Traversing, Running, Target
<1> QED BY <1>2, <1>3, <1>4, <1>5, <1>6, <1>7, <1>8 DEF Next

\* In every reachable state the invariant holds.
LEMMA Inductive == Spec => []IInv
  BY InitIInv, NextIInv, PTL DEF Spec

\* The activations, the traversal and the counters keep their types.
THEOREM TypeCorrect == Spec => []TypeOK
<1>1. IInv => TypeOK
  BY DEF IInv
<1> QED BY <1>1, Inductive, PTL

\* A traversal that has followed all its links is at the activation of the
\* target that the running function was declared under, whatever the nesting,
\* the depth of the calls and the recursion (CG_var_address and
\* CG_create_static_link).
THEOREM LinksReachFrame == Spec => []ReachesFrame
<1>1. IInv => ReachesFrame
  <2> SUFFICES ASSUME IInv, pc # "body", hops = 0 PROVE rax = Running.env[Target]
    BY DEF ReachesFrame
  <2>1. /\ rax \in 1..Len(acts) /\ Target \in Enclosing[acts[rax].fn]
        /\ acts[rax].env[Target] = Running.env[Target]
        /\ hops = Depth[acts[rax].fn] - Depth[Target]
    BY DEF IInv, Traversing
  <2>2. acts[rax].fn \in Functions /\ acts[rax].env[acts[rax].fn] = rax
    BY <2>1, Known DEF IInv, TypeOK
  <2>3. Target = acts[rax].fn
    BY <2>1, <2>2, DepthAssumption, NestingAssumption
  <2> QED BY <2>1, <2>2, <2>3
<1> QED BY <1>1, Inductive, PTL

\* Every activation but the module's stays linked to the activation of the
\* function it was declared in that its caller saw.
THEOREM LinksLeadOut == Spec => []LinkedToOuter
<1>1. IInv => LinkedToOuter
  BY Known DEF IInv, TypeOK, LinkedToOuter
<1> QED BY <1>1, Inductive, PTL
===============================================================================
