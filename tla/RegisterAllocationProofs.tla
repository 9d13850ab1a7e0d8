----------------------- MODULE RegisterAllocationProofs -----------------------
EXTENDS RegisterAllocation, TLAPS

(***************************************************************************)
(* InsertAt, the step of the insertion sort, permutes the sequence.        *)
(***************************************************************************)
InsertIndex(p, k, l) ==
    IF l = p THEN k ELSE IF p < l /\ l <= k THEN l - 1 ELSE l

\* Every element of the result is the element at InsertIndex, and InsertIndex
\* is a permutation: nothing is lost or repeated by sort_nodes.
LEMMA InsertAtPermutes ==
    ASSUME NEW S, NEW s \in Seq(S), NEW k \in 1..Len(s), NEW p \in 1..k
    PROVE  /\ InsertAt(s, p, k) \in Seq(S)
           /\ Len(InsertAt(s, p, k)) = Len(s)
           /\ \A l \in 1..Len(s) :
                /\ InsertIndex(p, k, l) \in 1..Len(s)
                /\ InsertAt(s, p, k)[l] = s[InsertIndex(p, k, l)]
           /\ \A l, m \in 1..Len(s) :
                InsertIndex(p, k, l) = InsertIndex(p, k, m) => l = m
           /\ \A m \in 1..Len(s) : \E l \in 1..Len(s) : InsertIndex(p, k, l) = m
<1> DEFINE t == InsertAt(s, p, k)
<1>1. \A l \in 1..Len(s) : InsertIndex(p, k, l) \in 1..Len(s)
  BY DEF InsertIndex
<1>2. t = [l \in 1..Len(s) |-> s[InsertIndex(p, k, l)]]
  BY DEF InsertAt, InsertIndex
<1>3. t \in Seq(S) /\ Len(t) = Len(s)
  BY <1>1, <1>2
<1>4. \A l, m \in 1..Len(s) :
        InsertIndex(p, k, l) = InsertIndex(p, k, m) => l = m
  BY DEF InsertIndex
<1>5. ASSUME NEW m \in 1..Len(s)
      PROVE  \E l \in 1..Len(s) : InsertIndex(p, k, l) = m
  <2> DEFINE w == IF m = k THEN p ELSE IF p <= m /\ m < k THEN m + 1 ELSE m
  <2>1. w \in 1..Len(s) /\ InsertIndex(p, k, w) = m
    BY DEF InsertIndex
  <2> QED BY <2>1
<1> QED BY <1>1, <1>2, <1>3, <1>4, <1>5

\* The elements of the sequence are those it had.
LEMMA InsertAtElems ==
    ASSUME NEW S, NEW s \in Seq(S), NEW k \in 1..Len(s), NEW p \in 1..k
    PROVE  Elems(InsertAt(s, p, k)) = Elems(s)
<1> DEFINE t == InsertAt(s, p, k)
<1>1. Len(t) = Len(s)
  BY InsertAtPermutes
<1>2. \A l \in 1..Len(s) :
        InsertIndex(p, k, l) \in 1..Len(s) /\ t[l] = s[InsertIndex(p, k, l)]
  BY InsertAtPermutes
<1>3. \A m \in 1..Len(s) : \E l \in 1..Len(s) : InsertIndex(p, k, l) = m
  BY InsertAtPermutes
<1> HIDE DEF t
<1>4. \A l \in 1..Len(t) : t[l] \in {s[m] : m \in 1..Len(s)}
  BY <1>1, <1>2
<1>5. \A m \in 1..Len(s) : s[m] \in {t[l] : l \in 1..Len(t)}
  BY <1>1, <1>2, <1>3
<1>6. {t[l] : l \in 1..Len(t)} = {s[m] : m \in 1..Len(s)}
  BY <1>4, <1>5
<1> QED BY <1>6 DEF Elems, t

\* Appending an element adds it to the elements, as the lists of a pass grow.
LEMMA AppendElems ==
    ASSUME NEW S, NEW s \in Seq(S), NEW e \in S
    PROVE  Elems(Append(s, e)) = Elems(s) \cup {e}
<1>1. Len(Append(s, e)) = Len(s) + 1
  OBVIOUS
<1>2. \A k \in 1..Len(s) : Append(s, e)[k] = s[k]
  OBVIOUS
<1>3. Append(s, e)[Len(s) + 1] = e
  OBVIOUS
<1> QED BY <1>1, <1>2, <1>3 DEF Elems

-------------------------------------------------------------------------------
(***************************************************************************)
(* The inductive invariant.                                                *)
(***************************************************************************)

\* The interference graph is symmetric, irreflexive, and within the frames.
GraphInv ==
    \A t \in Temps : \A u \in adj[t] :
        t \in adj[u] /\ t # u /\ prog.owner[t] = prog.owner[u]

\* A colour above MAX_REG is that of the parameter the node is.
PrecolourInv ==
    \A t \in Temps : color[t] > MAX_REG =>
        \E k \in 1..Len(prog.params[prog.owner[t]]) :
            prog.params[prog.owner[t]][k] = t /\ color[t] = RDI + k - 1

\* Before the selection no node has a register and none is given up.
Building == {"connect", "simplify", "sort"}

NoneSelected ==
    pc \in Building =>
        /\ \A t \in Temps : color[t] \notin Colours
        /\ actual_spill = <<>>

\* Simple nodes are in ascending order; no node is listed twice.
ListsInv ==
    /\ pc = "connect" => simple_nodes = <<>> /\ potential_spill = <<>>
    /\ \A k, l \in 1..Len(simple_nodes) : k < l => simple_nodes[k] < simple_nodes[l]
    /\ \A k, l \in 1..Len(potential_spill) :
          potential_spill[k] = potential_spill[l] => k = l
    /\ \A k \in 1..Len(simple_nodes), l \in 1..Len(potential_spill) :
          simple_nodes[k] # potential_spill[l]
    /\ pc = "simplify" =>
          /\ \A k \in 1..Len(simple_nodes) : simple_nodes[k] < i
          /\ \A k \in 1..Len(potential_spill) : potential_spill[k] < i

\* The nodes still to be visited are undecided ...
PendingInv ==
    /\ pc \in {"simplify", "sort"} =>
          \A k \in 1..Len(simple_nodes) : color[simple_nodes[k]] = 0
    /\ pc = "select" =>
          \A k \in 1..Len(simple_nodes) : k >= i =>
              color[simple_nodes[k]] = 0 /\ simple_nodes[k] \notin Elems(actual_spill)
    /\ pc \in {"simplify", "sort", "select"} =>
          \A k \in 1..Len(potential_spill) :
              /\ color[potential_spill[k]] = 0
              /\ potential_spill[k] \notin Elems(actual_spill)
    /\ pc = "select_spill" =>
          \A k \in 1..Len(potential_spill) : k >= i =>
              /\ color[potential_spill[k]] = 0
              /\ potential_spill[k] \notin Elems(actual_spill)

\* ... and the ones with a register were visited before: this is why a simple
\* node needs to look at lower neighbours only.
VisitedInv ==
    pc = "select" =>
        \A t \in Temps : color[t] \in Colours =>
            \E k \in 1..Len(simple_nodes) : k < i /\ simple_nodes[k] = t

\* No node of the graph is forgotten.
CoverInv ==
    /\ pc = "simplify" =>
          \A t \in 1..num_nodes : t < i =>
              color[t] # 0 \/ t \in Elems(simple_nodes) \/ t \in Elems(potential_spill)
    /\ pc = "sort" =>
          \A t \in 1..num_nodes :
              color[t] # 0 \/ t \in Elems(simple_nodes) \/ t \in Elems(potential_spill)
    /\ pc = "select" =>
          \A t \in 1..num_nodes :
              \/ color[t] # 0
              \/ \E k \in 1..Len(simple_nodes) : k >= i /\ simple_nodes[k] = t
              \/ t \in Elems(potential_spill)
              \/ t \in Elems(actual_spill)
    /\ pc = "select_spill" =>
          \A t \in 1..num_nodes :
              \/ color[t] # 0
              \/ \E k \in 1..Len(potential_spill) : k >= i /\ potential_spill[k] = t
              \/ t \in Elems(actual_spill)

PositionInv ==
    /\ pc = "connect" => i <= Len(Params) + 1
    /\ pc = "rewrite" => actual_spill # <<>>

IInv ==
    /\ TypeOK /\ PositionInv
    /\ GraphInv /\ PrecolourInv /\ NoneSelected
    /\ ListsInv /\ PendingInv /\ VisitedInv /\ CoverInv
    /\ ProperColouring /\ SpillJustified /\ AllColoured

-------------------------------------------------------------------------------
\* What ProgramAssumption says of the parameters of a frame.
LEMMA ParameterFacts ==
    ASSUME prog \in Programs, NEW f \in 1..Frames
    PROVE  /\ prog.params[f] \in Seq(Temps)
           /\ Len(prog.params[f]) <= 4
           /\ \A k \in 1..Len(prog.params[f]) :
                prog.params[f][k] \in Temps /\ prog.owner[prog.params[f][k]] = f
           /\ \A k, l \in 1..Len(prog.params[f]) :
                prog.params[f][k] = prog.params[f][l] => k = l
<1>1. IsProgram(prog)
  BY ProgramAssumption
<1>2. prog.params[f] \in Seq(Temps)
  BY <1>1 DEF IsProgram
<1>3. \A k \in 1..Len(prog.params[f]) : prog.params[f][k] \in Temps
  BY <1>2
<1>4. Len(prog.params[f]) <= 4
  BY <1>1 DEF IsProgram
<1>5. \A k \in 1..Len(prog.params[f]) : prog.owner[prog.params[f][k]] = f
  BY <1>1 DEF IsProgram
<1>6. \A k, l \in 1..Len(prog.params[f]) :
        prog.params[f][k] = prog.params[f][l] => k = l
  BY <1>1 DEF IsProgram
<1> QED BY <1>2, <1>3, <1>4, <1>5, <1>6, Zenon

\* The allocator starts in range.
LEMMA InitType == Init => TypeOK
<1> SUFFICES ASSUME Init PROVE TypeOK
  OBVIOUS
<1>1. prog.temps \in Temps
  BY ProgramAssumption DEF Init, IsProgram
<1>2. num_nodes \in prog.temps..MaxNodes
  BY <1>1, NodesAssumption DEF Init, Temps
<1>3. color \in [Temps -> 0..(TOTAL_REG - 1)]
  BY RegAssumption DEF Init, TOTAL_REG
<1>4. adj \in [Temps -> SUBSET Temps] /\ conn \in [Temps -> SUBSET Temps]
  BY DEF Init, EmptyGraph
<1>5. 1 \in 1..Frames
  BY NodesAssumption
<1> QED BY <1>2, <1>3, <1>4, <1>5 DEF Init, TypeOK

\* No step of the allocator leaves the ranges.
LEMMA NextType == TypeOK /\ [Next]_vars => TypeOK'
<1> SUFFICES ASSUME TypeOK, [Next]_vars PROVE TypeOK'
  OBVIOUS
<1> USE DEF TypeOK
<1>1. \A t \in 1..num_nodes : t \in Temps
  BY NodesAssumption, ProgramAssumption DEF Temps, IsProgram
<1>2. \A out \in SUBSET Temps : HandleOut(out) =>
         adj' \in [Temps -> SUBSET Temps] /\ conn' \in [Temps -> SUBSET Temps]
  BY DEF HandleOut, Interfere
<1>3. CASE LoadParam
  <2>1. Params \in Seq(Temps) /\ Len(Params) <= 4
    BY ParameterFacts DEF Params
  <2>3. \A k \in 1..Len(Params) : Params[k] \in Temps
    BY ParameterFacts DEF Params
  <2>4. i \in 1..Len(Params) /\ i \in 1..4
    BY <1>3, <2>1 DEF LoadParam
  <2>5. Params[i] \in Temps
    BY <2>3, <2>4
  <2>2. color' \in [Temps -> 0..(TOTAL_REG - 1)]
    BY <1>3, <2>4, <2>5, RegAssumption DEF LoadParam, RDI, TOTAL_REG
  <2> QED BY <1>2, <1>3, <2>2 DEF LoadParam, lists
<1>4. CASE HandleOperation
  BY <1>2, <1>4 DEF HandleOperation, lists
<1>5. CASE NextFrame
  BY <1>5, NodesAssumption DEF NextFrame, graph, lists
<1>6. CASE Simplify
  <2>1. i \in Temps
    BY <1>1, <1>6 DEF Simplify
  <2>2. Disconnect(conn, i) \in [Temps -> SUBSET Temps]
    BY <2>1 DEF Disconnect
  <2>3. CASE UNCHANGED <<conn, lists>>
    BY <1>6, <2>3 DEF Simplify, lists
  <2>4. CASE /\ conn' = Disconnect(conn, i)
             /\ simple_nodes' = Append(simple_nodes, i)
             /\ UNCHANGED <<potential_spill, actual_spill>>
    BY <1>6, <2>1, <2>2, <2>4 DEF Simplify
  <2>5. CASE /\ potential_spill' = Append(potential_spill, i)
             /\ UNCHANGED <<conn, simple_nodes, actual_spill>>
    BY <1>6, <2>1, <2>5 DEF Simplify
  <2> QED BY <1>6, <2>3, <2>4, <2>5 DEF Simplify
<1>7. CASE EndSimplify \/ EndSort \/ EndSelectSimple
  BY <1>7 DEF EndSimplify, EndSort, EndSelectSimple, graph, lists
<1>8. CASE SortNode
  <2>1. PICK p \in 1..i : potential_spill' = InsertAt(potential_spill, p, i)
    BY <1>8 DEF SortNode
  <2>2. i \in 1..Len(potential_spill)
    BY <1>8, <2>1 DEF SortNode
  <2>3. InsertAt(potential_spill, p, i) \in Seq(Temps)
    BY <2>1, <2>2, InsertAtPermutes
  <2> QED BY <1>8, <2>1, <2>3 DEF SortNode, graph
<1>9. ASSUME NEW t \in Temps, NEW nbrs \in SUBSET Temps, Select(t, nbrs)
      PROVE  TypeOK'
  <2>1. conn' \in [Temps -> SUBSET Temps]
    BY <1>9 DEF Select, Connect
  <2>2. Free(nbrs) \subseteq 0..(TOTAL_REG - 1)
    BY RegAssumption DEF Free, Colours, TOTAL_REG
  <2>3. CASE color' = color /\ actual_spill' = Append(actual_spill, t)
    BY <1>9, <2>1, <2>3 DEF Select
  <2>4. ASSUME NEW c \in Free(nbrs),
               color' = [color EXCEPT ![t] = c], actual_spill' = actual_spill
        PROVE  TypeOK'
    <3>1. c \in 0..(TOTAL_REG - 1)
      BY <2>2
    <3>2. color' \in [Temps -> 0..(TOTAL_REG - 1)]
      BY <2>4, <3>1
    <3> QED BY <1>9, <2>1, <2>4, <3>2 DEF Select
  <2> QED BY <1>9, <2>3, <2>4 DEF Select
<1>10. CASE SelectSimple
  <2>1. simple_nodes[i] \in Temps
    BY <1>10 DEF SelectSimple
  <2>2. LowerNeighbours(simple_nodes[i]) \in SUBSET Temps
    BY <2>1 DEF LowerNeighbours
  <2> QED BY <1>9, <1>10, <2>1, <2>2 DEF SelectSimple
<1>11. CASE SelectSpill
  <2>1. potential_spill[i] \in Temps
    BY <1>11 DEF SelectSpill
  <2> QED BY <1>9, <1>11, <2>1 DEF SelectSpill
<1>12. CASE EndSelect
  BY <1>12 DEF EndSelect, graph, lists
<1>13. CASE Rebuild
  <2>1. color' \in [Temps -> 0..(TOTAL_REG - 1)]
    BY <1>13, RegAssumption DEF Rebuild, TOTAL_REG
  <2>2. num_nodes' \in prog.temps..MaxNodes
    <3>1. prog.temps \in Nat /\ MaxNodes \in Nat
      BY ProgramAssumption, NodesAssumption DEF IsProgram, Temps
    <3> QED BY <1>13, <3>1 DEF Rebuild
  <2>3. EmptyGraph \in [Temps -> SUBSET Temps] /\ 1 \in 1..Frames
    BY NodesAssumption DEF EmptyGraph
  <2> QED BY <1>13, <2>1, <2>2, <2>3 DEF Rebuild
<1>14. CASE Finished \/ UNCHANGED vars
  BY <1>14 DEF Finished, vars, graph, lists
<1> QED
  BY <1>3, <1>4, <1>5, <1>6, <1>7, <1>8, <1>10, <1>11, <1>12, <1>13, <1>14 DEF Next

\* The allocator's variables stay in range for every MAX_REG and every program;
\* a colour always indexes the array colors of RA_select within its bounds.
THEOREM TypeCorrect == Spec => []TypeOK
BY InitType, NextType, PTL DEF Spec

-------------------------------------------------------------------------------
\* While no register is handed out, the only colours are those of parameters,
\* and two parameters of a frame have different ones.
LEMMA BuildingColouring ==
    TypeOK /\ GraphInv /\ PrecolourInv /\ NoneSelected /\ pc \in Building
        => ProperColouring
<1> SUFFICES ASSUME TypeOK, GraphInv, PrecolourInv, NoneSelected, pc \in Building,
                    NEW t \in Temps, NEW u \in adj[t], color[t] # 0, color[u] # 0
             PROVE  color[t] # color[u]
  BY DEF ProperColouring
<1>1. u \in Temps /\ t # u /\ prog.owner[t] = prog.owner[u]
  BY DEF TypeOK, GraphInv
<1>2. color[t] > MAX_REG /\ color[u] > MAX_REG
  <2>1. color[t] \in Nat /\ color[u] \in Nat
    BY <1>1, RegAssumption DEF TypeOK, TOTAL_REG
  <2>2. color[t] \notin 1..MAX_REG /\ color[u] \notin 1..MAX_REG
    BY <1>1 DEF NoneSelected, Building, Colours
  <2> QED BY <2>1, <2>2, RegAssumption
<1> DEFINE f == prog.owner[t]
           ps == prog.params[f]
<1>3. f \in 1..Frames
  BY ProgramAssumption DEF TypeOK, IsProgram
<1>4. PICK k \in 1..Len(ps) : ps[k] = t /\ color[t] = RDI + k - 1
  BY <1>2 DEF PrecolourInv
<1>5. PICK l \in 1..Len(ps) : ps[l] = u /\ color[u] = RDI + l - 1
  BY <1>1, <1>2 DEF PrecolourInv
<1>6. k # l
  BY <1>1, <1>4, <1>5
<1>7. ps \in Seq(Temps)
  BY <1>3, ParameterFacts DEF TypeOK
<1> QED BY <1>4, <1>5, <1>6, <1>7, RegAssumption DEF RDI

\* An empty list has no elements.
LEMMA NoElems == Elems(<<>>) = {}
BY DEF Elems

\* The invariant holds when the first graph is created.
LEMMA InitInv == Init => IInv
<1> SUFFICES ASSUME Init PROVE IInv
  OBVIOUS
<1>1. TypeOK
  BY InitType
<1>2. PositionInv
  <2>1. Params \in Seq(Temps)
    BY <1>1, ParameterFacts DEF TypeOK, Params
  <2> QED BY <2>1 DEF Init, PositionInv
<1>3. GraphInv
  BY DEF Init, GraphInv, EmptyGraph
<1>4. PrecolourInv /\ NoneSelected
  BY RegAssumption DEF Init, PrecolourInv, NoneSelected, Colours
<1>5. ListsInv /\ PendingInv /\ VisitedInv /\ CoverInv
  BY DEF Init, ListsInv, PendingInv, VisitedInv, CoverInv
<1>6. ProperColouring
  BY <1>1, <1>3, <1>4, BuildingColouring DEF Init, Building
<1>7. SpillJustified /\ AllColoured
  BY NoElems DEF Init, SpillJustified, AllColoured
<1> QED BY <1>1, <1>2, <1>3, <1>4, <1>5, <1>6, <1>7 DEF IInv

\* The edges of an out set keep the graph symmetric and within a frame.
LEMMA OutKeepsGraph ==
    ASSUME TypeOK, GraphInv, NEW out, HandleOut(out), UNCHANGED prog
    PROVE  GraphInv'
<1>1. out \subseteq Temps
  BY ProgramAssumption, NodesAssumption
     DEF HandleOut, Owned, TypeOK, Temps, IsProgram
<1>2. \A t \in out : prog.owner[t] = frm
  BY DEF HandleOut, Owned
<1>3. adj' = [u \in Temps |-> IF u \in out THEN adj[u] \cup (out \ {u}) ELSE adj[u]]
  BY DEF HandleOut, Interfere
<1> SUFFICES ASSUME NEW t \in Temps, NEW u \in adj'[t]
             PROVE  t \in adj'[u] /\ t # u /\ prog.owner[t] = prog.owner[u]
  BY DEF GraphInv
<1>4. CASE u \in adj[t]
  BY <1>3, <1>4 DEF GraphInv, TypeOK
<1>5. CASE t \in out /\ u \in out /\ u # t
  BY <1>1, <1>2, <1>3, <1>5
<1> QED BY <1>3, <1>4, <1>5

\* Building the interference graph preserves the invariant.
LEMMA ConnectInv ==
    ASSUME IInv, LoadParam \/ HandleOperation \/ NextFrame
    PROVE  IInv'
<1> USE DEF IInv
<1>1. TypeOK'
  BY NextType DEF Next
<1>2. pc = "connect" /\ UNCHANGED <<prog, lists>>
  BY DEF LoadParam, HandleOperation, NextFrame
<1>3. GraphInv'
  <2>1. CASE LoadParam \/ HandleOperation
    BY <1>2, <2>1, OutKeepsGraph DEF LoadParam, HandleOperation
  <2>2. CASE NextFrame
    BY <2>2 DEF NextFrame, graph, GraphInv
  <2> QED BY <2>1, <2>2
<1>4. Params \in Seq(Temps) /\ Len(Params) <= 4
  BY ParameterFacts DEF TypeOK, Params
<1>5. (PositionInv /\ PrecolourInv)' /\ (\A t \in Temps : color'[t] \notin Colours)
  <2>1. CASE LoadParam
    <3>1. i \in 1..Len(Params)
      BY <1>4, <2>1 DEF LoadParam, TypeOK
    <3>2. Params[i] \in Temps /\ prog.owner[Params[i]] = frm
      BY <3>1, ParameterFacts DEF TypeOK, Params
    <3>3. color' = [color EXCEPT ![Params[i]] = RDI + i - 1]
      BY <2>1 DEF LoadParam
    <3>4. RDI + i - 1 > MAX_REG /\ RDI + i - 1 \notin Colours
      BY <3>1, RegAssumption DEF RDI, Colours
    <3>5. PrecolourInv'
      <4> SUFFICES ASSUME NEW t \in Temps, color'[t] > MAX_REG
                   PROVE  \E k \in 1..Len(prog.params[prog.owner[t]]) :
                            /\ prog.params[prog.owner[t]][k] = t
                            /\ color'[t] = RDI + k - 1
        BY <1>2 DEF PrecolourInv
      <4>1. CASE t = Params[i]
        BY <3>1, <3>2, <3>3, <4>1 DEF TypeOK, Params
      <4>2. CASE t # Params[i]
        BY <3>3, <4>2 DEF TypeOK, PrecolourInv
      <4> QED BY <4>1, <4>2
    <3>6. PositionInv'
      <4>1. frm' = frm /\ i' = i + 1 /\ prog' = prog /\ pc' = "connect"
        BY <2>1 DEF LoadParam
      <4> QED BY <1>4, <3>1, <4>1 DEF PositionInv, Params
    <3> QED
      BY <1>2, <3>3, <3>4, <3>5, <3>6 DEF TypeOK, NoneSelected, Building
  <2>2. CASE HandleOperation
    BY <1>2, <2>2
       DEF HandleOperation, PositionInv, PrecolourInv, NoneSelected, Building, Params
  <2>3. CASE NextFrame
    <3>1. (Params \in Seq(Temps))'
      BY <1>1, ParameterFacts, <1>2 DEF TypeOK, Params
    <3>2. PositionInv'
      <4>1. pc' # "rewrite" /\ i' = 1
        BY <2>3 DEF NextFrame
      <4> QED BY <3>1, <4>1 DEF PositionInv
    <3> QED
      BY <1>2, <2>3, <3>2
         DEF NextFrame, graph, PrecolourInv, NoneSelected, Building
  <2> QED BY <2>1, <2>2, <2>3
<1>6. /\ simple_nodes' = <<>> /\ potential_spill' = <<>> /\ actual_spill' = <<>>
      /\ pc' \in {"connect", "simplify"}
  BY <1>2 DEF LoadParam, HandleOperation, NextFrame, lists, ListsInv, NoneSelected,
              Building
<1>7. pc' = "simplify" => i' = 1
  BY <1>2 DEF LoadParam, HandleOperation, NextFrame
<1>8. NoneSelected'
  BY <1>5, <1>6 DEF NoneSelected, Building, Colours
<1>9. (ListsInv /\ PendingInv /\ VisitedInv)'
  BY <1>6 DEF ListsInv, PendingInv, VisitedInv
<1>10. CoverInv'
  BY <1>1, <1>6, <1>7 DEF CoverInv, TypeOK
<1>11. (pc \in Building)'
  BY <1>6 DEF Building
<1>12. ProperColouring'
  BY <1>1, <1>3, <1>5, <1>8, <1>11, BuildingColouring, PTL
<1>13. (SpillJustified /\ AllColoured)'
  BY <1>6, NoElems DEF SpillJustified, AllColoured
<1> QED BY <1>1, <1>3, <1>5, <1>8, <1>9, <1>10, <1>12, <1>13

\* RA_simplify and sort_nodes distribute and reorder the nodes, nothing else.
LEMMA SimplifyInv ==
    ASSUME IInv, Simplify
    PROVE  IInv'
<1> USE DEF IInv
<1>1. TypeOK'
  BY NextType DEF Next
<1>2. /\ pc = "simplify" /\ pc' = "simplify" /\ i' = i + 1
      /\ i \in Temps
      /\ UNCHANGED <<prog, num_nodes, adj, color, frm, actual_spill>>
  BY NodesAssumption, ProgramAssumption DEF Simplify, lists, TypeOK, Temps, IsProgram
<1>3. (PositionInv /\ GraphInv /\ PrecolourInv /\ NoneSelected)'
  BY <1>2 DEF PositionInv, GraphInv, PrecolourInv, NoneSelected, Building
<1>4. (ProperColouring /\ SpillJustified /\ AllColoured)'
  BY <1>2 DEF ProperColouring, SpillJustified, AllColoured
<1>5. Elems(actual_spill) = {}
  BY <1>2, NoElems DEF NoneSelected, Building
<1>9. /\ i \in Nat
      /\ \A k \in 1..Len(simple_nodes) : simple_nodes[k] \in Nat
      /\ \A k \in 1..Len(potential_spill) : potential_spill[k] \in Nat
  <2>1. Temps \subseteq Nat
    BY DEF Temps
  <2>2. i \in Nat
    BY DEF TypeOK
  <2>3. \A k \in 1..Len(simple_nodes) : simple_nodes[k] \in Temps
    BY DEF TypeOK
  <2>4. \A k \in 1..Len(potential_spill) : potential_spill[k] \in Temps
    BY DEF TypeOK
  <2> QED BY <2>1, <2>2, <2>3, <2>4
<1>10. /\ \A k \in 1..Len(simple_nodes) : simple_nodes[k] < i
      /\ \A k \in 1..Len(potential_spill) : potential_spill[k] < i
  BY <1>2 DEF ListsInv
<1>6. CASE UNCHANGED <<conn, lists>> /\ color[i] # 0
  <2>1. UNCHANGED <<simple_nodes, potential_spill>>
    BY <1>6 DEF lists
  <2>2. ListsInv'
    BY <1>2, <1>9, <1>10, <2>1 DEF ListsInv
  <2>4. (PendingInv /\ VisitedInv)'
    BY <1>2, <2>1 DEF PendingInv, VisitedInv
  <2>3. CoverInv'
    BY <1>2, <1>6, <2>1 DEF CoverInv, TypeOK
  <2> QED BY <1>1, <1>3, <1>4, <2>2, <2>3, <2>4
<1>7. CASE /\ color[i] = 0
           /\ simple_nodes' = Append(simple_nodes, i)
           /\ UNCHANGED potential_spill
  <2>1. /\ Len(simple_nodes') = Len(simple_nodes) + 1
        /\ \A k \in 1..Len(simple_nodes) : simple_nodes'[k] = simple_nodes[k]
        /\ simple_nodes'[Len(simple_nodes) + 1] = i
    BY <1>7 DEF TypeOK
  <2>2. ListsInv'
    <3>1. Len(simple_nodes) \in Nat /\ Len(potential_spill) \in Nat
      BY DEF TypeOK
    <3>2. \A k, l \in 1..Len(simple_nodes') :
            k < l => simple_nodes'[k] < simple_nodes'[l]
      <4> SUFFICES ASSUME NEW k \in 1..Len(simple_nodes'),
                          NEW l \in 1..Len(simple_nodes'), k < l
                   PROVE  simple_nodes'[k] < simple_nodes'[l]
        OBVIOUS
      <4>1. k \in 1..Len(simple_nodes)
        BY <2>1, <3>1
      <4>2. CASE l = Len(simple_nodes) + 1
        BY <1>10, <2>1, <4>1, <4>2
      <4>3. CASE l \in 1..Len(simple_nodes)
        BY <2>1, <4>1, <4>3 DEF ListsInv
      <4> QED BY <2>1, <3>1, <4>2, <4>3
    <3>3. \A k \in 1..Len(simple_nodes') :
            /\ simple_nodes'[k] < i + 1
            /\ \A l \in 1..Len(potential_spill) : simple_nodes'[k] # potential_spill[l]
      <4> SUFFICES ASSUME NEW k \in 1..Len(simple_nodes')
                   PROVE  /\ simple_nodes'[k] < i + 1
                          /\ \A l \in 1..Len(potential_spill) :
                               simple_nodes'[k] # potential_spill[l]
        OBVIOUS
      <4>1. CASE k = Len(simple_nodes) + 1
        BY <1>9, <1>10, <2>1, <4>1
      <4>2. CASE k \in 1..Len(simple_nodes)
        BY <1>9, <1>10, <2>1, <4>2 DEF ListsInv
      <4> QED BY <2>1, <3>1, <4>1, <4>2
    <3>4. \A k \in 1..Len(potential_spill) : potential_spill[k] < i + 1
      BY <1>9, <1>10
    <3> QED BY <1>2, <1>7, <3>2, <3>3, <3>4 DEF ListsInv
  <2>3. (PendingInv /\ VisitedInv)'
    BY <1>2, <1>5, <1>7, <2>1 DEF PendingInv, VisitedInv, TypeOK
  <2>4. Elems(simple_nodes') = Elems(simple_nodes) \cup {i}
    BY <1>2, <1>7, AppendElems DEF TypeOK
  <2>5. CoverInv'
    BY <1>2, <1>7, <2>4 DEF CoverInv, TypeOK
  <2> QED BY <1>1, <1>3, <1>4, <2>2, <2>3, <2>5
<1>8. CASE /\ color[i] = 0
           /\ potential_spill' = Append(potential_spill, i)
           /\ UNCHANGED simple_nodes
  <2>1. /\ Len(potential_spill') = Len(potential_spill) + 1
        /\ \A k \in 1..Len(potential_spill) : potential_spill'[k] = potential_spill[k]
        /\ potential_spill'[Len(potential_spill) + 1] = i
    BY <1>8 DEF TypeOK
  <2>2. ListsInv'
    BY <1>2, <1>8, <1>9, <1>10, <2>1 DEF ListsInv, TypeOK
  <2>3. (PendingInv /\ VisitedInv)'
    BY <1>2, <1>5, <1>8, <2>1 DEF PendingInv, VisitedInv, TypeOK
  <2>4. Elems(potential_spill') = Elems(potential_spill) \cup {i}
    BY <1>2, <1>8, AppendElems DEF TypeOK
  <2>5. CoverInv'
    BY <1>2, <1>8, <2>4 DEF CoverInv, TypeOK
  <2> QED BY <1>1, <1>3, <1>4, <2>2, <2>3, <2>5
<1> QED BY <1>6, <1>7, <1>8 DEF Simplify

\* sort_nodes permutes the potential spills.
LEMMA SortInv ==
    ASSUME IInv, SortNode
    PROVE  IInv'
<1> USE DEF IInv
<1>1. TypeOK'
  BY NextType DEF Next
<1>2. /\ pc = "sort" /\ pc' = "sort" /\ i' = i + 1
      /\ UNCHANGED <<prog, num_nodes, adj, color, frm, simple_nodes, actual_spill>>
  BY DEF SortNode, graph
<1>3. (PositionInv /\ GraphInv /\ PrecolourInv /\ NoneSelected)'
  BY <1>2 DEF PositionInv, GraphInv, PrecolourInv, NoneSelected, Building
<1>4. (ProperColouring /\ SpillJustified /\ AllColoured)'
  BY <1>2 DEF ProperColouring, SpillJustified, AllColoured
<1>5. PICK p \in 1..i : potential_spill' = InsertAt(potential_spill, p, i)
  BY DEF SortNode
<1>6. i \in 1..Len(potential_spill)
  BY DEF SortNode, TypeOK
<1>7. Len(potential_spill') = Len(potential_spill)
  BY <1>5, <1>6, InsertAtPermutes DEF TypeOK
<1>8. \A l \in 1..Len(potential_spill) :
        InsertIndex(p, i, l) \in 1..Len(potential_spill)
  BY <1>5, <1>6, InsertAtPermutes DEF TypeOK
<1>14. \A l \in 1..Len(potential_spill) :
        potential_spill'[l] = potential_spill[InsertIndex(p, i, l)]
  <2>1. \A l \in 1..Len(potential_spill) :
          InsertAt(potential_spill, p, i)[l] = potential_spill[InsertIndex(p, i, l)]
    BY DEF InsertAt, InsertIndex
  <2> QED BY <1>5, <2>1
<1>9. \A l, m \in 1..Len(potential_spill) :
        InsertIndex(p, i, l) = InsertIndex(p, i, m) => l = m
  BY <1>5, <1>6, InsertAtPermutes DEF TypeOK
<1>10. Elems(potential_spill') = Elems(potential_spill)
  BY <1>5, <1>6, InsertAtElems DEF TypeOK
<1>15. \A l, m \in 1..Len(potential_spill') :
          potential_spill'[l] = potential_spill'[m] => l = m
  <2>1. SUFFICES ASSUME NEW l \in 1..Len(potential_spill),
                        NEW m \in 1..Len(potential_spill),
                        potential_spill'[l] = potential_spill'[m]
                 PROVE  l = m
    BY <1>7
  <2>2. potential_spill[InsertIndex(p, i, l)] = potential_spill[InsertIndex(p, i, m)]
    BY <1>14, <2>1
  <2>3. InsertIndex(p, i, l) = InsertIndex(p, i, m)
    BY <1>8, <2>2 DEF ListsInv
  <2> QED BY <1>9, <2>3
<1>16. \A k \in 1..Len(simple_nodes'), l \in 1..Len(potential_spill') :
          simple_nodes'[k] # potential_spill'[l]
  <2>1. SUFFICES ASSUME NEW k \in 1..Len(simple_nodes),
                        NEW l \in 1..Len(potential_spill)
                 PROVE  simple_nodes[k] # potential_spill'[l]
    BY <1>2, <1>7
  <2>2. potential_spill'[l] = potential_spill[InsertIndex(p, i, l)]
    BY <1>14
  <2>3. simple_nodes[k] # potential_spill[InsertIndex(p, i, l)]
    BY <1>8 DEF ListsInv
  <2> QED BY <2>2, <2>3
<1>17. /\ pc' # "connect" /\ pc' # "simplify"
       /\ \A k, l \in 1..Len(simple_nodes') :
            k < l => simple_nodes'[k] < simple_nodes'[l]
  BY <1>2 DEF ListsInv
<1>11. ListsInv'
  BY <1>15, <1>16, <1>17 DEF ListsInv
<1>12. PendingInv'
  BY <1>2, <1>7, <1>8, <1>14 DEF PendingInv
<1>13. (VisitedInv /\ CoverInv)'
  BY <1>2, <1>10 DEF VisitedInv, CoverInv
<1> QED BY <1>1, <1>3, <1>4, <1>11, <1>12, <1>13

\* Between two passes only the index and the pass change.
LEMMA PassInv ==
    ASSUME IInv, EndSimplify \/ EndSort \/ EndSelectSimple \/ EndSelect
    PROVE  IInv'
<1> USE DEF IInv
<1>1. TypeOK'
  BY NextType DEF Next
<1>2. UNCHANGED <<prog, num_nodes, adj, color, frm>> /\ UNCHANGED lists
  BY DEF EndSimplify, EndSort, EndSelectSimple, EndSelect, graph
<1>3. pc # "connect" /\ pc' # "connect" /\ pc' # "simplify"
  BY DEF EndSimplify, EndSort, EndSelectSimple, EndSelect
<1>4. (PositionInv /\ GraphInv /\ PrecolourInv)'
  <2>1. pc' = "rewrite" => actual_spill' # <<>>
    BY <1>2 DEF EndSimplify, EndSort, EndSelectSimple, EndSelect, lists
  <2>2. PositionInv'
    BY <1>3, <2>1 DEF PositionInv
  <2> QED BY <1>2, <2>2 DEF GraphInv, PrecolourInv
<1>5. NoneSelected'
  BY <1>2 DEF NoneSelected, Building, lists, EndSimplify, EndSort, EndSelectSimple,
              EndSelect
<1>6. ListsInv'
  BY <1>2, <1>3 DEF ListsInv, lists
<1>7. (ProperColouring /\ SpillJustified)'
  BY <1>2 DEF ProperColouring, SpillJustified, lists
<1>8. CASE EndSimplify
  <2>1. Elems(actual_spill) = {}
    BY <1>8, NoElems DEF EndSimplify, NoneSelected, Building
  <2>2. (PendingInv /\ VisitedInv /\ AllColoured)'
    BY <1>2, <1>8 DEF EndSimplify, PendingInv, VisitedInv, AllColoured, lists
  <2>3. CoverInv'
    BY <1>2, <1>8 DEF EndSimplify, CoverInv, lists, TypeOK
  <2> QED BY <1>1, <1>4, <1>5, <1>6, <1>7, <2>2, <2>3
<1>9. CASE EndSort
  <2>1. Elems(actual_spill) = {} /\ \A t \in Temps : color[t] \notin Colours
    BY <1>9, NoElems DEF EndSort, NoneSelected, Building
  <2>2. (PendingInv /\ VisitedInv /\ AllColoured)'
    BY <1>2, <1>9, <2>1 DEF EndSort, PendingInv, VisitedInv, AllColoured, lists
  <2>3. CoverInv'
    BY <1>2, <1>9 DEF EndSort, CoverInv, Elems, lists
  <2> QED BY <1>1, <1>4, <1>5, <1>6, <1>7, <2>2, <2>3
<1>10. CASE EndSelectSimple
  <2>1. (PendingInv /\ VisitedInv /\ AllColoured)'
    BY <1>2, <1>10 DEF EndSelectSimple, PendingInv, VisitedInv, AllColoured, lists
  <2>2. pc = "select" /\ pc' = "select_spill" /\ i' = 1 /\ i > Len(simple_nodes)
    BY <1>10 DEF EndSelectSimple
  <2>3. \A k \in 1..Len(simple_nodes) : ~(k >= i)
    BY <2>2 DEF TypeOK
  <2>4. \A t \in Elems(potential_spill) :
           \E k \in 1..Len(potential_spill) : k >= 1 /\ potential_spill[k] = t
    BY DEF Elems
  <2>5. CoverInv'
    BY <1>2, <2>2, <2>3, <2>4 DEF CoverInv, lists
  <2> QED BY <1>1, <1>4, <1>5, <1>6, <1>7, <2>1, <2>5
<1>11. CASE EndSelect
  <2>1. pc' \in {"done", "rewrite"} /\ (pc' = "done" => actual_spill = <<>>)
    BY <1>11 DEF EndSelect
  <2>2. (PendingInv /\ VisitedInv /\ CoverInv)'
    BY <2>1 DEF PendingInv, VisitedInv, CoverInv
  <2>3. pc = "select_spill" /\ \A k \in 1..Len(potential_spill) : ~(k >= i)
    BY <1>11 DEF EndSelect, TypeOK
  <2>4. \A t \in 1..num_nodes : color[t] # 0 \/ t \in Elems(actual_spill)
    BY <2>3 DEF CoverInv
  <2>5. AllColoured'
    BY <1>2, <2>1, <2>4, NoElems DEF AllColoured, lists
  <2> QED BY <1>1, <1>4, <1>5, <1>6, <1>7, <2>2, <2>5
<1> QED BY <1>8, <1>9, <1>10, <1>11

-------------------------------------------------------------------------------
\* The heart of the argument: an undecided node may be coloured after a look at
\* some of its neighbours when none of the others holds a register.
LEMMA SelectColouring ==
    ASSUME IInv, NEW t \in Temps, NEW nbrs \in SUBSET adj[t], Select(t, nbrs),
           color[t] = 0, t \notin Elems(actual_spill),
           \A u \in adj[t] : u \notin nbrs => color[u] \notin Colours
    PROVE  /\ (GraphInv /\ PrecolourInv /\ ProperColouring /\ SpillJustified)'
           /\ \A u \in Temps : u # t => color'[u] = color[u]
           /\ Elems(actual_spill') \subseteq Elems(actual_spill) \cup {t}
           /\ Elems(actual_spill) \subseteq Elems(actual_spill')
           /\ color'[t] # 0 \/ t \in Elems(actual_spill')
<1> USE DEF IInv
<1>1. adj' = adj /\ prog' = prog
  BY DEF Select
<1>2. GraphInv'
  BY <1>1 DEF GraphInv
<1>3. adj[t] \subseteq Temps
  BY DEF TypeOK
<1>4. CASE Free(nbrs) = {} /\ actual_spill' = Append(actual_spill, t) /\ color' = color
  <2>1. Elems(actual_spill') = Elems(actual_spill) \cup {t}
    BY <1>4, AppendElems DEF TypeOK
  <2>2. \A c \in Colours : \E u \in adj[t] : color[u] = c
    BY <1>4 DEF Free
  <2>3. SpillJustified'
    BY <1>1, <1>4, <2>1, <2>2 DEF SpillJustified
  <2>4. (PrecolourInv /\ ProperColouring)'
    BY <1>1, <1>4 DEF PrecolourInv, ProperColouring
  <2> QED BY <1>2, <1>4, <2>1, <2>3, <2>4
<1>5. ASSUME NEW c \in Free(nbrs), color' = [color EXCEPT ![t] = c],
             actual_spill' = actual_spill
      PROVE  /\ (PrecolourInv /\ ProperColouring /\ SpillJustified)'
             /\ \A u \in Temps : u # t => color'[u] = color[u]
             /\ color'[t] # 0
  <2>1. c \in Colours /\ c # 0 /\ ~(c > MAX_REG)
    BY RegAssumption DEF Free, Colours
  <2>2. \A u \in adj[t] : color[u] # c
    BY <2>1 DEF Free
  <2>3. color'[t] = c /\ \A u \in Temps : u # t => color'[u] = color[u]
    BY <1>5 DEF TypeOK
  <2>4. PrecolourInv'
    BY <1>1, <2>1, <2>3 DEF PrecolourInv
  <2>5. ProperColouring'
    <3> SUFFICES ASSUME NEW x \in Temps, NEW y \in adj[x],
                        color'[x] # 0, color'[y] # 0
                 PROVE  color'[x] # color'[y]
      BY <1>1 DEF ProperColouring
    <3>1. y \in Temps /\ x \in adj[y] /\ x # y
      BY DEF GraphInv, TypeOK
    <3>2. CASE x = t
      BY <2>2, <2>3, <3>1, <3>2
    <3>3. CASE y = t
      BY <2>2, <2>3, <3>1, <3>3
    <3>4. CASE x # t /\ y # t
      BY <2>3, <3>1, <3>4 DEF ProperColouring
    <3> QED BY <3>2, <3>3, <3>4
  <2>6. SpillJustified'
    <3> SUFFICES ASSUME NEW x \in Elems(actual_spill)
                 PROVE  /\ color'[x] = 0
                        /\ \A d \in Colours : \E u \in adj[x] : color'[u] = d
      BY <1>1, <1>5 DEF SpillJustified
    <3>1. x \in Temps /\ x # t
      BY DEF Elems, TypeOK
    <3>2. color'[x] = 0
      BY <2>3, <3>1 DEF SpillJustified
    <3>3. ASSUME NEW d \in Colours
          PROVE  \E u \in adj[x] : color'[u] = d
      <4>1. PICK u \in adj[x] : color[u] = d
        BY DEF SpillJustified
      <4>2. u \in Temps /\ u # t
        BY <3>1, <4>1 DEF TypeOK, Colours
      <4> QED BY <2>3, <4>1, <4>2
    <3> QED BY <3>2, <3>3
  <2> QED BY <2>1, <2>3, <2>4, <2>5, <2>6
<1>6. CASE \E c \in Free(nbrs) : /\ color' = [color EXCEPT ![t] = c]
                                 /\ actual_spill' = actual_spill
  BY <1>2, <1>5, <1>6
<1> QED BY <1>4, <1>6 DEF Select

\* The neighbours RA_select does not look at come later, so hold no register.
LEMMA SelectSimpleInv ==
    ASSUME IInv, SelectSimple
    PROVE  IInv'
<1> USE DEF IInv
<1> DEFINE t == simple_nodes[i]
<1>1. TypeOK'
  BY NextType DEF Next
<1>2. /\ pc = "select" /\ pc' = "select" /\ i' = i + 1
      /\ i \in 1..Len(simple_nodes)
      /\ UNCHANGED <<prog, num_nodes, adj, simple_nodes, potential_spill, frm>>
  BY DEF SelectSimple, Select, TypeOK
<1>3. t \in Temps /\ color[t] = 0 /\ t \notin Elems(actual_spill)
  BY <1>2 DEF PendingInv, TypeOK
<1>4. \A k \in 1..Len(simple_nodes) : simple_nodes[k] \in Nat
  <2>1. \A k \in 1..Len(simple_nodes) : simple_nodes[k] \in Temps
    BY DEF TypeOK
  <2> QED BY <2>1 DEF Temps
<1>5. \A u \in adj[t] : u \notin LowerNeighbours(t) => color[u] \notin Colours
  <2> SUFFICES ASSUME NEW u \in adj[t], u \notin LowerNeighbours(t), color[u] \in Colours
               PROVE  FALSE
    OBVIOUS
  <2>1. u \in Temps /\ u \in Nat /\ t \in Nat /\ u > t
    BY <1>3 DEF LowerNeighbours, TypeOK, Temps
  <2>2. PICK k \in 1..Len(simple_nodes) : k < i /\ simple_nodes[k] = u
    BY <1>2, <2>1 DEF VisitedInv
  <2>3. simple_nodes[k] < t
    BY <1>2, <2>2 DEF ListsInv
  <2> QED BY <2>1, <2>2, <2>3
<1>6. Select(t, LowerNeighbours(t)) /\ LowerNeighbours(t) \in SUBSET adj[t]
  BY DEF SelectSimple, LowerNeighbours
<1>7. (GraphInv /\ PrecolourInv /\ ProperColouring /\ SpillJustified)'
  BY <1>3, <1>5, <1>6, SelectColouring
<1>8. \A u \in Temps : u # t => color'[u] = color[u]
  BY <1>3, <1>5, <1>6, SelectColouring
<1>9. /\ Elems(actual_spill') \subseteq Elems(actual_spill) \cup {t}
      /\ Elems(actual_spill) \subseteq Elems(actual_spill')
      /\ color'[t] # 0 \/ t \in Elems(actual_spill')
  BY <1>3, <1>5, <1>6, SelectColouring
<1> HIDE DEF t
<1>10. (PositionInv /\ NoneSelected /\ ListsInv /\ AllColoured)'
  BY <1>2 DEF PositionInv, NoneSelected, Building, ListsInv, AllColoured
<1>11. PendingInv'
  <2>1. ASSUME NEW k \in 1..Len(simple_nodes), k >= i + 1
        PROVE  /\ simple_nodes[k] \in Temps /\ simple_nodes[k] # t
               /\ color[simple_nodes[k]] = 0
               /\ simple_nodes[k] \notin Elems(actual_spill)
    BY <1>2, <1>4, <2>1 DEF ListsInv, PendingInv, TypeOK, t
  <2>2. ASSUME NEW k \in 1..Len(potential_spill)
        PROVE  /\ potential_spill[k] \in Temps /\ potential_spill[k] # t
               /\ color[potential_spill[k]] = 0
               /\ potential_spill[k] \notin Elems(actual_spill)
    BY <1>2 DEF ListsInv, PendingInv, TypeOK, t
  <2> QED BY <1>2, <1>8, <1>9, <2>1, <2>2 DEF PendingInv
<1>12. VisitedInv'
  <2> SUFFICES ASSUME NEW u \in Temps, color'[u] \in Colours
               PROVE  \E k \in 1..Len(simple_nodes) : k < i + 1 /\ simple_nodes[k] = u
    BY <1>2 DEF VisitedInv
  <2>1. CASE u = t
    BY <1>2, <2>1 DEF t
  <2>2. CASE u # t
    BY <1>2, <1>8, <2>2 DEF VisitedInv
  <2> QED BY <2>1, <2>2
<1>13. CoverInv'
  <2> SUFFICES ASSUME NEW u \in 1..num_nodes
               PROVE  \/ color'[u] # 0
                      \/ \E k \in 1..Len(simple_nodes) : k >= i + 1 /\ simple_nodes[k] = u
                      \/ u \in Elems(potential_spill)
                      \/ u \in Elems(actual_spill')
    BY <1>2 DEF CoverInv
  <2>1. CASE u = t
    BY <1>9, <2>1
  <2>2. CASE u # t
    <3>1. u \in Temps
      BY ProgramAssumption, NodesAssumption DEF TypeOK, Temps, IsProgram
    <3>2. \A k \in 1..Len(simple_nodes) :
            k >= i /\ simple_nodes[k] = u => k >= i + 1
      BY <1>2, <2>2 DEF t
    <3> QED BY <1>2, <1>8, <1>9, <2>2, <3>1, <3>2 DEF CoverInv
  <2> QED BY <2>1, <2>2
<1> QED BY <1>1, <1>7, <1>10, <1>11, <1>12, <1>13

\* A potential spill looks at all its neighbours.
LEMMA SelectSpillInv ==
    ASSUME IInv, SelectSpill
    PROVE  IInv'
<1> USE DEF IInv
<1> DEFINE t == potential_spill[i]
<1>1. TypeOK'
  BY NextType DEF Next
<1>2. /\ pc = "select_spill" /\ pc' = "select_spill" /\ i' = i + 1
      /\ i \in 1..Len(potential_spill)
      /\ UNCHANGED <<prog, num_nodes, adj, simple_nodes, potential_spill, frm>>
  BY DEF SelectSpill, Select, TypeOK
<1>3. t \in Temps /\ color[t] = 0 /\ t \notin Elems(actual_spill)
  BY <1>2 DEF PendingInv, TypeOK
<1>4. Select(t, adj[t])
  BY DEF SelectSpill
<1>5. (GraphInv /\ PrecolourInv /\ ProperColouring /\ SpillJustified)'
  BY <1>3, <1>4, SelectColouring
<1>6. \A u \in Temps : u # t => color'[u] = color[u]
  BY <1>3, <1>4, SelectColouring
<1>7. /\ Elems(actual_spill') \subseteq Elems(actual_spill) \cup {t}
      /\ Elems(actual_spill) \subseteq Elems(actual_spill')
      /\ color'[t] # 0 \/ t \in Elems(actual_spill')
  BY <1>3, <1>4, SelectColouring
<1> HIDE DEF t
<1>8. (PositionInv /\ NoneSelected /\ ListsInv /\ VisitedInv /\ AllColoured)'
  BY <1>2 DEF PositionInv, NoneSelected, Building, ListsInv, VisitedInv, AllColoured
<1>9. PendingInv'
  <2>1. ASSUME NEW k \in 1..Len(potential_spill), k >= i + 1
        PROVE  /\ potential_spill[k] \in Temps /\ potential_spill[k] # t
               /\ color[potential_spill[k]] = 0
               /\ potential_spill[k] \notin Elems(actual_spill)
    BY <1>2, <2>1 DEF ListsInv, PendingInv, TypeOK, t
  <2> QED BY <1>2, <1>6, <1>7, <2>1 DEF PendingInv
<1>10. CoverInv'
  <2> SUFFICES ASSUME NEW u \in 1..num_nodes
               PROVE  \/ color'[u] # 0
                      \/ \E k \in 1..Len(potential_spill) :
                            k >= i + 1 /\ potential_spill[k] = u
                      \/ u \in Elems(actual_spill')
    BY <1>2 DEF CoverInv
  <2>1. CASE u = t
    BY <1>7, <2>1
  <2>2. CASE u # t
    <3>1. u \in Temps
      BY ProgramAssumption, NodesAssumption DEF TypeOK, Temps, IsProgram
    <3>2. \A k \in 1..Len(potential_spill) :
            k >= i /\ potential_spill[k] = u => k >= i + 1
      BY <1>2, <2>2 DEF t
    <3> QED BY <1>2, <1>6, <1>7, <2>2, <3>1, <3>2 DEF CoverInv
  <2> QED BY <2>1, <2>2
<1> QED BY <1>1, <1>5, <1>8, <1>9, <1>10

\* A new round starts from an empty graph that keeps the parameters' colours.
LEMMA RebuildInv ==
    ASSUME IInv, Rebuild
    PROVE  IInv'
<1> USE DEF IInv
<1>1. TypeOK'
  BY NextType DEF Next
<1>2. GraphInv'
  BY DEF Rebuild, GraphInv, EmptyGraph
<1>3. PrecolourInv' /\ \A t \in Temps : color'[t] \notin Colours
  BY RegAssumption DEF Rebuild, PrecolourInv, Colours
<1>4. /\ simple_nodes' = <<>> /\ potential_spill' = <<>> /\ actual_spill' = <<>>
      /\ pc' = "connect" /\ i' = 1
  BY DEF Rebuild
<1>5. (NoneSelected /\ ListsInv /\ PendingInv /\ VisitedInv /\ CoverInv)'
  BY <1>3, <1>4 DEF NoneSelected, Building, ListsInv, PendingInv, VisitedInv, CoverInv,
                    Colours
<1>6. PositionInv'
  <2>1. (Params \in Seq(Temps))'
    <3>1. Rebuild => prog' = prog
      BY DEF Rebuild
    <3> QED BY <1>1, <3>1, ParameterFacts DEF TypeOK, Params
  <2> QED BY <1>4, <2>1 DEF PositionInv
<1>7. ProperColouring'
  <2>1. (pc \in Building)'
    BY <1>4 DEF Building
  <2> QED BY <1>1, <1>2, <1>3, <1>5, <2>1, BuildingColouring, PTL
<1>8. (SpillJustified /\ AllColoured)'
  BY <1>4, NoElems DEF SpillJustified, AllColoured
<1> QED BY <1>1, <1>2, <1>3, <1>5, <1>6, <1>7, <1>8

\* Every step of a pass preserves the invariant.
LEMMA NextInv == IInv /\ [Next]_vars => IInv'
<1> SUFFICES ASSUME IInv, [Next]_vars PROVE IInv'
  OBVIOUS
<1>1. CASE LoadParam \/ HandleOperation \/ NextFrame
  BY <1>1, ConnectInv
<1>2. CASE Simplify
  BY <1>2, SimplifyInv
<1>3. CASE SortNode
  BY <1>3, SortInv
<1>4. CASE EndSimplify \/ EndSort \/ EndSelectSimple \/ EndSelect
  BY <1>4, PassInv
<1>5. CASE SelectSimple
  BY <1>5, SelectSimpleInv
<1>6. CASE SelectSpill
  BY <1>6, SelectSpillInv
<1>7. CASE Rebuild
  BY <1>7, RebuildInv
<1>8. CASE Finished \/ UNCHANGED vars
  <2>1. UNCHANGED vars
    BY <1>8 DEF Finished
  <2>2. UNCHANGED <<prog, num_nodes, adj, conn, color, simple_nodes,
                    potential_spill, actual_spill, frm, i, pc>>
    BY <2>1 DEF vars, graph, lists
  <2> QED
    BY <2>2 DEF IInv, TypeOK, PositionInv, GraphInv, PrecolourInv, NoneSelected,
                ListsInv, PendingInv, VisitedInv, CoverInv, ProperColouring,
                SpillJustified, AllColoured, Params
<1> QED
  BY <1>1, <1>2, <1>3, <1>4, <1>5, <1>6, <1>7, <1>8 DEF Next

\* Every step of the allocator keeps the inductive invariant: nodes are visited
\* once, in ascending order, and what is registered or given up stays so.
THEOREM Invariance == Spec => []IInv
BY InitInv, NextInv, PTL DEF Spec

\* Temporaries alive at the same time never share a register, for every number
\* of registers, every program and every interference graph.
THEOREM ColouringIsProper == Spec => []ProperColouring
<1>1. IInv => ProperColouring
  BY DEF IInv
<1> QED BY Invariance, <1>1, PTL

\* A temporary is spilled only when its neighbours hold every register.
THEOREM SpillsAreJustified == Spec => []SpillJustified
<1>1. IInv => SpillJustified
  BY DEF IInv
<1> QED BY Invariance, <1>1, PTL

\* Every temporary has a register when the allocator returns.
THEOREM EveryTempColoured == Spec => []AllColoured
<1>1. IInv => AllColoured
  BY DEF IInv
<1> QED BY Invariance, <1>1, PTL

-------------------------------------------------------------------------------
(***************************************************************************)
(* Steps of the selection, seen from outside.                              *)
(***************************************************************************)

\* What a selection step does to the colours: it decides one undecided node.
LEMMA SelectStep ==
    ASSUME IInv, SelectSimple \/ SelectSpill
    PROVE  \E t \in Temps :
             /\ color[t] = 0 /\ t \notin Elems(actual_spill)
             /\ adj' = adj
             /\ \/ /\ \E c \in Colours : color' = [color EXCEPT ![t] = c]
                   /\ actual_spill' = actual_spill
                \/ /\ color' = color
                   /\ Elems(actual_spill') = Elems(actual_spill) \cup {t}
<1> USE DEF IInv
<1>1. ASSUME NEW t \in Temps, NEW nbrs \in SUBSET adj[t], Select(t, nbrs)
      PROVE  /\ adj' = adj
             /\ \/ /\ \E c \in Colours : color' = [color EXCEPT ![t] = c]
                   /\ actual_spill' = actual_spill
                \/ /\ color' = color
                   /\ Elems(actual_spill') = Elems(actual_spill) \cup {t}
  <2>1. CASE actual_spill' = Append(actual_spill, t) /\ color' = color
    <3>1. Elems(actual_spill') = Elems(actual_spill) \cup {t}
      BY <2>1, AppendElems DEF TypeOK
    <3> QED BY <1>1, <2>1, <3>1 DEF Select
  <2>2. CASE \E c \in Free(nbrs) : /\ color' = [color EXCEPT ![t] = c]
                                   /\ actual_spill' = actual_spill
    BY <1>1, <2>2 DEF Select, Free
  <2> QED BY <1>1, <2>1, <2>2 DEF Select
<1>2. CASE SelectSimple
  <2>1. /\ simple_nodes[i] \in Temps /\ color[simple_nodes[i]] = 0
        /\ simple_nodes[i] \notin Elems(actual_spill)
    BY <1>2 DEF SelectSimple, PendingInv, TypeOK
  <2>2. LowerNeighbours(simple_nodes[i]) \in SUBSET adj[simple_nodes[i]]
    BY DEF LowerNeighbours
  <2> QED BY <1>1, <1>2, <2>1, <2>2 DEF SelectSimple
<1>3. CASE SelectSpill
  <2>1. /\ potential_spill[i] \in Temps /\ color[potential_spill[i]] = 0
        /\ potential_spill[i] \notin Elems(actual_spill)
    BY <1>3 DEF SelectSpill, PendingInv, TypeOK
  <2> QED BY <1>1, <1>3, <2>1 DEF SelectSpill
<1> QED BY <1>2, <1>3

\* The other steps leave every register, and every spill, as it is.
LEMMA OtherSteps ==
    ASSUME [Next]_vars, ~(SelectSimple \/ SelectSpill), ~LoadParam, ~Rebuild
    PROVE  color' = color /\ actual_spill' = actual_spill
BY DEF Next, vars, graph, lists, HandleOperation, NextFrame, Simplify, EndSimplify,
       SortNode, EndSort, EndSelectSimple, EndSelect, Finished

\* No step, selection and rebuilding included, recolours a parameter.
LEMMA ParametersStayStep ==
    ASSUME IInv, [Next]_vars, NEW t \in Temps, color[t] > MAX_REG
    PROVE  color'[t] = color[t]
<1> USE DEF IInv
<1>1. CASE LoadParam
  <2>1. /\ Params \in Seq(Temps)
        /\ \A k \in 1..Len(Params) : prog.owner[Params[k]] = frm
        /\ \A k, l \in 1..Len(Params) : Params[k] = Params[l] => k = l
    BY ParameterFacts DEF Params, TypeOK
  <2>2. i \in 1..Len(Params) /\ color' = [color EXCEPT ![Params[i]] = RDI + i - 1]
    BY <1>1, <2>1 DEF LoadParam, TypeOK
  <2>3. CASE t = Params[i]
    <3>1. prog.owner[t] = frm
      BY <2>1, <2>2, <2>3
    <3>2. PICK k \in 1..Len(Params) : Params[k] = t /\ color[t] = RDI + k - 1
      BY <3>1 DEF PrecolourInv, Params
    <3>3. k = i
      BY <2>1, <2>2, <2>3, <3>2
    <3> QED BY <2>2, <2>3, <3>2, <3>3 DEF TypeOK
  <2>4. CASE t # Params[i]
    BY <2>2, <2>4 DEF TypeOK
  <2> QED BY <2>3, <2>4
<1>2. CASE SelectSimple \/ SelectSpill
  <2>1. PICK u \in Temps :
          /\ color[u] = 0
          /\ \/ \E c \in Colours : color' = [color EXCEPT ![u] = c]
             \/ color' = color
    BY <1>2, SelectStep
  <2>2. t # u
    BY <2>1, RegAssumption
  <2> QED BY <2>1, <2>2 DEF TypeOK
<1>3. CASE Rebuild
  BY <1>3 DEF Rebuild
<1>4. CASE ~(SelectSimple \/ SelectSpill) /\ ~LoadParam /\ ~Rebuild
  BY <1>4, OtherSteps
<1> QED BY <1>1, <1>2, <1>3, <1>4

\* No selection and no rebuild takes a parameter its register.
THEOREM ParametersKeepRegister == Spec => ParametersStay
<1>1. IInv /\ [Next]_vars
        => [\A t \in Temps : color[t] > MAX_REG => color'[t] = color[t]]_vars
  BY ParametersStayStep
<1> QED BY Invariance, <1>1, PTL DEF Spec, ParametersStay

-------------------------------------------------------------------------------
(***************************************************************************)
(* The allocator implements GraphColouring.                                *)
(***************************************************************************)

\* A node without a chosen register has none or that of a parameter.
LEMMA FreshColouring ==
    ASSUME TypeOK, \A t \in Temps : color[t] \notin Colours
    PROVE  Colouring!Fresh(color)
<1>1. \A t \in Temps : color[t] \in 0..(TOTAL_REG - 1)
  BY DEF TypeOK
<1>2. \A t \in Temps : color[t] \in (MAX_REG + 1)..(TOTAL_REG - 1) \cup {0}
  BY <1>1, RegAssumption DEF Colours, TOTAL_REG
<1> QED BY <1>2 DEF TypeOK, Colouring!Fresh, Colouring!NoColour

\* Steps that make the graph: connect_graph and remake_graph.
LEMMA GraphStep ==
    ASSUME IInv, IInv', [Next]_vars, pc' \in Building,
           Colouring!MayChangeGraph
    PROVE  Colouring!MayChangeGraph /\ Colouring!NewGraph
<1>1. adj' \in [Temps -> SUBSET Temps]
  BY DEF IInv, TypeOK
<1>2. \A t, u \in Temps : u \in adj'[t] => t \in adj'[u] /\ t # u
  BY DEF IInv, GraphInv
<1>3. Colouring!Fresh(color)'
  <2>1. TypeOK' /\ (\A t \in Temps : color[t] \notin Colours)'
    BY DEF IInv, NoneSelected
  <2> QED BY <2>1, FreshColouring, PTL
<1>4. Elems(actual_spill)' = {}
  BY NoElems DEF IInv, NoneSelected
<1> QED BY <1>1, <1>2, <1>3, <1>4 DEF Colouring!NewGraph, Colouring!Fresh

\* Every step is a step of GraphColouring or leaves its variables alone.
LEMMA RefinementStep ==
    ASSUME IInv, IInv', [Next]_vars
    PROVE  [Colouring!Next]_(Colouring!vars)
<1> USE DEF IInv
<1>1. CASE LoadParam \/ HandleOperation
  <2>1. pc' \in Building /\ pc \in Building
    BY <1>1 DEF LoadParam, HandleOperation, Building
  <2>2. Colouring!MayChangeGraph
    BY <2>1, FreshColouring DEF NoneSelected, Colouring!MayChangeGraph
  <2> QED BY <2>1, <2>2, GraphStep DEF Colouring!Next
<1>2. CASE Rebuild
  <2>1. pc' \in Building
    BY <1>2 DEF Rebuild, Building
  <2>2. actual_spill # <<>> /\ actual_spill \in Seq(Temps)
    BY <1>2 DEF Rebuild, PositionInv, TypeOK
  <2>3. Elems(actual_spill) # {}
    BY <2>2 DEF Elems
  <2> QED BY <2>1, <2>3, GraphStep DEF Colouring!Next, Colouring!MayChangeGraph
<1>3. CASE SelectSimple \/ SelectSpill
  <2>1. PICK t \in Temps :
             /\ color[t] = 0 /\ t \notin Elems(actual_spill)
             /\ adj' = adj
             /\ \/ /\ \E c \in Colours : color' = [color EXCEPT ![t] = c]
                   /\ actual_spill' = actual_spill
                \/ /\ color' = color
                   /\ Elems(actual_spill') = Elems(actual_spill) \cup {t}
    BY <1>3, SelectStep
  <2>2. Colouring!Undecided(t)
    BY <2>1 DEF Colouring!Undecided, Colouring!NoColour
  <2>3. CASE \E c \in Colours : color' = [color EXCEPT ![t] = c]
                                 /\ actual_spill' = actual_spill
    <3>1. PICK c \in Colours : color' = [color EXCEPT ![t] = c]
                                /\ actual_spill' = actual_spill
      BY <2>3
    <3>2. color'[t] = c /\ c # 0
      BY <3>1, RegAssumption DEF TypeOK, Colours
    <3>3. ASSUME NEW u \in adj[t] PROVE color[u] # c
      <4>1. u \in Temps /\ u # t
        BY DEF TypeOK, GraphInv
      <4>2. color'[u] = color[u]
        BY <3>1, <4>1 DEF TypeOK
      <4>3. color'[t] # 0 /\ color'[u] # 0 => color'[t] # color'[u]
        BY <2>1 DEF ProperColouring
      <4> QED BY <3>2, <4>2, <4>3
    <3>4. Colouring!Assign(t, c)
      BY <2>1, <2>2, <3>1, <3>3 DEF Colouring!Assign
    <3> QED BY <3>4 DEF Colouring!Next
  <2>4. CASE color' = color /\ Elems(actual_spill') = Elems(actual_spill) \cup {t}
    <3>1. t \in Elems(actual_spill)'
      BY <2>4
    <3>2. \A c \in Colours : \E u \in adj[t] : color[u] = c
      BY <2>1, <2>4, <3>1 DEF SpillJustified
    <3>3. Colouring!GiveUp(t)
      BY <2>1, <2>2, <2>4, <3>2 DEF Colouring!GiveUp
    <3> QED BY <3>3 DEF Colouring!Next
  <2> QED BY <2>1, <2>3, <2>4
<1>4. CASE ~(SelectSimple \/ SelectSpill) /\ ~LoadParam /\ ~Rebuild /\ ~HandleOperation
  <2>1. color' = color /\ actual_spill' = actual_spill
    BY <1>4, OtherSteps
  <2>2. adj' = adj
    BY <1>4 DEF Next, vars, graph, lists, NextFrame, Simplify, EndSimplify, SortNode,
                EndSort, EndSelectSimple, EndSelect, Finished
  <2> QED BY <2>1, <2>2 DEF Colouring!vars
<1> QED BY <1>1, <1>2, <1>3, <1>4

\* The allocator keeps the promise of GraphColouring, for every number of
\* registers and every program.
THEOREM Refinement == Spec => KeepsPromise
<1>1. Init => Colouring!Init
  BY NoElems DEF Init, Colouring!Init, Colouring!NoColour, EmptyGraph
<1>2. IInv /\ IInv' /\ [Next]_vars => [Colouring!Next]_(Colouring!vars)
  BY RefinementStep
<1> QED BY Invariance, <1>1, <1>2, PTL DEF Spec, KeepsPromise, Colouring!Spec
===============================================================================
