-------------------------- MODULE RegisterAllocation --------------------------
(***************************************************************************)
(* The graph-colouring register allocator of register_allocation.c: the    *)
(* interference graph is built from the out sets of the operations, the    *)
(* nodes are split into simple nodes and potential spills, the potential   *)
(* spills are sorted by degree, and colours are selected.  When a node     *)
(* stays uncoloured the program is rewritten and the round starts again on *)
(* a new graph.                                                            *)
(*                                                                         *)
(* The operations of the program are abstracted to their out sets, which   *)
(* may be any sets of temporaries of the frame the operation is in; the    *)
(* rewriting only adds temporaries.  A node's array of connections is the  *)
(* set conn[t] and its num_edges is the cardinality of that set.           *)
(***************************************************************************)
EXTENDS Integers, Sequences, FiniteSets

CONSTANTS
    MAX_REG,    \* number of colours the allocator hands out
    MaxNodes,   \* bound on the temporaries, spill code included
    Frames,     \* number of frames connect_graph visits, in order
    Programs    \* [temps, owner, params]: see ProgramAssumption

Temps  == 1..MaxNodes
\* The colours: 1..MAX_REG are R15..RBX, then RAX, then the parameter registers.
RDI       == MAX_REG + 2
\* Mutant: the register names grew, the constant did not.
MutantTOTAL_REG == MAX_REG + 3
TOTAL_REG == MAX_REG + 6
Colours   == 1..MAX_REG

(***************************************************************************)
(* A program has some temporaries to begin with, each belongs to a frame,  *)
(* and a frame's first operations declare its register parameters.         *)
(***************************************************************************)
IsProgram(p) ==
    /\ p.temps \in Temps
    /\ p.owner \in [Temps -> 1..Frames]
    /\ p.params \in [1..Frames -> Seq(Temps)]
    /\ \A f \in 1..Frames :
         /\ Len(p.params[f]) <= 4
         /\ \A k \in 1..Len(p.params[f]) :
              p.params[f][k] <= p.temps /\ p.owner[p.params[f][k]] = f
         /\ \A k, l \in 1..Len(p.params[f]) :
              p.params[f][k] = p.params[f][l] => k = l

ASSUME RegAssumption     == MAX_REG \in Nat \ {0}
ASSUME NodesAssumption   == MaxNodes \in Nat \ {0} /\ Frames \in Nat \ {0}
ASSUME ProgramAssumption == \A p \in Programs : IsProgram(p)

VARIABLES
    prog,             \* the program being compiled
    num_nodes,        \* graph->num_nodes
    adj,              \* graph->adj_matrix
    conn,             \* graph->nodes[t]->connections
    color,            \* graph->nodes[t]->color, 0 when uncoloured
    simple_nodes,
    potential_spill,
    actual_spill,
    frm,              \* the frame connect_graph is in
    i,                \* the loop index of the current pass
    pc                \* the pass of the allocator

graph == <<num_nodes, adj, conn, color>>
lists == <<simple_nodes, potential_spill, actual_spill>>
vars  == <<prog, graph, lists, frm, i, pc>>

Elems(s) == {s[k] : k \in 1..Len(s)}
Degree(t) == Cardinality(conn[t])
Owned(f)  == {t \in 1..num_nodes : prog.owner[t] = f}
Params    == prog.params[frm]

EmptyGraph == [t \in Temps |-> {}]

\* connect_nodes for a node and a set of others.
Connect(g, t, others) ==
    [u \in Temps |-> IF u = t THEN g[t] \cup others
                     ELSE IF u \in others THEN g[u] \cup {t} ELSE g[u]]

\* RA_disconnect_node
Disconnect(g, t) == [u \in Temps |-> IF u = t THEN {} ELSE g[u] \ {t}]

\* Mutant: adj_matrix is written in one direction only.
MutantInterfere(g, out) ==
    [u \in Temps |-> IF u \in out THEN g[u] \cup {v \in out : v > u} ELSE g[u]]

\* graph_handle_operation: every two temporaries of an out set interfere.
Interfere(g, out) ==
    [u \in Temps |-> IF u \in out THEN g[u] \cup (out \ {u}) ELSE g[u]]

-------------------------------------------------------------------------------
Init ==
    /\ prog \in Programs
    /\ num_nodes = prog.temps
    /\ adj = EmptyGraph
    /\ conn = EmptyGraph
    /\ color = [t \in Temps |-> 0]
    /\ simple_nodes = <<>> /\ potential_spill = <<>> /\ actual_spill = <<>>
    /\ frm = 1
    /\ i = 1
    /\ pc = "connect"

HandleOut(out) ==
    /\ out \subseteq Owned(frm)
    /\ adj'  = Interfere(adj, out)
    /\ conn' = Interfere(conn, out)

\* A parameter declaration at the head of a frame gets its parameter register.
LoadParam ==
    /\ pc = "connect"
    /\ i <= Len(Params)
    /\ \E out \in SUBSET Temps : HandleOut(out)
    /\ color' = [color EXCEPT ![Params[i]] = RDI + i - 1]
    /\ i' = i + 1
    /\ UNCHANGED <<prog, num_nodes, lists, frm, pc>>

HandleOperation ==
    /\ pc = "connect"
    /\ i > Len(Params)
    /\ \E out \in SUBSET Temps : HandleOut(out)
    /\ UNCHANGED <<prog, num_nodes, color, lists, frm, i, pc>>

NextFrame ==
    /\ pc = "connect"
    /\ i > Len(Params)
    /\ i' = 1
    /\ \/ frm < Frames /\ frm' = frm + 1 /\ pc' = pc
       \/ frm = Frames /\ frm' = frm /\ pc' = "simplify"
    /\ UNCHANGED <<prog, graph, lists>>

-------------------------------------------------------------------------------
(***************************************************************************)
(* RA_simplify: one step per node, in ascending order.                     *)
(***************************************************************************)
Simplify ==
    /\ pc = "simplify"
    /\ i <= num_nodes
    /\ \/ /\ color[i] # 0
          /\ UNCHANGED <<conn, lists>>
       \/ /\ color[i] = 0
          /\ Degree(i) < MAX_REG
          /\ conn' = Disconnect(conn, i)
          /\ simple_nodes' = Append(simple_nodes, i)
          /\ UNCHANGED <<potential_spill, actual_spill>>
       \/ /\ color[i] = 0
          /\ Degree(i) >= MAX_REG
          /\ potential_spill' = Append(potential_spill, i)
          /\ UNCHANGED <<conn, simple_nodes, actual_spill>>
    /\ i' = i + 1
    /\ UNCHANGED <<prog, num_nodes, adj, color, frm, pc>>

EndSimplify ==
    /\ pc = "simplify"
    /\ i > num_nodes
    /\ pc' = "sort"
    /\ i' = 2
    /\ UNCHANGED <<prog, graph, lists, frm>>

(***************************************************************************)
(* sort_nodes: an insertion sort by degree, one step per inserted node.    *)
(***************************************************************************)
InsertAt(s, p, k) ==  \* move the k-th element of s down to position p
    [l \in 1..Len(s) |-> IF l = p THEN s[k]
                         ELSE IF p < l /\ l <= k THEN s[l - 1] ELSE s[l]]

SortNode ==
    /\ pc = "sort"
    /\ i <= Len(potential_spill)
    /\ \E p \in 1..i :
         /\ \A l \in p..(i - 1) :
              Degree(potential_spill[l]) > Degree(potential_spill[i])
         /\ p > 1 => Degree(potential_spill[p - 1]) <= Degree(potential_spill[i])
         /\ potential_spill' = InsertAt(potential_spill, p, i)
    /\ i' = i + 1
    /\ UNCHANGED <<prog, graph, simple_nodes, actual_spill, frm, pc>>

\* Mutant: RA_select goes on with the index of the sort.
MutantEndSort ==
    /\ pc = "sort"
    /\ i > Len(potential_spill)
    /\ pc' = "select"
    /\ UNCHANGED <<prog, graph, lists, frm, i>>

EndSort ==
    /\ pc = "sort"
    /\ i > Len(potential_spill)
    /\ pc' = "select"
    /\ i' = 1
    /\ UNCHANGED <<prog, graph, lists, frm>>

-------------------------------------------------------------------------------
(***************************************************************************)
(* RA_select.  The simple nodes are visited in the order they were         *)
(* removed, looking only at neighbours of a lower number; then the         *)
(* potential spills, looking at every neighbour.                           *)
(***************************************************************************)
\* Mutant: the last colour is never tried.
MutantFree(nbrs) == {c \in 1..(MAX_REG - 1) : \A u \in nbrs : color[u] # c}

Free(nbrs) == {c \in Colours : \A u \in nbrs : color[u] # c}

Select(t, nbrs) ==
    /\ conn' = Connect(conn, t, nbrs)
    /\ \/ \E c \in Free(nbrs) :
            /\ \A d \in Free(nbrs) : c <= d
            /\ color' = [color EXCEPT ![t] = c]
            /\ UNCHANGED actual_spill
       \/ /\ Free(nbrs) = {}
          /\ actual_spill' = Append(actual_spill, t)
          /\ UNCHANGED color
    /\ i' = i + 1
    /\ UNCHANGED <<prog, num_nodes, adj, simple_nodes, potential_spill, frm, pc>>

\* Mutant: RA_select looks at the connections RA_simplify has left.
MutantLowerNeighbours(t) == {u \in conn[t] : u <= t}

LowerNeighbours(t) == {u \in adj[t] : u <= t}

SelectSimple ==
    /\ pc = "select"
    /\ i <= Len(simple_nodes)
    /\ Select(simple_nodes[i], LowerNeighbours(simple_nodes[i]))

EndSelectSimple ==
    /\ pc = "select"
    /\ i > Len(simple_nodes)
    /\ pc' = "select_spill"
    /\ i' = 1
    /\ UNCHANGED <<prog, graph, lists, frm>>

SelectSpill ==
    /\ pc = "select_spill"
    /\ i <= Len(potential_spill)
    /\ Select(potential_spill[i], adj[potential_spill[i]])

EndSelect ==
    /\ pc = "select_spill"
    /\ i > Len(potential_spill)
    /\ pc' = IF actual_spill = <<>> THEN "done" ELSE "rewrite"
    /\ UNCHANGED <<prog, graph, lists, frm, i>>

-------------------------------------------------------------------------------
(***************************************************************************)
(* The loop of register_allocation: rewrite_program introduces             *)
(* temporaries, remake_graph keeps the precoloured nodes' colours only.    *)
(***************************************************************************)
\* Mutant: remake_graph forgets the precoloured nodes.
MutantRebuild ==
    /\ pc = "rewrite"
    /\ num_nodes' \in num_nodes..MaxNodes
    /\ adj' = EmptyGraph
    /\ conn' = EmptyGraph
    /\ color' = [t \in Temps |-> 0]
    /\ simple_nodes' = <<>> /\ potential_spill' = <<>> /\ actual_spill' = <<>>
    /\ frm' = 1
    /\ i' = 1
    /\ pc' = "connect"
    /\ UNCHANGED prog

Rebuild ==
    /\ pc = "rewrite"
    /\ num_nodes' \in num_nodes..MaxNodes
    /\ adj' = EmptyGraph
    /\ conn' = EmptyGraph
    /\ color' = [t \in Temps |-> IF color[t] > MAX_REG THEN color[t] ELSE 0]
    /\ simple_nodes' = <<>> /\ potential_spill' = <<>> /\ actual_spill' = <<>>
    /\ frm' = 1
    /\ i' = 1
    /\ pc' = "connect"
    /\ UNCHANGED prog

Finished == pc = "done" /\ UNCHANGED vars

Next ==
    \/ LoadParam \/ HandleOperation \/ NextFrame
    \/ Simplify \/ EndSimplify
    \/ SortNode \/ EndSort
    \/ SelectSimple \/ EndSelectSimple \/ SelectSpill \/ EndSelect
    \/ Rebuild \/ Finished

Spec == Init /\ [][Next]_vars

-------------------------------------------------------------------------------
(* Properties *)

\* Every variable stays in range; in particular a colour never exceeds the
\* bounds of the array colors[TOTAL_REG] that RA_select indexes with it.
TypeOK ==
    /\ prog \in Programs
    /\ num_nodes \in prog.temps..MaxNodes
    /\ adj \in [Temps -> SUBSET Temps]
    /\ conn \in [Temps -> SUBSET Temps]
    /\ color \in [Temps -> 0..(TOTAL_REG - 1)]
    /\ simple_nodes \in Seq(Temps)
    /\ potential_spill \in Seq(Temps)
    /\ actual_spill \in Seq(Temps)
    /\ frm \in 1..Frames
    /\ i \in Nat \ {0}
    /\ pc \in {"connect", "simplify", "sort", "select", "select_spill",
               "rewrite", "done"}

\* Temporaries that are alive at the same time never share a register, at any
\* moment of the selection: RA_select looks at part of the neighbours of a
\* simple node only (line 243), and parameters are coloured outside of it.
ProperColouring ==
    \A t \in Temps : \A u \in adj[t] :
        color[t] # 0 /\ color[u] # 0 => color[t] # color[u]

\* A node is spilled only when its neighbours hold every register, and that
\* stays true until the round ends: no later selection frees a register.
SpillJustified ==
    \A t \in Elems(actual_spill) :
        /\ color[t] = 0
        /\ \A c \in Colours : \E u \in adj[t] : color[u] = c

\* When the allocator returns, every temporary has a register: none is lost
\* between RA_simplify's two lists, the sort and the two loops of RA_select
\* (code generation would index its register names with colour 0).
AllColoured ==
    pc = "done" => \A t \in 1..num_nodes : color[t] # 0

\* Parameters keep the register the calling convention puts them in, through
\* every round: no selection and no rebuild takes it away.
ParametersStay ==
    [][\A t \in Temps : color[t] > MAX_REG => color'[t] = color[t]]_vars

\* The allocator keeps the promise of GraphColouring.
Colouring == INSTANCE GraphColouring WITH
    Precolours <- (MAX_REG + 1)..(TOTAL_REG - 1),
    given_up <- Elems(actual_spill)
KeepsPromise == Colouring!Spec
===============================================================================
