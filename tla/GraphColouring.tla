---------------------------- MODULE GraphColouring ----------------------------
(***************************************************************************)
(* What a register allocator promises: while the interference graph is     *)
(* being made no node has a register; then, one at a time, a node without  *)
(* a register gets one no neighbour has, or is given up because its        *)
(* neighbours hold every register, and neither decision is taken back      *)
(* until the next graph.                                                   *)
(***************************************************************************)
EXTENDS Integers

CONSTANTS Temps, Colours, Precolours

VARIABLES adj, color, given_up

vars == <<adj, color, given_up>>

NoColour == 0

Fresh(col) == col \in [Temps -> Precolours \cup {NoColour}]

Undecided(t) == color[t] = NoColour /\ t \notin given_up

Init ==
    /\ adj = [t \in Temps |-> {}]
    /\ color = [t \in Temps |-> NoColour]
    /\ given_up = {}

\* A graph in the making, or a new one for a rewritten program.
NewGraph ==
    /\ adj' \in [Temps -> SUBSET Temps]
    /\ \A t, u \in Temps : u \in adj'[t] => t \in adj'[u] /\ t # u
    /\ Fresh(color')
    /\ given_up' = {}

Assign(t, c) ==
    /\ Undecided(t)
    /\ \A u \in adj[t] : color[u] # c
    /\ color' = [color EXCEPT ![t] = c]
    /\ UNCHANGED <<adj, given_up>>

GiveUp(t) ==
    /\ Undecided(t)
    /\ \A c \in Colours : \E u \in adj[t] : color[u] = c
    /\ given_up' = given_up \cup {t}
    /\ UNCHANGED <<adj, color>>

\* The graph only grows while it is being made; it is replaced after a give-up.
MayChangeGraph == Fresh(color) \/ given_up # {}

Next ==
    \/ MayChangeGraph /\ NewGraph
    \/ \E t \in Temps, c \in Colours : Assign(t, c)
    \/ \E t \in Temps : GiveUp(t)

Spec == Init /\ [][Next]_vars
===============================================================================
