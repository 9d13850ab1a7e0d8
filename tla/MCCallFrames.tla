------------------------------ MODULE MCCallFrames ------------------------------
(***************************************************************************)
(* A module whose main declares f and five, and f declares g.  f and g     *)
(* call each other and f calls itself, so that a function is active more   *)
(* than once while its inner function runs.                                *)
(***************************************************************************)
EXTENDS CallFrames

Names == {"module", "main", "f", "g", "five"}
MCOuter == [main |-> "module", f |-> "main", five |-> "main", g |-> "f"]
MCDepth == [module |-> 1, main |-> 2, f |-> 3, five |-> 3, g |-> 4]
MCEnclosing ==
    [module |-> {"module"}, main |-> {"main", "module"},
     f |-> {"f", "main", "module"}, five |-> {"five", "main", "module"},
     g |-> {"g", "f", "main", "module"}]

Op(code, c)     == [op |-> code, color |-> c, var |-> <<>>]
DeclareVar(v)   == [op |-> "VAR_DECL", color |-> 0, var |-> <<"var", v>>]
DeclareParam(k) == [op |-> "VAR_DECL", color |-> MAX_REG + 1 + k, var |-> <<"param", k>>]
Segment(ops, left, right) == [ops |-> ops, left |-> left, right |-> right]

MCBody == [module |-> 1, main |-> 2, f |-> 3, g |-> 7, five |-> 8]
MCSegments ==
    << Segment(<<Op("ASSIGN", 1), DeclareVar(1)>>, 0, 0),
       Segment(<<Op("ASSIGN", 1), Op("CALL", 2), Op("RET", 0)>>, 0, 0),
       \* f: a variable before a branch, one in its else, where register 2 is used
       Segment(<<DeclareParam(1), DeclareParam(2), Op("ASSIGN", 1),
                 DeclareVar(1), Op("IF", 1)>>, 4, 5),
       Segment(<<Op("ASSIGN", 1), Op("GOTO", 0)>>, 0, 0),
       Segment(<<Op("CALL", 2), DeclareVar(2)>>, 6, 0),
       Segment(<<Op("RET", 0)>>, 0, 0),
       Segment(<<Op("ASSIGN", 1), Op("CALL", 2), Op("RET", 0)>>, 0, 0),
       Segment(<<Op("ASSIGN", 1), Op("RET", 0)>>, 0, 0) >>

MCParams == [module |-> 0, main |-> 0, f |-> 2, g |-> 0, five |-> 5]
MCCalls  ==
    [module |-> {"main"}, main |-> {"f", "five"}, f |-> {"f", "g"},
     g |-> {"f"}, five |-> {}]
MCLive   == [module |-> {}, main |-> {2}, f |-> {2}, g |-> {2}, five |-> {}]
\* Every value computed before a call is used after it.
MCAllLive == [f \in Names |-> Written[f]]
MCCaptures ==
    [module |-> {}, main |-> {<<"module", "var", 1>>},
     f |-> {<<"f", "var", 1>>, <<"module", "var", 1>>},
     g |-> {<<"f", "var", 2>>, <<"f", "param", 1>>, <<"f", "param", 2>>,
            <<"module", "var", 1>>},
     five |-> {}]

\* f prints strings it has in either register, one of them live over calls.
MCStrings == [g \in Names |-> IF g = "f" THEN {1, 2} ELSE {}]

\* The program is one the theorems are about, and with the registers of
\* MCLive its calls keep what is used after them.
ASSUME ProgramIsBalanced == Balanced /\ Passed /\ EscapeInOrder
MCKeeps == [f \in Names |-> IF f = "module" THEN {} ELSE {2}]
ASSUME CallsKeep == Live = MCLive => Keeps(MCKeeps)
===============================================================================
