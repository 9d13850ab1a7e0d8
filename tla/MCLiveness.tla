----------------------------- MODULE MCLiveness -----------------------------
(***************************************************************************)
(* Small functions over two variables.  In WellShaped a block begins and   *)
(* ends with a simple statement and an if has an else; in LoopLast a loop  *)
(* ends a branch, in SkippedBranch an if has no else.                      *)
(***************************************************************************)
EXTENDS IRGen, Liveness

\* x and y are variables, the others the temporaries of expressions.
Var(v) == [k |-> "var", t |-> v]
Less   == [k |-> "arith", t |-> "t1", use |-> {"x", "y"}]
Both   == [k |-> "logical", t |-> "t2", l |-> Var("x"),
           r |-> [k |-> "arith", t |-> "t3", use |-> {"y"}]]
Three  == [k |-> "logical", t |-> "t4", l |-> Both, r |-> Var("y")]

Copy   == [k |-> "assign", x |-> "x", e |-> Var("y")]
Set    == [k |-> "assign", x |-> "y",
           e |-> [k |-> "arith", t |-> "t5", use |-> {}]]
Show   == [k |-> "print", e |-> Var("x")]
Ret    == [k |-> "return", use |-> {}]

Simple     == {Copy, Set, Show}
Conditions == {Var("y"), Less, Both, Three}

Either(c, a, b) == [k |-> "if", cond |-> c, then |-> a, else |-> b]
Only(c, a)    == [k |-> "if", cond |-> c, then |-> a]
Loop(c, a)      == [k |-> "while", cond |-> c, body |-> a]

Flat ==
    {Either(c, <<a>>, <<b>>) : c \in Conditions, a \in Simple, b \in Simple}
    \cup {Loop(c, <<a>>) : c \in Conditions, a \in Simple}
    \cup {Either(Var("x"), <<a, Loop(Less, <<b>>), Show>>, <<Set>>) :
            a \in Simple, b \in Simple}
    \cup {Loop(Var("x"), <<a, Either(c, <<b>>, <<Copy>>), Set>>) :
            a \in Simple, b \in Simple, c \in {Less, Both}}
    \cup {Loop(Less, <<a, Loop(Both, <<b>>), c>>) :
            a \in Simple, b \in Simple, c \in Simple}

WellShaped ==
    {Function(<<a, s, b, Ret>>) : a \in Simple, s \in Flat, b \in Simple}
    \cup {Function(<<a, Loop(Less, <<b>>), Loop(Both, <<c>>), Show, Ret>>) :
            a \in Simple, b \in Simple, c \in Simple}

\* y is read after the if, and assigned in the branch that may be skipped.
SkippedBranch == {Function(<<Set, Only(Var("x"), <<Set>>), Copy, Show, Ret>>)}

\* A loop is the last statement of a branch, in a function or in a loop.
LoopLast ==
    LET branch(c, a, b) == Only(c, <<a, Loop(Less, <<b>>)>>)
    IN  {Function(<<a, branch(c, a, b), b, Ret>>) :
            a \in Simple, b \in Simple, c \in Conditions}
        \cup {Function(<<Set, Loop(Less, <<a, branch(Var("x"), b, Copy), Show>>), a, Ret>>) :
            a \in Simple, b \in Simple}

Analysed == WellShaped \cup LoopLast
===============================================================================
