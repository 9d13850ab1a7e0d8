--------------------------- MODULE MCConstantFolding ---------------------------
(***************************************************************************)
(* Programs with one expression in every place the grammar has for one:    *)
(* any operator between any operands, and operators nested on either side; *)
(* arrays and rows wherever a scalar is expected, and the other way round. *)
(* 4 is an integer whose low two bits are 0, as 65536 is with 16 bits.     *)
(***************************************************************************)
EXTENDS ConstantFolding

Num(v) == Literal("INT", v)
True   == Literal("BOOL", 1)
False  == Literal("BOOL", 0)
Id(x)  == Identifier(x)

Ops    == {"AND", "OR", "LESS", "GREATER_EQ", "EQUALS", "NEQUALS", "ADD", "SUB", "MULT", "DIV"}
Leaves == {Num(0), Num(1), Num(3), Num(4), True, Literal("CHAR", 1), Id("x"), Id("b"), Id("c")}
Few    == {Num(0), Num(1), Id("x"), Id("b"), True}
Sum    == Binary("ADD", Num(1), Num(1))
Pairs(ops, ls, rs) == {Binary(op, l, r) : op \in ops, l \in ls, r \in rs}

FewPairs == Pairs({"AND", "OR", "EQUALS", "SUB", "DIV"}, Few, Few)
Inner    == Pairs({"OR", "SUB", "EQUALS"}, Few \ {True}, Few \ {True})
Nested   == Pairs({"AND", "OR", "EQUALS", "ADD", "DIV"}, FewPairs, Few)
            \cup Pairs({"AND", "OR", "EQUALS", "SUB"}, Few, FewPairs)
            \cup Pairs({"AND", "OR", "EQUALS", "ADD"}, Inner, Inner)
            \cup Pairs({"AND", "OR"}, {Binary("ADD", Num(3), Num(1))}, Few)

Calls   == {Call("f", <<e>>) : e \in {Num(1), True, Id("x"), Sum}}
           \cup {Call("g", <<Id(x)>>) : x \in {"a", "m"}}
Indices == {Index("a", <<e>>) : e \in {Num(1), Id("b"), Id("x"), Sum}}
           \cup {Index("m", <<Num(0), e>>) : e \in {Sum, True}}
Unaries == {Unary("NEG", Id("b")), Unary("MINUS", Id("b")), Unary("MINUS", Num(1))}
Pool    == Leaves \cup Pairs(Ops, Leaves, Leaves) \cup Calls \cup Indices \cup Unaries
Small   == {Num(1), True, Id("x"), Id("p"), Sum, Binary("OR", Id("b"), Sum),
            Binary("ADD", Id("x"), Call("f", <<Sum>>))}
Assigns == {Assign(to, e) : to \in {Id("x"), Id("b"), Index("a", <<Num(1)>>)}, e \in Small \ {Id("p")}}
           \cup {Assign(Id("a"), Id("a")), Assign(Id("a"), Id("m")), Assign(Id("a"), Num(1)),
                 Assign(Index("a", <<Num(0)>>), Id("a"))}

Row(i)  == Index("m", <<i>>)
Arrays  == {Id("a"), Id("m"), Row(Num(0)), Index("a", <<Num(0), Num(0)>>), Index("x", <<Num(0)>>)}
Misused == Arrays
           \cup {Binary(op, l, r) : op \in {"ADD", "EQUALS", "LESS", "OR"},
                                    l \in {Num(1), Id("a")}, r \in {Id("a"), Row(Num(0))}}
           \cup {Unary("MINUS", Id("a"))}
           \cup {Index("a", <<e>>) : e \in Arrays}
           \cup {Call(f, <<e>>) : f \in {"f", "g"}, e \in Arrays \cup {Id("x")}}
           \cup {Assign(to, e) : to \in {Id("x"), Row(Num(0)), Index("a", <<Num(1)>>)},
                                 e \in Arrays \cup {Num(1)}}
           \cup {Assign(Id(to), e) : to \in {"a", "m"}, e \in Arrays \cup {Id("x")}}
           \cup {Assign(Index("a", <<e>>), Num(1)) : e \in {True, Id("b"), Id("a"), Sum}}

Var(t, x, e)  == [kind |-> "VAR_DECL", name |-> x, type |-> t, e |-> e]
Arr(x, sizes, values) ==
    [kind |-> "ARRAY_DECL", name |-> x, type |-> "INT", sizes |-> sizes, values |-> values]
Fun(t, f, ps) == [kind |-> "FUNC_DEF", name |-> f, type |-> t, params |-> ps]
Par(t, p, n)  == [name |-> p, type |-> t, dimensions |-> n]
End           == [kind |-> "END"]
Stmt(k, e)    == [kind |-> k, e |-> e]

Globals == << Var("INT", "x", <<Num(1)>>), Var("BOOL", "b", <<>>),
              Var("CHAR", "c", <<Literal("CHAR", 1)>>),
              Arr("a", <<Num(3)>>, <<Num(0), Num(1), Num(3)>>), Arr("m", <<Num(1), Num(3)>>, <<>>) >>
Bodies(r, e) == << Fun("INT", "f", <<Par("INT", "p", 0)>>),
                   Fun("BOOL", "g", <<Par("INT", "q", 1)>>), Stmt("RETURN", r), End,
                   Stmt("RETURN", e), End >>
Places(e) == {Var("INT", "y", <<e>>), Var("BOOL", "y", <<e>>), Stmt("IF", <<e>>),
              Stmt("PRINT", <<e>>), Stmt("EXPR", <<e>>), Arr("y", <<e>>, <<e>>)}

MCPrograms ==
    {Globals \o Bodies(<<True>>, <<e>>) \o <<Stmt("PRINT", <<Num(1)>>)>> : e \in Small}
    \cup {Globals \o Bodies(<<e>>, <<Num(1)>>) : e \in Small}
    \cup {<<Fun("INT", "f", <<Par("INT", "p", 0), Par("INT", "q", 0)>>),
            Fun("BOOL", "g", <<>>), Stmt("RETURN", <<True>>), End,
            Stmt("RETURN", <<Num(1)>>), End, Stmt("PRINT", <<Call("f", <<Num(1), True>>)>>)>>}
    \cup {Globals \o Bodies(<<>>, <<Num(1)>>), Globals \o <<Fun("VOID", "f", <<>>), Stmt("RETURN", <<>>), End>>}
    \cup {Globals \o Bodies(<<True>>, <<Num(1)>>) \o <<s>> :
            s \in {Stmt("EXPR", <<e>>) : e \in Assigns} \cup UNION {Places(e) : e \in Calls}}
    \cup {SubSeq(Globals, 1, 5) \o <<s>> : s \in UNION {Places(e) : e \in Indices}}
    \cup {Globals \o Bodies(<<True>>, <<Num(1)>>) \o <<s>> : s \in UNION {Places(e) : e \in Misused}}
    \cup {Globals \o Bodies(<<Binary("EQUALS", Id("q"), Num(1))>>, <<e>>) : e \in Arrays}
    \cup {Globals \o Bodies(<<Call(f, <<Id("q")>>)>>, <<Num(1)>>) : f \in {"f", "g"}}
    \cup {SubSeq(Globals, 1, 3) \o <<s>> :
            s \in UNION {Places(e) : e \in Pool \ (Calls \cup Indices)}}
    \cup {SubSeq(Globals, 1, 2) \o <<Stmt("WHILE", <<e>>)>> : e \in Nested}

MCEnvironments ==
    {[x |-> Value(INT, i), p |-> Value(INT, i), b |-> Truth(j), c |-> Value(CHAR, 1),
      a |-> Value(<<"INT", 1>>, 3 - i), m |-> Value(<<"INT", 2>>, 1), q |-> Value(<<"INT", 1>>, i),
      y |-> Value(INT, 0), f |-> Value(INT, 3 - i), g |-> Truth(j)] : i \in {0, 1, 3}, j \in BOOLEAN}
===============================================================================
