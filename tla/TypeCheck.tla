------------------------------- MODULE TypeCheck -------------------------------
(***************************************************************************)
(* The type checker of type_checking.c.  The tree is the sequence of its   *)
(* nodes in the order recurse_type visits them, a function between its     *)
(* FUNC_DEF and its END; blocks change only the table that names are       *)
(* looked up in, and names are resolved here.  What the scope checker left *)
(* in the var_info of a name is read from the tree; the type in it is      *)
(* state, set when the walk reaches the declaration.                       *)
(***************************************************************************)
EXTENDS Expressions, FiniteSets

CONSTANTS
    MAX_PARAMETERS,
    Programs,       \* the trees the scope checker accepts
    Environments    \* what the names of such a program may stand for at run time

ASSUME ParametersAssumption == MAX_PARAMETERS \in Nat

VARIABLES
    tree,
    at,                   \* the node the walk is at
    type,                 \* the types in the var_infos; NULL where still 0
    current_return_type,
    old_return_type,      \* that local of the calls of recurse_type for functions
    reported,             \* type_errors is not empty
    phase                 \* which pass of frontend.c runs: "types", "folding",
                          \* "done", "refused", "overflow" of the stack, or
                          \* "dangling" when a freed node stays in the tree

checking == <<at, type, current_return_type, old_return_type, reported>>

Declarations(t) == {i \in DOMAIN t : t[i].kind \in {"FUNC_DEF", "VAR_DECL", "ARRAY_DECL"}}
Parameters(t) == UNION {{t[i].params[k] : k \in DOMAIN t[i].params} :
                          i \in {j \in DOMAIN t : t[j].kind = "FUNC_DEF"}}
Declaration(x)  == tree[CHOOSE i \in Declarations(tree) : tree[i].name = x]
\* The dimensions of an array, ID_ARRAY in its var_info; 0 for all other names.
Dimensions(x) ==
    IF \E i \in DOMAIN tree : tree[i].kind = "ARRAY_DECL" /\ tree[i].name = x
      THEN Len(Declaration(x).sizes) ELSE 0
Names(t) == {t[i].name : i \in Declarations(t)} \cup {p.name : p \in Parameters(t)}

Init ==
    /\ tree \in Programs
    /\ at = 1
    /\ type = [x \in Names(tree) |-> "VOID"]
    /\ current_return_type = "VOID" /\ old_return_type = <<>>
    /\ reported = FALSE
    /\ phase = "types"

\* The dimensions of the array an expression names.
Extent(e) == IF IsIdentifier(e) THEN Dimensions(e.name) ELSE 0

(***************************************************************************)
(* Expressions: the type recurse_type returns and whether it reports       *)
(* nothing.                                                                *)
(***************************************************************************)
Typed(t, ok) == [type |-> t, ok |-> ok]

logical_ok(l, r) == {l, r} \subseteq {"INT", "BOOL"}
relational_ok(op, l, r) ==
    l = r /\ l \in IF op \in {"EQUALS", "NEQUALS"} THEN {"BOOL", "INT", "CHAR"} ELSE {"INT"}
arithmetic_ok(l, r) == l = "INT" /\ r = "INT"

\* A_LOGICAL_EXPR, A_RELATIONAL_EXPR and A_ARITHMETIC_EXPR.
binary_type(e, l, r) ==
    Typed(IF e.kind = "ARITHMETIC" THEN "INT" ELSE "BOOL",
          /\ l.ok /\ r.ok
          /\ CASE e.kind = "LOGICAL" -> logical_ok(l.type, r.type)
               [] e.kind = "RELATIONAL" -> relational_ok(e.op, l.type, r.type)
               [] OTHER -> arithmetic_ok(l.type, r.type))

\* A_CALL_EXPR: the loop over the arguments ends at the first report.
call_type(e, got) ==
    LET params == Declaration(e.name).params
    IN  Typed(Declaration(e.name).type,
              \A k \in DOMAIN got :
                /\ got[k].ok /\ got[k].type = params[k].type
                /\ Extent(e.args[k]) # 0 => Extent(e.args[k]) = params[k].dimensions)

\* A_ASSIGN_EXPR: an array takes an array of as many dimensions, its elements
\* take anything but an array.
assign_type(e, r) ==
    LET x == e.to.name
    IN  Typed(type[x],
              /\ r.ok /\ type[x] = r.type
              /\ Dimensions(x) # 0 =>
                   IF e.to.kind = "INDEX" THEN Extent(e.e) = 0
                   ELSE IsIdentifier(e.e) /\ Extent(e.e) \in {0, Dimensions(x)})

RECURSIVE recurse_type(_)
recurse_type(e) ==
    LET all(es) == [k \in DOMAIN es |-> recurse_type(es[k])]
    IN  CASE IsLiteral(e)      -> Typed(e.type, TRUE)
          [] IsIdentifier(e)   -> Typed(type[e.name], TRUE)
          [] e.kind \in binary -> binary_type(e, recurse_type(e.left), recurse_type(e.right))
          [] e.kind = "UNARY"  ->
               LET r == recurse_type(e.e)
               IN  Typed("VOID", r.ok /\ r.type = (IF e.op = "NEG" THEN "BOOL" ELSE "INT"))
          [] e.kind = "INDEX"  ->
               LET got == all(e.indices)
               IN  Typed(type[e.name], \A k \in DOMAIN got : got[k].ok /\ got[k].type = "INT")
          [] e.kind = "CALL"   -> call_type(e, all(e.args))
          [] e.kind = "ASSIGN" -> assign_type(e, recurse_type(e.e))

(***************************************************************************)
(* Declarations and statements.                                            *)
(***************************************************************************)
Node == tree[at]
Here(kinds) == phase = "types" /\ at \in DOMAIN tree /\ Node.kind \in kinds
Report(ok)  == reported' = (reported \/ ~ok) /\ at' = at + 1

\* The type of an expression that may be missing.
TypeOf(es) == IF es = <<>> THEN Typed("VOID", TRUE) ELSE recurse_type(es[1])

FuncDef ==
    /\ Here({"FUNC_DEF"}) /\ Len(Node.params) <= MAX_PARAMETERS
    /\ type' = [x \in DOMAIN type |->
                  IF x = Node.name THEN Node.type
                  ELSE IF \E k \in DOMAIN Node.params : Node.params[k].name = x
                    THEN Node.params[CHOOSE k \in DOMAIN Node.params :
                                       Node.params[k].name = x].type
                    ELSE type[x]]
    /\ old_return_type' = Append(old_return_type, current_return_type)
    /\ current_return_type' = Node.type
    /\ Report(TRUE)
    /\ UNCHANGED <<tree, phase>>

\* The END of the function whose FUNC_DEF is node i.
EndOf(i) ==
    LET count(kind, j) == Cardinality({k \in i..j : tree[k].kind = kind})
    IN  CHOOSE j \in i..Len(tree) :
          /\ count("FUNC_DEF", j) = count("END", j)
          /\ \A k \in i..(j - 1) : count("FUNC_DEF", k) # count("END", k)

\* A function with too many parameters is reported and not looked into: its
\* name, its parameters and what it declares get no type.
RefuseFunction ==
    /\ Here({"FUNC_DEF"}) /\ Len(Node.params) > MAX_PARAMETERS
    /\ reported' = TRUE /\ at' = EndOf(at) + 1
    /\ UNCHANGED <<tree, type, current_return_type, old_return_type, phase>>

Last(s) == s[Len(s)]
\* Mutant: the return type of the outer function is not put back.
MutantRestored == current_return_type
Restored == Last(old_return_type)

EndFunction ==
    /\ Here({"END"})
    /\ current_return_type' = Restored
    /\ old_return_type' = SubSeq(old_return_type, 1, Len(old_return_type) - 1)
    /\ Report(TRUE)
    /\ UNCHANGED <<tree, type, phase>>

VarDecl ==
    /\ Here({"VAR_DECL"})
    /\ LET r == TypeOf(Node.e)
       IN  Report(Node.e # <<>> => r.ok /\ r.type = Node.type)
    /\ type' = [type EXCEPT ![Node.name] = Node.type]
    /\ UNCHANGED <<tree, current_return_type, old_return_type, phase>>

\* The values, of all rows, are typed once the array has its type.
ArrayDecl ==
    /\ Here({"ARRAY_DECL"})
    /\ type' = [type EXCEPT ![Node.name] = Node.type]
    /\ LET sizes  == [k \in DOMAIN Node.sizes |-> recurse_type(Node.sizes[k])]
           values == [k \in DOMAIN Node.values |-> recurse_type(Node.values[k])]
       IN  Report(/\ \A k \in DOMAIN sizes : sizes[k].ok /\ sizes[k].type = "INT"
                  /\ Node.type # "VOID"
                  /\ \A k \in DOMAIN values : values[k].ok /\ values[k].type = Node.type)
    /\ UNCHANGED <<tree, current_return_type, old_return_type, phase>>

\* The condition of an if or a while; the branches are nodes of their own.
Condition ==
    /\ Here({"IF", "WHILE"})
    /\ LET r == TypeOf(Node.e) IN Report(r.ok /\ r.type \in {"BOOL", "INT"})
    /\ UNCHANGED <<tree, type, current_return_type, old_return_type, phase>>

PrintStatement ==
    /\ Here({"PRINT"})
    /\ LET r == TypeOf(Node.e) IN Report(r.ok /\ r.type # "VOID")
    /\ UNCHANGED <<tree, type, current_return_type, old_return_type, phase>>

ReturnStatement ==
    /\ Here({"RETURN"})
    /\ LET r == TypeOf(Node.e) IN Report(r.ok /\ r.type = current_return_type)
    /\ UNCHANGED <<tree, type, current_return_type, old_return_type, phase>>

\* An expression that is a statement.
Expression ==
    /\ Here({"EXPR"})
    /\ Report(TypeOf(Node.e).ok)
    /\ UNCHANGED <<tree, type, current_return_type, old_return_type, phase>>

\* frontend.c goes on to the folding only if no error was reported.
EndTypes ==
    /\ phase = "types" /\ at > Len(tree)
    /\ phase' = IF reported THEN "refused" ELSE "folding"
    /\ at' = 1
    /\ UNCHANGED <<tree, type, current_return_type, old_return_type, reported>>

CheckTypes ==
    \/ FuncDef \/ RefuseFunction \/ EndFunction \/ VarDecl \/ ArrayDecl \/ Condition
    \/ PrintStatement \/ ReturnStatement \/ Expression \/ EndTypes

(***************************************************************************)
(* What an accepted program does when it runs.                             *)
(***************************************************************************)

\* The function around node i.
Around(i) ==
    LET opened(j) == Cardinality({k \in j..(i - 1) : tree[k].kind = "FUNC_DEF"})
                     > Cardinality({k \in j..(i - 1) : tree[k].kind = "END"})
    IN  tree[CHOOSE j \in 1..(i - 1) : opened(j) /\ \A k \in (j + 1)..(i - 1) : ~opened(k)]

ParameterTypes ==
    [f \in {tree[i].name : i \in {j \in Declarations(tree) : tree[j].kind = "FUNC_DEF"}} |->
       [k \in DOMAIN Declaration(f).params |->
          <<Declaration(f).params[k].type, Declaration(f).params[k].dimensions>>]]

RunsTo(e, env) == Run(e, env, ParameterTypes).type

\* The values node i may be run with: those its statement can use.
Usable(i, t) ==
    CASE tree[i].kind = "VAR_DECL"        -> t = <<tree[i].type, 0>>
      [] tree[i].kind \in {"IF", "WHILE"} -> t \in {INT, BOOL}
      [] tree[i].kind = "PRINT"           -> t \notin {VOID, Stuck.type} /\ t[2] = 0
      [] tree[i].kind = "RETURN"          -> t = <<Around(i).type, 0>>
      [] tree[i].kind = "EXPR"            -> t # Stuck.type

RunsWell(i, env) ==
    CASE tree[i].kind \in {"FUNC_DEF", "END"} -> TRUE
      [] tree[i].kind = "ARRAY_DECL" ->
           /\ \A k \in DOMAIN tree[i].sizes :
                RunsTo(tree[i].sizes[k], env) \in {INT, Trap.type}
           /\ \A k \in DOMAIN tree[i].values :
                RunsTo(tree[i].values[k], env) \in {<<tree[i].type, 0>>, Trap.type}
      [] tree[i].e = <<>> -> tree[i].kind = "RETURN" => Around(i).type = "VOID"
      [] OTHER -> LET t == RunsTo(tree[i].e[1], env) IN t = Trap.type \/ Usable(i, t)

(***************************************************************************)
(* What recurse_type overlooks.  It compares element types only: the type  *)
(* of a name, or of an index expression, says nothing of dimensions, which *)
(* are looked at for arguments and assignments that name arrays.  And it   *)
(* never visits the indices of the target of an assignment.                *)
(***************************************************************************)
Rank(e) ==
    LET declared(x) == IF \E p \in Parameters(tree) : p.name = x
                         THEN (CHOOSE p \in Parameters(tree) : p.name = x).dimensions
                         ELSE Dimensions(x)
        rank(f) == CASE IsIdentifier(f)    -> declared(f.name)
                     [] f.kind = "INDEX"   -> declared(f.name) - Len(f.indices)
                     [] OTHER              -> 0
    IN  rank(IF e.kind = "ASSIGN" THEN e.to ELSE e)

\* An assignment whose sides' dimensions recurse_type compares.
RanksCompared(e) ==
    /\ Dimensions(e.to.name) # 0
    /\ Extent(e.e) # 0 \/ (IsIdentifier(e.to) /\ ~IsIdentifier(e.e))

RECURSIVE Overlooks(_)
Overlooks(e) ==
    LET scalar(f) == ~Overlooks(f) /\ Rank(f) = 0
        an_index(f) == scalar(f) /\ recurse_type(f) = Typed("INT", TRUE)
    IN  CASE e.kind = "PRIMARY" -> FALSE
          [] e.kind \in binary  -> ~scalar(e.left) \/ ~scalar(e.right)
          [] e.kind = "UNARY"   -> ~scalar(e.e)
          [] e.kind = "INDEX"   -> Rank(e) < 0 \/ \E k \in DOMAIN e.indices : ~scalar(e.indices[k])
          [] e.kind = "CALL"    ->
               \E k \in DOMAIN e.args :
                  \/ Overlooks(e.args[k])
                  \/ /\ Extent(e.args[k]) = 0
                     /\ Rank(e.args[k]) # Declaration(e.name).params[k].dimensions
          [] e.kind = "ASSIGN"  ->
               \/ Overlooks(e.e)
               \/ e.to.kind = "INDEX" /\ \E k \in DOMAIN e.to.indices : ~an_index(e.to.indices[k])
               \/ Rank(e.to) # Rank(e.e) /\ ~RanksCompared(e)

Overlooked(i) ==
    LET parts == CASE tree[i].kind \in {"FUNC_DEF", "END"} -> <<>>
                   [] tree[i].kind = "ARRAY_DECL" -> tree[i].sizes \o tree[i].values
                   [] OTHER -> tree[i].e
    IN  \E k \in DOMAIN parts :
           Overlooks(parts[k]) \/ (tree[i].kind # "EXPR" /\ Rank(parts[k]) # 0)

\* As long as nothing is reported, no statement checked so far can be stuck when
\* it runs: every operator, condition, argument, index and return gets a value
\* of a type it is for, the return that of the function around it; except for
\* the dimensions and the indices that recurse_type overlooks.
TypesSound ==
    phase = "types" /\ ~reported /\ at > 1 /\ ~Overlooked(at - 1) =>
      \A env \in Environments : RunsWell(at - 1, env)
===============================================================================
