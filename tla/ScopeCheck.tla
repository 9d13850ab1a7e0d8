------------------------------ MODULE ScopeCheck ------------------------------
(***************************************************************************)
(* The scope checker of scope.c.  recurse_scope walks the syntax tree; the *)
(* model makes up the tree while it is walked: an action is a case of      *)
(* recurse_scope up to the visit of a child, or from the return of one,    *)
(* and every walk through a tree of the grammar is a behaviour.  Operators *)
(* have no case of their own here: visiting an expression is visiting the  *)
(* identifiers and calls in it, in any order.                              *)
(*                                                                         *)
(* MaxScopes bounds the nesting, MaxSteps the number of statements,        *)
(* expressions and functions of a program, MaxErrors the different errors  *)
(* after which it does not grow any more.                                  *)
(***************************************************************************)
EXTENDS SymbolTable, FiniteSets

CONSTANTS
    Names,          \* of variables, arrays, parameters and functions
    Main,
    Functions,      \* the headers of functions
    MaxFunctions,   \* defined in one block
    MaxArguments,
    MaxScopes,
    MaxErrors,
    MaxSteps

ASSUME ScopeAssumption ==
    /\ Main \notin Names
    /\ Functions \subseteq [name : Names \cup {Main}, params : Seq(Names),
                            void : BOOLEAN]
    /\ {MaxFunctions, MaxArguments, MaxScopes, MaxErrors, MaxSteps} \subseteq Nat
    /\ MaxScopes >= 2

VARIABLES
    scope,                \* current_scope and its chain of outer tables
    node,                 \* the nodes being visited, one for each table
    nesting_depth,
    func_nesting_depth,
    is_in_function,
    main_def,
    errors,               \* what scope_errors reports
    phase,                \* "walk", "done", or "crashed" on a NULL pointer
    captured,             \* history: the bindings used from an inner function
    steps

counters == <<nesting_depth, func_nesting_depth, is_in_function, main_def>>
vars == <<scope, node, counters, errors, phase, captured, steps>>

(***************************************************************************)
(* A node being visited, with the locals of its call of recurse_scope.     *)
(* pending are the function definitions among its statements that are not  *)
(* visited yet; r is the result of its statements; more says that an else  *)
(* branch is left.  ends is history: every path through it returns.        *)
(***************************************************************************)
Node(kind) ==
    [kind |-> kind, pending |-> <<>>, void |-> TRUE, was_in |-> 0, r |-> 0,
     more |-> FALSE, ends |-> FALSE]

\* Mutant: the depths are swapped.
MutantInfo(kind, depth, func_depth, params) ==
    [kind |-> kind, nesting_depth |-> func_depth, func_nesting_depth |-> depth,
     num_params |-> params, escaping |-> 0]

\* create_var_info, with the kind and the parameters its callers fill in.
create_var_info(kind, depth, func_depth, params) ==
    [kind |-> kind, nesting_depth |-> depth, func_nesting_depth |-> func_depth,
     num_params |-> params, escaping |-> 0]

\* Functions and parameters are bound under their name, ...
Plain(x) == <<x>>

\* Mutant: the depth is not part of the label.
MutantLabel(x, depth) == <<0, x>>

\* ... variables and arrays under a label made of the nesting depth and the name.
scope_generate_label(x, depth) == <<depth, x>>

Init ==
    /\ scope = << <<>> >>
    /\ node = <<Node("program")>>
    /\ nesting_depth = 0 /\ func_nesting_depth = 0 /\ is_in_function = 0
    /\ main_def = 0
    /\ errors = {}
    /\ phase = "walk"
    /\ captured = {}
    /\ steps = 0

Top == Len(scope)

At(kinds) == phase = "walk" /\ node[Top].kind \in kinds

\* A statement or an expression of a body comes next.
InBody == At({"module", "block"})

\* The bounds of the instance: the program grows by n.
Grow(n) ==
    /\ n > 0 => Cardinality(errors) <= MaxErrors
    /\ steps + n <= MaxSteps
    /\ steps' = steps + n

Report(message, wrong) == IF wrong THEN {message} ELSE {}

(***************************************************************************)
(* The pass over a body that binds its functions before the body is        *)
(* visited: a name that is in use, or comes again, is refused.             *)
(***************************************************************************)
Refused(chain, fs) ==
    {k \in DOMAIN fs : \/ symbol_table_contains(chain, Plain(fs[k].name))
                       \/ \E j \in 1..(k - 1) : fs[j].name = fs[k].name}

FunctionTable(chain, fs, depth, func_depth) ==
    LET bound   == DOMAIN fs \ Refused(chain, fs)
        of(key) == CHOOSE k \in bound : Plain(fs[k].name) = key
    IN  [key \in {Plain(fs[k].name) : k \in bound} |->
           create_var_info("function", depth, func_depth,
                           Len(fs[of(key)].params))]

\* Parameters are refused by their own table only: A_PARAMETER_EXPR.
ParameterTable(table, params, depth, func_depth) ==
    [key \in DOMAIN table \cup {Plain(params[k]) : k \in DOMAIN params} |->
       IF key \in DOMAIN table THEN table[key]
       ELSE create_var_info("parameter", depth, func_depth, 0)]

ParameterTwice(table, params) ==
    \E k \in DOMAIN params :
        \/ Plain(params[k]) \in DOMAIN table
        \/ \E j \in 1..(k - 1) : params[j] = params[k]

\* A_MODULE, up to the visits of its declarations.
EnterModule(fs) ==
    /\ At({"program"})
    /\ Grow(1 + Len(fs))
    /\ fs # <<>> => Top + 3 <= MaxScopes
    /\ scope' = Append(scope, FunctionTable(scope, fs, nesting_depth + 1,
                                            func_nesting_depth + 1))
    /\ node' = Append(node, [Node("module") EXCEPT !.pending = fs])
    /\ nesting_depth' = nesting_depth + 1
    /\ func_nesting_depth' = func_nesting_depth + 1
    /\ LET mains == {k \in DOMAIN fs : fs[k].name = Main}
       IN  /\ main_def' = IF mains = {} THEN main_def ELSE 1
           /\ errors' = errors
                \cup Report("main twice", main_def + Cardinality(mains) > 1)
                \cup Report("function name in use", Refused(scope, fs) # {})
    /\ UNCHANGED <<is_in_function, phase, captured>>

(***************************************************************************)
(* A_FUNC_DEF, up to the visits of the statements of its block: the table  *)
(* of its nested functions and its parameters, then the table of the       *)
(* block.  The nesting depth is incremented for the first, decremented     *)
(* again, and incremented for the second.                                  *)
(***************************************************************************)
EnterFunction(f, nested, outer) ==
    LET functions == FunctionTable(scope, nested, nesting_depth + 1,
                                   func_nesting_depth + 1)
    IN  /\ nested # <<>> => Top + 4 <= MaxScopes
        /\ scope' = scope \o <<ParameterTable(functions, f.params, nesting_depth + 1,
                                              func_nesting_depth + 1), <<>> >>
        /\ node' = outer \o <<[Node("function") EXCEPT
                                 !.void = f.void, !.was_in = is_in_function,
                                 !.ends = TRUE],
                              [Node("block") EXCEPT !.pending = nested]>>
        /\ nesting_depth' = nesting_depth + 1
        /\ func_nesting_depth' = func_nesting_depth + 1
        /\ is_in_function' = 1
        /\ errors' = errors
             \cup Report("function in a nested scope",
                         ~symbol_table_contains(scope, Plain(f.name)))
             \cup Report("function name in use", Refused(scope, nested) # {})
             \cup Report("parameter twice", ParameterTwice(functions, f.params))
        /\ UNCHANGED <<main_def, phase, captured>>

\* The next definition of a module or of a function's block ...
DefineFunction(nested) ==
    /\ InBody
    /\ node[Top].pending # <<>>
    /\ Grow(Len(nested))
    /\ EnterFunction(Head(node[Top].pending), nested,
                     [node EXCEPT ![Top].pending = Tail(@)])

\* ... and a definition in the block of an if or a while, which nobody bound.
DefineInBranch(f, nested) ==
    /\ At({"block"})
    /\ node[Top - 1].kind \in {"if", "while"}
    /\ Top + 2 <= MaxScopes
    /\ Grow(1 + Len(nested))
    /\ EnterFunction(f, nested, node)

\* A_VAR_DECL after its initialiser.  The name is looked up without a label.
DeclareVariable(x) ==
    /\ InBody
    /\ Grow(1)
    /\ LET found == symbol_table_contains(scope, Plain(x))
           v     == symbol_table_get(scope, Plain(x))
           taken == /\ found
                    /\ \/ v.kind = "parameter"
                       \/ /\ v.kind = "function"
                          /\ v.func_nesting_depth = func_nesting_depth
           twice == found /\ ~taken /\ v.nesting_depth = nesting_depth
       IN  /\ errors' = errors
                \cup Report("function or parameter redefined", taken)
                \cup Report("variable twice", twice)
           /\ scope' = IF taken \/ twice THEN scope
                       ELSE symbol_table_insert(scope,
                              scope_generate_label(x, nesting_depth),
                              create_var_info("variable", nesting_depth,
                                              func_nesting_depth, 0))
    /\ UNCHANGED <<node, counters, phase, captured>>

\* A_ARRAY_DECL between its values and its sizes.  It is looked up by its label,
\* and inserted after an error as well.
DeclareArray(x) ==
    /\ InBody
    /\ Grow(1)
    /\ LET label == scope_generate_label(x, nesting_depth)
           found == symbol_table_contains(scope, label)
           v     == symbol_table_get(scope, label)
       IN  /\ errors' = errors
                \cup Report("function or parameter redefined",
                            found /\ v.kind \in {"parameter", "function"})
                \cup Report("array twice", found /\ v.nesting_depth = nesting_depth)
           /\ scope' = symbol_table_insert(scope, label,
                         create_var_info("array", nesting_depth,
                                         func_nesting_depth, 0))
    /\ UNCHANGED <<node, counters, phase, captured>>

\* The labels of a name that are bound, at any depth up to the current one.
Depths(x) ==
    {d \in 0..nesting_depth :
       symbol_table_contains(scope, scope_generate_label(x, d))}

Known(x) == symbol_table_contains(scope, Plain(x)) \/ Depths(x) # {}

\* Mutant: labels are tried from the outermost depth.
MutantResolve(x) ==
    IF symbol_table_contains(scope, Plain(x)) THEN Plain(x)
    ELSE scope_generate_label(x, CHOOSE d \in Depths(x) : \A e \in Depths(x) : d <= e)

\* What an identifier is replaced by: its plain name when that is bound anywhere,
\* else the label of the greatest depth.
Resolve(x) ==
    IF symbol_table_contains(scope, Plain(x)) THEN Plain(x)
    ELSE scope_generate_label(x, CHOOSE d \in Depths(x) : \A e \in Depths(x) : e <= d)

\* Mutant: the depth of blocks is compared, not that of functions.
MutantEscapes(v) == v.nesting_depth < nesting_depth

\* A binding of another function is used; no binding is of a deeper one.
Escapes(v) == v.func_nesting_depth # func_nesting_depth

\* A_PRIMARY_EXPR of an identifier nobody declared ...
UseUnknown(x) ==
    /\ InBody
    /\ ~Known(x)
    /\ Grow(1)
    /\ errors' = errors \cup {"undefined identifier"}
    /\ UNCHANGED <<scope, node, counters, phase, captured>>

\* ... and of one that is replaced by its binding.
Use(x) ==
    /\ InBody
    /\ Known(x)
    /\ Grow(1)
    /\ LET key   == Resolve(x)
           at    == Nearest(scope, key)
           v     == scope[at][key]
           wrong == key # Plain(x) /\ v.kind = "function"
       IN  /\ errors' = errors \cup Report("function used as variable", wrong)
           /\ scope' = IF wrong \/ ~Escapes(v) THEN scope
                       ELSE [scope EXCEPT ![at][key].escaping = 1]
           /\ captured' = IF \E j \in (at + 1)..Top : node[j].kind = "function"
                          THEN captured \cup {<<at, key>>} ELSE captured
    /\ UNCHANGED <<node, counters, phase>>

\* A_CALL_EXPR before its arguments: num_params is read through NULL when the
\* name is not bound.
Call(x, arguments) ==
    /\ InBody
    /\ Grow(1)
    /\ LET found == symbol_table_contains(scope, Plain(x))
           v     == symbol_table_get(scope, Plain(x))
       IN  /\ errors' = errors
                \cup Report("undefined function", ~found)
                \cup Report("not a function", found /\ v.kind # "function")
                \cup Report("number of arguments", found /\ v.num_params # arguments)
           /\ phase' = IF found THEN phase ELSE "crashed"
    /\ UNCHANGED <<scope, node, counters, captured>>

\* A_RETURN_STMT; a module ignores the result.
Return ==
    /\ InBody
    /\ Grow(1)
    /\ errors' = errors \cup Report("return outside of a function", is_in_function = 0)
    /\ node' = IF node[Top].kind = "module" THEN node
               ELSE [node EXCEPT ![Top].r = 1, ![Top].ends = TRUE]
    /\ UNCHANGED <<scope, counters, phase, captured>>

\* A_IF_STMT and A_WHILE_LOOP after the condition, up to the statements of the
\* block: each has a table of its own, and its block has one.
EnterBranch(statement) ==
    /\ InBody
    /\ Top + 2 <= MaxScopes
    /\ Grow(1)
    /\ scope' = scope \o << <<>>, <<>> >>
    /\ node' = node \o <<statement, Node("block")>>
    /\ nesting_depth' = nesting_depth + 1
    /\ UNCHANGED <<func_nesting_depth, is_in_function, main_def, errors, phase,
                   captured>>

EnterIf == \E else \in BOOLEAN :
    EnterBranch([Node("if") EXCEPT !.more = else, !.ends = else])

EnterWhile == EnterBranch(Node("while"))

EnterElse ==
    /\ At({"if"})
    /\ node[Top].more
    /\ scope' = Append(scope, <<>>)
    /\ node' = Append([node EXCEPT ![Top].more = FALSE], Node("block"))
    /\ nesting_depth' = nesting_depth + 1
    /\ UNCHANGED <<func_nesting_depth, is_in_function, main_def, errors, phase,
                   captured, steps>>

\* current_scope = outer_table: the innermost table is left.
Leave(nodes) ==
    /\ scope' = SubSeq(scope, 1, Top - 1)
    /\ node' = SubSeq(nodes, 1, Top - 1)
    /\ captured' = {c \in captured : c[1] < Top}

\* The end of A_BLOCK_STMT: its parent gets its result.
LeaveBlock ==
    /\ At({"block"})
    /\ node[Top].pending = <<>>
    /\ Leave([node EXCEPT ![Top - 1].r = node[Top].r,
                          ![Top - 1].ends = @ /\ node[Top].ends])
    /\ nesting_depth' = nesting_depth - 1
    /\ UNCHANGED <<func_nesting_depth, is_in_function, main_def, errors, phase,
                   steps>>

\* Mutant: the result of a branch is the statement's.
MutantLeaveStatement ==
    /\ At({"if", "while"})
    /\ ~node[Top].more
    /\ Leave([node EXCEPT ![Top - 1].ends = @ \/ node[Top].ends,
                          ![Top - 1].r = IF node[Top].r = 1 THEN 1 ELSE @])
    /\ UNCHANGED <<counters, errors, phase, steps>>

\* The end of A_IF_STMT and A_WHILE_LOOP.  l and r of A_IF_STMT are never
\* assigned: neither statement counts as a return, whatever its branches do.
LeaveStatement ==
    /\ At({"if", "while"})
    /\ ~node[Top].more
    /\ Leave([node EXCEPT ![Top - 1].ends = @ \/ node[Top].ends])
    /\ UNCHANGED <<counters, errors, phase, steps>>

\* Mutant: the depth of functions is decremented for the function and its block.
MutantLeaveFunction ==
    /\ At({"function"})
    /\ errors' = errors
         \cup Report("missing return", ~node[Top].void /\ node[Top].r = 0)
    /\ Leave(node)
    /\ func_nesting_depth' = func_nesting_depth - 2
    /\ is_in_function' = node[Top].was_in
    /\ UNCHANGED <<nesting_depth, main_def, phase, steps>>

\* The end of A_FUNC_DEF.  A void function without a return gets one appended.
LeaveFunction ==
    /\ At({"function"})
    /\ errors' = errors
         \cup Report("missing return", ~node[Top].void /\ node[Top].r = 0)
    /\ Leave(node)
    /\ func_nesting_depth' = func_nesting_depth - 1
    /\ is_in_function' = node[Top].was_in
    /\ UNCHANGED <<nesting_depth, main_def, phase, steps>>

LeaveModule ==
    /\ At({"module"})
    /\ node[Top].pending = <<>>
    /\ Leave(node)
    /\ nesting_depth' = nesting_depth - 1
    /\ func_nesting_depth' = func_nesting_depth - 1
    /\ UNCHANGED <<is_in_function, main_def, errors, phase, steps>>

\* The end of scopecheck.
Finish ==
    /\ At({"program"})
    /\ errors' = errors \cup Report("missing main", main_def = 0)
    /\ phase' = "done"
    /\ UNCHANGED <<scope, node, counters, captured, steps>>

Stopped == phase \in {"done", "crashed"} /\ UNCHANGED vars

\* The functions defined in one block.
Definitions == UNION {[1..n -> Functions] : n \in 0..MaxFunctions}

Next ==
    \/ \E fs \in Definitions : EnterModule(fs) \/ DefineFunction(fs)
    \/ \E f \in Functions, fs \in Definitions : DefineInBranch(f, fs)
    \/ \E x \in Names : DeclareVariable(x) \/ DeclareArray(x) \/ Use(x) \/ UseUnknown(x)
    \/ \E x \in Names \cup {Main}, n \in 0..MaxArguments : Call(x, n)
    \/ Return
    \/ EnterIf \/ EnterElse \/ EnterWhile
    \/ LeaveBlock \/ LeaveStatement \/ LeaveFunction \/ LeaveModule
    \/ Finish
    \/ Stopped

Spec == Init /\ [][Next]_vars

-------------------------------------------------------------------------------
(* Properties *)

Messages ==
    {"main twice", "function name in use", "function in a nested scope",
     "parameter twice", "function or parameter redefined", "variable twice",
     "array twice", "undefined identifier", "function used as variable",
     "undefined function", "not a function", "number of arguments",
     "return outside of a function", "missing return", "missing main"}

Infos ==
    [kind : {"function", "parameter", "variable", "array"},
     nesting_depth : 1..MaxScopes, func_nesting_depth : 1..MaxScopes,
     num_params : Nat, escaping : {0, 1}]

Nodes ==
    [kind : {"program", "module", "function", "block", "if", "while"},
     pending : Seq(Functions), void : BOOLEAN, was_in : {0, 1}, r : {0, 1},
     more : BOOLEAN, ends : BOOLEAN]

TypeOK ==
    /\ Len(scope) \in 1..MaxScopes
    /\ \A i \in DOMAIN scope : \A key \in DOMAIN scope[i] : scope[i][key] \in Infos
    /\ node \in Seq(Nodes) /\ Len(node) = Len(scope)
    /\ nesting_depth \in 0..MaxScopes /\ func_nesting_depth \in 0..MaxScopes
    /\ is_in_function \in {0, 1} /\ main_def \in {0, 1}
    /\ errors \subseteq Messages
    /\ phase \in {"walk", "done", "crashed"}
    /\ \A c \in captured : c[1] \in DOMAIN scope /\ c[2] \in DOMAIN scope[c[1]]
    /\ steps \in 0..MaxSteps

Opened(kinds, i) == Cardinality({j \in 1..i : node[j].kind \in kinds})

\* The counters, which are changed in a dozen places, tell the nesting at the node
\* being visited, and every binding carries the number of functions around it:
\* code generation walks that many static links, the difference of two depths.
StaticDepths ==
    /\ nesting_depth = Opened({"module", "block"}, Top)
    /\ func_nesting_depth = Opened({"module", "function"}, Top)
    /\ is_in_function = 1 <=> Opened({"function"}, Top) > 0
    /\ \A i \in DOMAIN scope : \A key \in DOMAIN scope[i] :
          scope[i][key].func_nesting_depth = Opened({"module", "function"}, i)

\* The tables that declare a name, under whatever label.
Declaring(x) ==
    {i \in DOMAIN scope : \E key \in DOMAIN scope[i] : key[Len(key)] = x}

\* A variable or an array is inside of a function or a parameter of its name.
HidesPlain(x) ==
    \E i, j \in DOMAIN scope :
        /\ i < j /\ Plain(x) \in DOMAIN scope[i]
        /\ \E d \in 0..nesting_depth : scope_generate_label(x, d) \in DOMAIN scope[j]

\* recurse_scope replaces an identifier by the binding of the nearest scope that
\* declares the name, though it asks for one depth after the other and not for
\* one scope after the other, and reports a name no scope declares.  A variable
\* that hides a function or a parameter is what this leaves out.
ResolvesLexically ==
    \A x \in Names :
        ~HidesPlain(x) =>
            /\ Known(x) <=> Declaring(x) # {}
            /\ \A i \in Declaring(x) : i <= Nearest(scope, Resolve(x))

\* var_info's escaping is set for exactly the bindings a function inside of their
\* own uses: the others are kept in registers, where that function cannot reach.
EscapesMarked ==
    \A i \in DOMAIN scope : \A key \in DOMAIN scope[i] :
        scope[i][key].escaping = 1 <=> <<i, key>> \in captured

\* Type checking and code generation look the names of the walked tree up again:
\* what a key names in a scope stays what it names there, through every later
\* declaration, and only its mark changes, from 0 to 1.
LookupsStay ==
    [][\A i \in DOMAIN scope \cap DOMAIN scope' :
         \A key \in UNION {DOMAIN scope[j] : j \in 1..i} :
            LET before == symbol_table_get(SubSeq(scope, 1, i), key)
                after  == symbol_table_get(SubSeq(scope, 1, i), key)'
            IN  /\ Nearest(SubSeq(scope', 1, i), key) = Nearest(SubSeq(scope, 1, i), key)
                /\ after \in {before, [before EXCEPT !.escaping = 1]}]_vars

\* A function with a result, one path of which runs off its end, is reported: the
\* code generated for that path has no epilogue.
MissingReturnReported ==
    [][/\ node[Top].kind = "function" /\ Len(scope') < Top
       /\ ~node[Top].void /\ ~node[Top].ends
       => "missing return" \in errors']_vars
===============================================================================
