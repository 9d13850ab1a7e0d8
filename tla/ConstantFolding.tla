---------------------------- MODULE ConstantFolding ----------------------------
(***************************************************************************)
(* Constant folding, optimiser.c, on the trees the type checker accepts:   *)
(* the pass frontend.c runs next.  AST_optimiser_constant_folding rewrites *)
(* the tree in place and returns a node only where its caller is to put    *)
(* that in the place of the old one; NULL is <<>>.                         *)
(***************************************************************************)
EXTENDS TypeCheck

VARIABLE source    \* history: the tree before the pass

vars == <<tree, checking, phase, source>>

IsTrue(l) == Signed(l.v, ShortBits) # 0    \* bool_value, of an integer too

\* Mutant: what an identifier holds is taken to be true.
MutantLogicalFold(op, l, r) ==
    CASE IsIdentifier(l) -> <<>>
      [] IsTrue(l) = (op = "OR") -> <<Literal("BOOL", l.v)>>
      [] IsIdentifier(r) -> <<Literal("BOOL", 1)>>
      [] OTHER -> <<Literal("BOOL", IF IsTrue(r) THEN 1 ELSE 0)>>

\* A left operand that decides is the value; else both have to be literals.
LogicalFold(op, l, r) ==
    CASE IsIdentifier(l) -> <<>>
      [] IsTrue(l) = (op = "OR") -> <<Literal("BOOL", l.v)>>
      [] IsIdentifier(r) -> <<>>
      [] OTHER -> <<Literal("BOOL", IF IsTrue(r) THEN 1 ELSE 0)>>

(***************************************************************************)
(* integer_value is compared whatever the literals are: of a CHAR or a     *)
(* BOOL only the low bytes were ever written, and stale says that the      *)
(* others differ.                                                          *)
(***************************************************************************)
RelationalFold(op, l, r, stale) ==
    IF IsIdentifier(l) \/ IsIdentifier(r) THEN <<>>
    ELSE IF l.type # "INT" /\ stale
      THEN <<Literal("BOOL", IF op = "NEQUALS" THEN 1 ELSE 0)>>
      ELSE <<Literal("BOOL", IF Compare(op, l.v, r.v) THEN 1 ELSE 0)>>

\* A division by zero is reported and made a division by one.
ArithmeticFold(op, l, r) ==
    IF IsIdentifier(l) \/ IsIdentifier(r) THEN <<>>
    ELSE <<Literal("INT", Operate(op, l.v, IF op = "DIV" /\ r.v = 0 THEN 1 ELSE r.v))>>

\* An operator between two primary expressions.
Fold(e, stale) ==
    CASE e.kind = "LOGICAL"    -> LogicalFold(e.op, e.left, e.right)
      [] e.kind = "RELATIONAL" -> RelationalFold(e.op, e.left, e.right, stale)
      [] e.kind = "ARITHMETIC" -> ArithmeticFold(e.op, e.left, e.right)

Primary(e) == e.kind = "PRIMARY"

\* The returned node, and the old one after what was done to it in place.
Folded(result, node) == [result |-> result, node |-> node]
InPlace(f) == IF f.result = <<>> THEN f.node ELSE f.result[1]

\* Mutant: an operator whose operands became literals is left as it is.
MutantCF_fold_children(e, l, r, stale) ==
    Folded(<<>>, [e EXCEPT !.left = InPlace(l), !.right = InPlace(r)])

CF_fold_children(e, l, r, stale) ==
    LET new == [e EXCEPT !.left = InPlace(l), !.right = InPlace(r)]
    IN  Folded(IF l.result # <<>> /\ r.result # <<>> THEN Fold(new, stale) ELSE <<>>, new)

RECURSIVE constant_folding(_, _)
constant_folding(e, stale) ==
    LET all(es) == [k \in DOMAIN es |-> InPlace(constant_folding(es[k], stale))]
    IN  CASE Primary(e) -> Folded(IF IsLiteral(e) THEN <<e>> ELSE <<>>, e)
          [] e.kind \in binary ->
               IF Primary(e.left) /\ Primary(e.right) THEN Folded(Fold(e, stale), e)
               ELSE CF_fold_children(e, constant_folding(e.left, stale),
                                        constant_folding(e.right, stale), stale)
          [] e.kind = "INDEX"  -> Folded(<<>>, [e EXCEPT !.indices = all(@)])
          [] e.kind = "CALL"   -> Folded(<<>>, [e EXCEPT !.args = all(@)])
          [] e.kind = "ASSIGN" ->
               Folded(<<>>, [e EXCEPT !.e = InPlace(constant_folding(@, stale))])

\* The pass calls itself on the same node at a unary operator, without end.
RECURSIVE MeetsUnary(_)
MeetsUnary(e) ==
    CASE Primary(e)           -> FALSE
      [] e.kind = "UNARY"     -> TRUE
      [] e.kind \in binary    -> MeetsUnary(e.left) \/ MeetsUnary(e.right)
      [] e.kind = "INDEX"     -> \E k \in DOMAIN e.indices : MeetsUnary(e.indices[k])
      [] e.kind = "CALL"      -> \E k \in DOMAIN e.args : MeetsUnary(e.args[k])
      [] e.kind = "ASSIGN"    -> MeetsUnary(e.e)

(***************************************************************************)
(* The walk over the nodes.                                                *)
(***************************************************************************)
AtFolding(kinds) == phase = "folding" /\ at \in DOMAIN tree /\ Node.kind \in kinds

Replaced(es, stale) == [k \in DOMAIN es |-> InPlace(constant_folding(es[k], stale))]

\* Declarations, conditions, prints and returns put the literal in place.
FoldStatement(stale) ==
    /\ AtFolding({"VAR_DECL", "IF", "WHILE", "PRINT", "RETURN"})
    /\ \A k \in DOMAIN Node.e : ~MeetsUnary(Node.e[k])
    /\ tree' = [tree EXCEPT ![at].e = Replaced(@, stale)]
    /\ at' = at + 1
    /\ UNCHANGED <<type, current_return_type, old_return_type, reported, phase, source>>

\* The sizes of an array, not its values.
FoldArray(stale) ==
    /\ AtFolding({"ARRAY_DECL"})
    /\ \A k \in DOMAIN Node.sizes : ~MeetsUnary(Node.sizes[k])
    /\ tree' = [tree EXCEPT ![at].sizes = Replaced(@, stale)]
    /\ at' = at + 1
    /\ UNCHANGED <<type, current_return_type, old_return_type, reported, phase, source>>

\* A_BLOCK_STMT drops what is returned for a statement that is an expression:
\* only what was done to it in place stays, ...
FoldExpression(stale) ==
    /\ AtFolding({"EXPR"})
    /\ ~MeetsUnary(Node.e[1])
    /\ LET f == constant_folding(Node.e[1], stale)
       IN  /\ f.result = <<>> \/ IsLiteral(Node.e[1])
           /\ tree' = [tree EXCEPT ![at].e[1] = f.node]
    /\ at' = at + 1
    /\ UNCHANGED <<type, current_return_type, old_return_type, reported, phase, source>>

\* ... and if it was folded, the block keeps a node that was freed.
DropFolded ==
    /\ AtFolding({"EXPR"})
    /\ ~MeetsUnary(Node.e[1]) /\ ~IsLiteral(Node.e[1])
    /\ constant_folding(Node.e[1], FALSE).result # <<>>
    /\ phase' = "dangling"
    /\ UNCHANGED <<tree, checking, source>>

FoldUnary ==
    /\ AtFolding({"VAR_DECL", "IF", "WHILE", "PRINT", "RETURN", "EXPR"})
    /\ \E k \in DOMAIN Node.e : MeetsUnary(Node.e[k])
    /\ phase' = "overflow"
    /\ UNCHANGED <<tree, checking, source>>

SkipNode ==
    /\ AtFolding({"FUNC_DEF", "END"})
    /\ at' = at + 1
    /\ UNCHANGED <<tree, type, current_return_type, old_return_type, reported, phase, source>>

EndFolding ==
    /\ phase = "folding" /\ at > Len(tree)
    /\ phase' = "done"
    /\ UNCHANGED <<tree, checking, source>>

Start == Init /\ source = tree

Next ==
    \/ CheckTypes /\ UNCHANGED source
    \/ \E stale \in BOOLEAN : FoldStatement(stale) \/ FoldArray(stale) \/ FoldExpression(stale)
    \/ DropFolded \/ FoldUnary \/ SkipNode \/ EndFolding

Spec == Start /\ [][Next]_vars

(***************************************************************************)
(* Properties.                                                             *)
(***************************************************************************)
Expressions(node) ==
    CASE node.kind \in {"FUNC_DEF", "END"} -> <<>>
      [] node.kind = "ARRAY_DECL" -> node.sizes \o node.values
      [] OTHER -> node.e

\* Two constants are compared, neither of them an integer: what they are
\* folded to depends on bytes nobody wrote.
RECURSIVE ComparesStale(_)
ComparesStale(e) ==
    CASE Primary(e) \/ e.kind = "UNARY" -> FALSE
      [] e.kind \in binary ->
           \/ ComparesStale(e.left) \/ ComparesStale(e.right)
           \/ /\ e.kind = "RELATIONAL"
              /\ LET l == InPlace(constant_folding(e.left, FALSE))
                     r == InPlace(constant_folding(e.right, FALSE))
                 IN  IsLiteral(l) /\ IsLiteral(r) /\ l.type # "INT"
      [] e.kind = "INDEX"     -> \E k \in DOMAIN e.indices : ComparesStale(e.indices[k])
      [] e.kind = "CALL"      -> \E k \in DOMAIN e.args : ComparesStale(e.args[k])
      [] e.kind = "ASSIGN"    -> ComparesStale(e.e)

\* A logical operator has a constant operand that is not 0 but whose low
\* ShortBits are: read as a bool_value it is false.
RECURSIVE TruthTruncated(_)
TruthTruncated(e) ==
    LET truncated(f) == IsLiteral(f) /\ f.v # 0 /\ ~IsTrue(f)
        constant(f)  == InPlace(constant_folding(f, FALSE))
    IN  CASE Primary(e) \/ e.kind = "UNARY" -> FALSE
          [] e.kind \in binary ->
               \/ TruthTruncated(e.left) \/ TruthTruncated(e.right)
               \/ /\ e.kind = "LOGICAL"
                  /\ truncated(constant(e.left)) \/ truncated(constant(e.right))
          [] e.kind = "INDEX"     -> \E k \in DOMAIN e.indices : TruthTruncated(e.indices[k])
          [] e.kind = "CALL"      -> \E k \in DOMAIN e.args : TruthTruncated(e.args[k])
          [] e.kind = "ASSIGN"    -> TruthTruncated(e.e)

\* A BOOL says no more than whether it is 0.
SameValue(a, b) ==
    a.type = b.type /\ IF a.type = BOOL THEN (a.v = 0) = (b.v = 0) ELSE a.v = b.v

\* Whatever the variables hold, the folded expression gives the value the
\* expression of the source gives, unless that divides by zero, compares
\* constants by stale bytes or truncates the truth of one.
FoldingKeepsMeaning ==
    phase \in {"folding", "done"} /\ at > 1 =>
      \A k \in DOMAIN Expressions(source[at - 1]) :
        LET before == Expressions(source[at - 1])[k]
            after  == Expressions(tree[at - 1])[k]
        IN  \A env \in Environments :
              \/ ComparesStale(before) \/ TruthTruncated(before)
              \/ Run(before, env, ParameterTypes) = Trap
              \/ SameValue(Run(before, env, ParameterTypes), Run(after, env, ParameterTypes))

\* An operator between two literals.
RECURSIVE LeftToFold(_)
LeftToFold(e) ==
    CASE Primary(e) -> FALSE
      [] e.kind \in binary -> \/ LeftToFold(e.left) \/ LeftToFold(e.right)
                              \/ IsLiteral(e.left) /\ IsLiteral(e.right)
      [] e.kind = "INDEX"     -> \E k \in DOMAIN e.indices : LeftToFold(e.indices[k])
      [] e.kind = "CALL"      -> \E k \in DOMAIN e.args : LeftToFold(e.args[k])
      [] e.kind = "ASSIGN"    -> LeftToFold(e.e)

\* One pass is enough: it leaves no operator between two literals where it
\* folds, in whatever order the operands became literals.
OnePassFoldsAll ==
    phase \in {"folding", "done"} /\ at > 1 =>
      LET node  == tree[at - 1]
          parts == IF node.kind = "ARRAY_DECL" THEN node.sizes ELSE Expressions(node)
      IN  \A k \in DOMAIN parts : ~LeftToFold(parts[k])
===============================================================================
