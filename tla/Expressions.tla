------------------------------ MODULE Expressions ------------------------------
(***************************************************************************)
(* The expressions of the syntax tree and what they mean when they run.    *)
(* Names are those the scope checker has resolved: one for each            *)
(* declaration.  Integers are LongBits wide where the compiler has 64, and *)
(* a bool_value ShortBits where it has 16.                                 *)
(***************************************************************************)
EXTENDS Integers, Sequences

CONSTANTS LongBits, ShortBits

ASSUME WidthAssumption == {LongBits, ShortBits} \subseteq Nat \ {0} /\ ShortBits < LongBits

\* The number the low bits of v are read as, signed.
Signed(v, bits) ==
    LET low == v % 2^bits IN IF low < 2^(bits - 1) THEN low ELSE low - 2^bits

\* A literal holds what fits its field of the union.
Literal(type, v) ==
    [kind |-> "PRIMARY", type |-> type,
     v |-> Signed(v, IF type = "BOOL" THEN ShortBits ELSE LongBits)]
Identifier(x) == [kind |-> "PRIMARY", type |-> "IDENTIFIER", name |-> x]

Binary(op, left, right) ==
    [kind |-> CASE op \in {"AND", "OR"} -> "LOGICAL"
                [] op \in {"LESS", "GREATER", "LESS_EQ", "GREATER_EQ",
                           "EQUALS", "NEQUALS"} -> "RELATIONAL"
                [] op \in {"ADD", "SUB", "MULT", "DIV"} -> "ARITHMETIC",
     op |-> op, left |-> left, right |-> right]
Unary(op, e)      == [kind |-> "UNARY", op |-> op, e |-> e]
Index(x, indices) == [kind |-> "INDEX", name |-> x, indices |-> indices]
Call(f, args)     == [kind |-> "CALL", name |-> f, args |-> args]
Assign(to, e)     == [kind |-> "ASSIGN", to |-> to, e |-> e]

binary         == {"LOGICAL", "RELATIONAL", "ARITHMETIC"}
IsIdentifier(e) == e.kind = "PRIMARY" /\ e.type = "IDENTIFIER"
IsLiteral(e)    == e.kind = "PRIMARY" /\ e.type # "IDENTIFIER"

(***************************************************************************)
(* Running an expression where env says what the variables hold and what   *)
(* calls give, and params the types of the parameters.  A value carries    *)
(* its type, <<element type, dimensions>>, so that an operator applied to  *)
(* a value of another type is stuck; a division by zero traps.             *)
(***************************************************************************)
Value(type, v) == [type |-> type, v |-> v]
INT   == <<"INT", 0>>
BOOL  == <<"BOOL", 0>>
CHAR  == <<"CHAR", 0>>
VOID  == <<"VOID", 0>>
Stuck == Value(<<"stuck", 0>>, 0)
Trap  == Value(<<"trap", 0>>, 0)
Truth(holds) == Value(BOOL, IF holds THEN 1 ELSE 0)

\* The division of C: towards zero.
Quotient(a, b) ==
    LET abs(v) == IF v < 0 THEN -v ELSE v
        q      == abs(a) \div abs(b)
    IN  IF (a < 0) = (b < 0) THEN q ELSE -q

Compare(op, a, b) ==
    CASE op = "LESS" -> a < b        [] op = "GREATER" -> a > b
      [] op = "LESS_EQ" -> a <= b    [] op = "GREATER_EQ" -> a >= b
      [] op = "EQUALS" -> a = b      [] op = "NEQUALS" -> a # b

Operate(op, a, b) ==
    CASE op = "ADD" -> a + b         [] op = "SUB" -> a - b
      [] op = "MULT" -> a * b        [] op = "DIV" -> Quotient(a, b)

RunRelational(op, l, r) ==
    CASE Trap \in {l, r} -> Trap
      [] l.type # r.type \/ l.type \notin {INT, BOOL, CHAR} -> Stuck
      [] l.type # INT /\ op \notin {"EQUALS", "NEQUALS"} -> Stuck
      [] OTHER -> Truth(Compare(op, l.v, r.v))

RunArithmetic(op, l, r) ==
    CASE Trap \in {l, r} -> Trap
      [] l.type # INT \/ r.type # INT -> Stuck
      [] op = "DIV" /\ r.v = 0 -> Trap
      [] OTHER -> Value(INT, Signed(Operate(op, l.v, r.v), LongBits))

\* The right side runs only if the left one does not decide.
RunLogical(op, l, r) ==
    CASE l = Trap -> Trap
      [] l.type \notin {INT, BOOL} -> Stuck
      [] (l.v # 0) = (op = "OR") -> Truth(l.v # 0)
      [] r = Trap -> Trap
      [] r.type \notin {INT, BOOL} -> Stuck
      [] OTHER -> Truth(r.v # 0)

\* Values got where values of these types are needed, for this result.
Checked(got, types, result) ==
    CASE \E k \in DOMAIN got : got[k] = Trap -> Trap
      [] \E k \in DOMAIN got : got[k].type # types[k] -> Stuck
      [] OTHER -> result

\* An array with some of its dimensions indexed.
Element(a, n) ==
    IF n > a.type[2] THEN Stuck ELSE Value(<<a.type[1], a.type[2] - n>>, a.v)

RECURSIVE Run(_, _, _)
Run(e, env, params) ==
    LET all(es) == [k \in DOMAIN es |-> Run(es[k], env, params)]
    IN  CASE IsLiteral(e)           -> Value(<<e.type, 0>>, e.v)
          [] IsIdentifier(e)        -> env[e.name]
          [] e.kind = "LOGICAL"     -> RunLogical(e.op, Run(e.left, env, params),
                                                  Run(e.right, env, params))
          [] e.kind = "RELATIONAL"  -> RunRelational(e.op, Run(e.left, env, params),
                                                     Run(e.right, env, params))
          [] e.kind = "ARITHMETIC"  -> RunArithmetic(e.op, Run(e.left, env, params),
                                                     Run(e.right, env, params))
          [] e.kind = "UNARY"       -> Checked(<<Run(e.e, env, params)>>,
                                               <<IF e.op = "NEG" THEN BOOL ELSE INT>>,
                                               Value(VOID, 0))
          [] e.kind = "INDEX"       -> Checked(all(e.indices),
                                               [k \in DOMAIN e.indices |-> INT],
                                               Element(env[e.name], Len(e.indices)))
          [] e.kind = "CALL"        -> Checked(all(e.args), params[e.name], env[e.name])
          [] e.kind = "ASSIGN"      -> LET to == Run(e.to, env, params)
                                           r  == Run(e.e, env, params)
                                       IN  Checked(<<to, r>>, <<to.type, to.type>>, r)
===============================================================================
