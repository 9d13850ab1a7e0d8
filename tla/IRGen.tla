-------------------------------- MODULE IRGen --------------------------------
(***************************************************************************)
(* The control flow part of recurse_IR_tree (ir.c): how the statements of  *)
(* a function become a graph of segments.                                  *)
(*                                                                         *)
(* An operation is abstracted to its code, the temporaries it defines and  *)
(* uses, and the segments its labels name: dest is where the code jumps,   *)
(* start is the start_while field.                                         *)
(*                                                                         *)
(* The generator's state is the graph so far and the current segment.      *)
(* Segments are numbered as create_segment makes them; 0 is NULL.          *)
(***************************************************************************)
EXTENDS Integers, Sequences

NoSegment == 0

Op(code, def, use) ==
    [code |-> code, def |-> def, use |-> use, dest |-> NoSegment, start |-> NoSegment]
Jump(code, use, dest) == [Op(code, {}, use) EXCEPT !.dest = dest]

\* create_segment
EmptySegment ==
    [ops |-> <<>>, left |-> NoSegment, right |-> NoSegment, pred |-> <<>>]

NewSegment(g) == [g EXCEPT !.segs = Append(@, EmptySegment)]
Newest(g)     == Len(g.segs)

Emit(g, op)        == [g EXCEPT !.segs[g.cur].ops = Append(@, op)]
SetLeft(g, s, t)   == [g EXCEPT !.segs[s].left = t]
SetRight(g, s, t)  == [g EXCEPT !.segs[s].right = t]
AddPred(g, s, t)   == [g EXCEPT !.segs[s].pred = Append(@, t)]
GoOn(g, s)         == [g EXCEPT !.cur = s]

\* A new segment to the left, or to the right, of the current one.
NewLeft(g) ==
    AddPred(SetLeft(NewSegment(g), g.cur, Newest(g) + 1), Newest(g) + 1, g.cur)
NewRight(g) ==
    AddPred(SetRight(NewSegment(g), g.cur, Newest(g) + 1), Newest(g) + 1, g.cur)

\* The code falls into a segment made before, and goes on there.
FallInto(g, s) == GoOn(AddPred(SetLeft(g, g.cur, s), s, g.cur), s)

(***************************************************************************)
(* CG_remove_segment: the predecessors of the empty current segment are    *)
(* led to seg instead, one after the other.                                *)
(***************************************************************************)
\* Mutant: the label a while leaves its loop by is not updated.
MutantRetargeted(op, seg) ==
    IF op.code \in {"goto", "logical_jump"} THEN [op EXCEPT !.dest = seg] ELSE op

Retargeted(op, seg) ==
    IF op.code \in {"goto", "logical_jump", "while"} THEN [op EXCEPT !.dest = seg] ELSE op

\* Mutant: only the left is led to seg.
MutantRelinked(g, p, seg) == SetLeft(g, p, seg)

Relinked(g, p, seg) ==
    IF g.segs[p].left = g.cur THEN SetLeft(g, p, seg) ELSE SetRight(g, p, seg)

RECURSIVE RemoveSegment(_, _, _)
RemoveSegment(g, seg, preds) ==
    IF preds = <<>> THEN g
    ELSE LET p  == Head(preds)
             g1 == [g EXCEPT !.segs[p].ops[Len(g.segs[p].ops)] = Retargeted(@, seg)]
         IN  RemoveSegment(AddPred(Relinked(g1, p, seg), seg, p), seg, Tail(preds))

(***************************************************************************)
(* Expressions: the value of e is in the temporary e.t afterwards.         *)
(***************************************************************************)
RECURSIVE Expr(_, _)

\* After a jump the code goes on in a new segment; its right is where the jump
\* of the side after it goes.
AfterJump(g, right) == SetRight(FallInto(NewSegment(g), Newest(g) + 1), Newest(g) + 1, right)

\* One side of a lazy logical expression, and the jump to false.
LogicalSide(g, e, false, right) ==
    AfterJump(Emit(Emit(Expr(g, e), Op("compare", {}, {e.t})),
                   Jump("logical_jump", {}, false)),
              right)

\* The value of the expression, when both sides hold and at false.
LogicalTrue(g, t, end) ==
    Emit(Emit(g, Op("assign", {t}, {})), Jump("logical_jump", {}, end))
LogicalFalse(g, t) == Emit(g, Op("assign", {t}, {}))

Logical(g, e, end, false) ==
    FallInto(
        LogicalFalse(
            FallInto(
                LogicalTrue(
                    LogicalSide(LogicalSide(g, e.l, false, false), e.r, false, end),
                    e.t, end),
                false),
            e.t),
        end)

Expr(g, e) ==
    CASE e.k = "var"     -> g
      [] e.k = "arith"   -> Emit(g, Op("arith", {e.t}, e.use))
      [] e.k = "logical" ->
           Logical(NewSegment(NewSegment(g)), e, Newest(g) + 1, Newest(g) + 2)

(***************************************************************************)
(* Statements.                                                             *)
(***************************************************************************)
Assign(g, s)    == Emit(Expr(g, s.e), Op("assign", {s.x}, {s.e.t}))
PrintStmt(g, s) == Emit(Expr(g, s.e), Op("print", {}, {s.e.t}))
Return(g, s)    == Emit(g, Op("ret", {}, s.use))

RECURSIVE Block(_, _)

\* g has the condition's value, then, else and end are the numbers of the new
\* segments.
IfElse(g, s, then, else, end) ==
    FallInto(
        Block(
            GoOn(
                FallInto(
                    Emit(Block(GoOn(Emit(NewSegment(NewRight(NewLeft(g))),
                                         Jump("if", {s.cond.t}, else)),
                                    then),
                               s.then),
                         Jump("goto", {}, end)),
                    end),
                else),
            s.else),
        end)

IfOnly(g, s, then, end) ==
    FallInto(
        Block(GoOn(Emit(NewSegment(NewLeft(g)), Jump("if", {s.cond.t}, end)), then),
              s.then),
        end)

HasElse(s) == "else" \in DOMAIN s

If(g, s) ==
    IF HasElse(s) THEN IfElse(g, s, Newest(g) + 1, Newest(g) + 2, Newest(g) + 3)
                  ELSE IfOnly(g, s, Newest(g) + 1, Newest(g) + 2)

\* An empty current segment makes way for the start of a loop.
StartLoop(g, start) ==
    IF g.segs[g.cur].ops = <<>>
      THEN GoOn(RemoveSegment(NewSegment(g), start, g.segs[g.cur].pred), start)
      ELSE FallInto(NewSegment(g), start)

LeadBack(g, start)  == SetLeft(Emit(g, Jump("goto", {}, start)), g.cur, start)
LeaveLoop(g, cond)  == GoOn(g, g.segs[cond].right)

\* g has the condition's value; the body and the end are the new segments.
While(g, s, start) ==
    LeaveLoop(
        LeadBack(
            Block(GoOn(Emit(NewRight(NewLeft(g)),
                            [Jump("while", {s.cond.t}, Newest(g) + 2) EXCEPT !.start = start]),
                       Newest(g) + 1),
                  s.body),
            start),
        g.cur)

Statement(g, s) ==
    CASE s.k = "assign" -> Assign(g, s)
      [] s.k = "print"  -> PrintStmt(g, s)
      [] s.k = "return" -> Return(g, s)
      [] s.k = "if"     -> If(Expr(g, s.cond), s)
      [] s.k = "while"  ->
           While(Expr(StartLoop(g, Newest(g) + 1), s.cond), s, Newest(g) + 1)

Block(g, stmts) ==
    IF stmts = <<>> THEN g ELSE Block(Statement(g, Head(stmts)), Tail(stmts))

\* The graph of a function: its first segment is 1, its last the current one.
Graph(g)        == [segs |-> g.segs, last |-> g.cur]
Function(stmts) == Graph(Block([segs |-> <<EmptySegment>>, cur |-> 1], stmts))
===============================================================================
